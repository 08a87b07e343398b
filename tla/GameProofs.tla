----------------------------- MODULE GameProofs -----------------------------
(***************************************************************************)
(* What holds in simpleai-run for any number of entities and trees: the    *)
(* game and its zone agree about who is there, nobody vanishes, and the    *)
(* crashes that Game knows of take two respawns at a time, or a reload.    *)
(***************************************************************************)
EXTENDS Game, FiniteSetTheorems, TLAPS

MainSteps == {"trees", "pick", "remove", "load", "insert", "schedule", "join", "loop", "log"}
RunSteps == {"pick", "remove", "trees", "load", "insert", "schedule", "join", "loop"}

Respawning(t) == at[t] \in IF t = "main" THEN MainSteps ELSE RunSteps

\* Where the threads may be.
StepsInv ==
  /\ at \in [Threads -> MainSteps \union {"idle", "init", "joining", "gone"}]
  /\ at["run"] \in RunSteps \union {"idle", "gone"}

\* An entity is one thread's until it has been handed on.
Held == {"insert", "schedule", "join", "loop"}

FreshInv ==
  /\ \A t \in Threads : IF at[t] \in Held THEN fresh[t] \in 1 .. born ELSE fresh[t] = Nobody
  /\ fresh["main"] = fresh["run"] => fresh["main"] = Nobody

\* The entities that respawns are under way for have still a number to get.
Before(t) == IF at[t] \in {"trees", "pick", "remove", "load"} THEN 1 ELSE 0

BornInv == born + Before("main") + Before("run") <= MaxEntities

\* Whom the zone does not know yet.
Coming == {fresh[t] : t \in {u \in Threads : at[u] \in {"insert", "schedule"}}}

\* The zone has, or will have with its next update, all that the game knows and all
\* it has not been able to remove.
MapInv ==
  /\ entities \intersect (removing \union orphans) = {}
  /\ adding \intersect zone = {} /\ removing \intersect orphans = {}
  /\ \A e \in (1 .. born) \ Coming : e \in adding \union zone <=> e \in entities \union removing \union orphans
  /\ Coming \intersect (adding \union zone) = {}
  /\ \A t \in Threads : at[t] = "insert" => fresh[t] \notin entities \union removing \union orphans
  /\ \A t \in Threads : at[t] = "schedule" => fresh[t] \in entities \union removing \union orphans

\* Who has been removed and is not replaced yet.
Owes(t) == IF at[t] \in {"load", "insert"} \/ (t = "run" /\ at[t] = "trees") THEN 1 ELSE 0

CountInv == Cardinality(entities) + Owes("main") + Owes("run") >= Amount

\* As long as the threads have kept out of each other's way.
AloneInv ==
  met = {} =>
    /\ crashed = "no" /\ orphans = {}
    /\ trees = Trees /\ at["main"] # "init" /\ 1 .. born \subseteq rooted
    /\ ~(Respawning("main") /\ Respawning("run"))
    /\ \A t \in Threads : at[t] = "load" \/ (t = "main" /\ at[t] \in {"pick", "remove"}) => names[t] = Trees
    /\ at["main"] \in MainSteps \ {"trees", "pick"} => rnd["main"] # Nobody
    /\ \A t \in Threads : at[t] = "schedule" => fresh[t] \in entities

MapParts ==
  /\ at["main"] # "gone" => MapInv /\ CountInv
  /\ at["main"] = "gone" => at["run"] = "gone"

IInv == TypeOK /\ StepsInv /\ FreshInv /\ BornInv /\ MapParts /\ AloneInv

LEMMA Bounds ==
  Amount \in Nat \ {0} /\ MaxEntities \in Nat \ {0} /\ Amount <= MaxEntities
  /\ Trees # {} /\ Nobody \notin Nat
BY GameAssumption

----------------------------------------------------------------------------
(* The steps of a respawn                                                  *)

LEMMA StepsAre == ToSet(Steps["main"]) = MainSteps /\ ToSet(Steps["run"]) = RunSteps
<1> DEFINE m == Steps["main"]
           r == Steps["run"]
<1>1. /\ DOMAIN m = 1 .. 9 /\ m[1] = "trees" /\ m[2] = "pick" /\ m[3] = "remove" /\ m[4] = "load" /\ m[5] = "insert"
      /\ m[6] = "schedule" /\ m[7] = "join" /\ m[8] = "loop" /\ m[9] = "log"
  BY DEF Steps
<1>2. /\ DOMAIN r = 1 .. 8 /\ r[1] = "pick" /\ r[2] = "remove" /\ r[3] = "trees" /\ r[4] = "load" /\ r[5] = "insert"
      /\ r[6] = "schedule" /\ r[7] = "join" /\ r[8] = "loop"
  BY DEF Steps
<1> HIDE DEF m, r
<1>3. ToSet(m) = MainSteps
  BY <1>1 DEF ToSet, MainSteps
<1>4. ToSet(r) = RunSteps
  BY <1>2 DEF ToSet, RunSteps
<1> QED
  BY <1>3, <1>4 DEF m, r

LEMMA Afters ==
  ASSUME NEW t \in Threads
  PROVE  /\ at[t] = "trees" => StepAfter(t) = IF t = "main" THEN "pick" ELSE "load"
         /\ at[t] = "pick" => StepAfter(t) = "remove"
         /\ at[t] = "remove" => StepAfter(t) = IF t = "main" THEN "load" ELSE "trees"
         /\ at[t] = "load" => StepAfter(t) = "insert"
         /\ at[t] = "insert" => StepAfter(t) = "schedule"
         /\ at[t] = "schedule" => StepAfter(t) = "join"
         /\ at[t] = "join" => StepAfter(t) = "loop"
         /\ at[t] = "loop" => StepAfter(t) = IF t = "main" THEN "log" ELSE "idle"
         /\ t = "main" /\ at[t] = "log" => StepAfter(t) = "idle"
<1> DEFINE q == Steps[t]
           c == CHOOSE j \in DOMAIN q : q[j] = at[t]
<1>1. \A j \in DOMAIN q : q[j] = at[t] => c \in DOMAIN q /\ q[c] = at[t]
  OBVIOUS
<1>2. StepAfter(t) = IF c < Len(q) THEN q[c + 1] ELSE "idle"
  BY DEF StepAfter
<1>3. CASE t = "main"
  <2>1. /\ DOMAIN q = 1 .. 9 /\ Len(q) = 9 /\ q[1] = "trees" /\ q[2] = "pick" /\ q[3] = "remove" /\ q[4] = "load"
        /\ q[5] = "insert" /\ q[6] = "schedule" /\ q[7] = "join" /\ q[8] = "loop" /\ q[9] = "log"
    BY <1>3 DEF Steps
  <2> HIDE DEF q, c
  <2> QED
    BY <1>1, <1>2, <1>3, <2>1
<1>4. CASE t = "run"
  <2>1. /\ DOMAIN q = 1 .. 8 /\ Len(q) = 8 /\ q[1] = "pick" /\ q[2] = "remove" /\ q[3] = "trees" /\ q[4] = "load"
        /\ q[5] = "insert" /\ q[6] = "schedule" /\ q[7] = "join" /\ q[8] = "loop"
    BY <1>4 DEF Steps
  <2> HIDE DEF q, c
  <2> QED
    BY <1>1, <1>2, <1>4, <2>1
<1> QED
  BY <1>3, <1>4 DEF Threads

LEMMA Moves ==
  ASSUME StepsInv, NEW t \in Threads, NEW s \in MainSteps, Step(t, s)
  PROVE  /\ at[t] = s /\ \A u \in Threads : u # t => at'[u] = at[u]
         /\ at'[t] = StepAfter(t) /\ StepsInv'
         /\ s = "trees" => at'[t] = IF t = "main" THEN "pick" ELSE "load"
         /\ s = "pick" => at'[t] = "remove"
         /\ s = "remove" => at'[t] = IF t = "main" THEN "load" ELSE "trees"
         /\ s = "load" => at'[t] = "insert"
         /\ s = "insert" => at'[t] = "schedule"
         /\ s = "schedule" => at'[t] = "join"
         /\ s = "join" => at'[t] = "loop"
         /\ s = "loop" => at'[t] = IF t = "main" THEN "log" ELSE "idle"
         /\ s = "log" => t = "main" /\ at'[t] = "idle"
<1>1. at[t] = s /\ at' = [at EXCEPT ![t] = StepAfter(t)] /\ at \in [Threads -> MainSteps \union {"idle", "init", "joining", "gone"}]
  BY DEF Step, StepsInv
<1>2. /\ at' \in [Threads -> {StepAfter(t)} \union MainSteps \union {"idle", "init", "joining", "gone"}]
      /\ at'[t] = StepAfter(t) /\ \A u \in Threads : u # t => at'[u] = at[u]
  BY <1>1
<1>3. t = "main" \/ t = "run"
  BY DEF Threads
<1>4. s = "log" => t = "main"
  BY <1>1, <1>3 DEF StepsInv, RunSteps
<1>5. /\ s = "trees" => StepAfter(t) = IF t = "main" THEN "pick" ELSE "load"
      /\ s = "pick" => StepAfter(t) = "remove"
      /\ s = "remove" => StepAfter(t) = IF t = "main" THEN "load" ELSE "trees"
      /\ s = "load" => StepAfter(t) = "insert"
      /\ s = "insert" => StepAfter(t) = "schedule"
      /\ s = "schedule" => StepAfter(t) = "join"
      /\ s = "join" => StepAfter(t) = "loop"
      /\ s = "loop" => StepAfter(t) = IF t = "main" THEN "log" ELSE "idle"
      /\ s = "log" => StepAfter(t) = "idle"
  BY <1>1, <1>4, Afters
<1> DEFINE x == StepAfter(t)
<1> HIDE DEF x
<1>6. x \in MainSteps \union {"idle"} /\ (t = "run" => x \in RunSteps \union {"idle"})
  BY <1>4, <1>5 DEF MainSteps, RunSteps, x
<1>7. at' \in [Threads -> MainSteps \union {"idle", "init", "joining", "gone"}]
  BY <1>2, <1>6 DEF x
<1>8. at'["run"] \in RunSteps \union {"idle", "gone"}
  BY <1>2, <1>6 DEF StepsInv, Threads, x
<1> QED
  BY <1>1, <1>2, <1>4, <1>5, <1>7, <1>8 DEF StepsInv

\* A thread that begins a respawn, or goes on to something else.
LEMMA Turns ==
  ASSUME StepsInv, NEW t \in Threads, NEW x \in MainSteps \union {"idle", "init", "joining", "gone"},
         t = "run" => x \in RunSteps \union {"idle", "gone"},
         at' = [at EXCEPT ![t] = x]
  PROVE  StepsInv' /\ at'[t] = x /\ \A u \in Threads : u # t => at'[u] = at[u]
<1>1. at'[t] = x /\ \A u \in Threads : u # t => at'[u] = at[u]
  BY DEF StepsInv
<1>2. at' \in [Threads -> MainSteps \union {"idle", "init", "joining", "gone"}]
  BY DEF StepsInv
<1>3. at'["run"] \in RunSteps \union {"idle", "gone"}
  BY <1>1 DEF StepsInv, Threads
<1> QED
  BY <1>1, <1>2, <1>3 DEF StepsInv

LEMMA TypeOfAt ==
  ASSUME NEW f \in [Threads -> MainSteps \union {"idle", "init", "joining", "gone"}]
  PROVE  f \in [Threads -> {"idle", "init", "joining", "gone"} \union UNION {ToSet(Steps[t]) : t \in Threads}]
<1> DEFINE U == UNION {ToSet(Steps[t]) : t \in Threads}
           O == {"idle", "init", "joining", "gone"}
<1>1. MainSteps \subseteq U
  BY StepsAre DEF Threads
<1>2. f \in [Threads -> MainSteps \union O]
  OBVIOUS
<1> HIDE DEF U, O
<1>3. f \in [Threads -> O \union U]
  BY <1>1, <1>2
<1> QED
  BY <1>3 DEF U, O

----------------------------------------------------------------------------
(* The invariant                                                           *)

LEMMA InitIInv == Init => IInv
<1> SUFFICES ASSUME Init PROVE IInv
  OBVIOUS
<1> USE Bounds DEF Init
<1>1. StepsInv
  BY DEF StepsInv, Threads
<1>2. TypeOK
  <2>1. /\ trees \subseteq Trees /\ autospawn \in BOOLEAN /\ born \in Amount .. MaxEntities
        /\ \A s \in {entities, adding, removing, zone, grouped, rooted, orphans} : s \subseteq 1 .. born
    OBVIOUS
  <2>2. /\ rnd \in [Threads -> Entities \union {Nobody}] /\ fresh \in [Threads -> Entities \union {Nobody}]
        /\ names \in [Threads -> SUBSET Trees]
        /\ crashed \in {"no", "trees", "roots", "entities", "nobody"}
        /\ met \subseteq {"overlap", "reload"}
    OBVIOUS
  <2> QED
    BY <1>1, <2>1, <2>2, TypeOfAt DEF StepsInv, TypeOK
<1>3. FreshInv /\ BornInv
  BY DEF FreshInv, Threads, Held, BornInv, Before
<1>4. MapParts
  <2>1. Cardinality(1 .. Amount) = Amount
    BY FS_Interval
  <2> QED
    BY <2>1 DEF MapParts, MapInv, CountInv, Owes, Coming, Threads
<1>5. AloneInv
  BY DEF AloneInv, Respawning, MainSteps, Threads
<1> QED
  BY <1>1, <1>2, <1>3, <1>4, <1>5 DEF IInv

LEMMA Finite ==
  ASSUME IInv
  PROVE  IsFiniteSet(entities) /\ Cardinality(entities) \in Nat
<1>1. entities \subseteq 1 .. born /\ born \in Int
  BY Bounds DEF IInv, TypeOK
<1>2. IsFiniteSet(1 .. born)
  BY <1>1, FS_Interval
<1>3. IsFiniteSet(entities)
  BY <1>1, <1>2, FS_Subset
<1> QED
  BY <1>3, FS_CardinalityType

\* The steps that leave the map and the entities under way alone.
Apart ==
  /\ UNCHANGED <<born, entities, adding, removing, zone, orphans>>
  /\ \A t \in Threads : at[t] \in {"insert", "schedule"} \/ at'[t] \in {"insert", "schedule"} =>
       at'[t] = at[t] /\ fresh'[t] = fresh[t]
  /\ \A t \in Threads : at'[t] = "gone" <=> at[t] = "gone"
  /\ Owes("main")' + Owes("run")' >= Owes("main") + Owes("run")

LEMMA ApartMap ==
  ASSUME IInv, Apart
  PROVE  MapParts'
<1>1. Coming' = Coming
  <2>1. \A t \in Threads : at'[t] \in {"insert", "schedule"} <=> at[t] \in {"insert", "schedule"}
    BY DEF Apart
  <2>2. \A t \in Threads : at[t] \in {"insert", "schedule"} => fresh'[t] = fresh[t]
    BY DEF Apart
  <2> QED
    BY <2>1, <2>2 DEF Coming
<1>2. /\ UNCHANGED <<born, entities, adding, removing, zone, orphans>>
      /\ \A t \in Threads : at'[t] = "gone" <=> at[t] = "gone"
      /\ "main" \in Threads /\ "run" \in Threads
  BY DEF Apart, Threads
<1>3. MapInv => MapInv'
  <2>1. \A t \in Threads : at'[t] \in {"insert", "schedule"} => at'[t] = at[t] /\ fresh'[t] = fresh[t]
    BY DEF Apart
  <2> QED
    BY <1>1, <1>2, <2>1 DEF MapInv
<1>4. CountInv => CountInv'
  <2>1. Cardinality(entities) \in Nat
    BY Finite
  <2>2. Cardinality(entities') = Cardinality(entities)
    BY <1>2
  <2>3. Owes("main")' + Owes("run")' >= Owes("main") + Owes("run")
    BY DEF Apart
  <2> QED
    BY <2>1, <2>2, <2>3, Bounds DEF CountInv, Owes
<1> QED
  BY <1>2, <1>3, <1>4 DEF IInv, MapParts

\* What TypeOK says of the others.
Data ==
  /\ trees \subseteq Trees /\ autospawn \in BOOLEAN /\ born \in Amount .. MaxEntities
  /\ \A s \in {entities, adding, removing, zone, grouped, rooted, orphans} : s \subseteq 1 .. born
  /\ rnd \in [Threads -> Entities \union {Nobody}] /\ fresh \in [Threads -> Entities \union {Nobody}]
  /\ names \in [Threads -> SUBSET Trees]
  /\ crashed \in {"no", "trees", "roots", "entities", "nobody"}
  /\ met \subseteq {"overlap", "reload"}

LEMMA Types == /\ IInv => Data
               /\ Data' /\ StepsInv' => TypeOK'
<1>1. IInv => Data
  BY DEF IInv, TypeOK, Data
<1>2. StepsInv' => (at' \in [Threads -> {"idle", "init", "joining", "gone"} \union UNION {ToSet(Steps[t]) : t \in Threads}])
  BY TypeOfAt DEF StepsInv
<1> QED
  BY <1>1, <1>2 DEF TypeOK, Data

\* There are but two threads.
LEMMA Others == "main" \in Threads /\ "run" \in Threads /\ \A t \in Threads : t \in {"main", "run"}
BY DEF Threads

LEMMA RespawnIInv ==
  ASSUME IInv, NEW t \in Threads, Respawn(t)
  PROVE  IInv'
<1> DEFINE x == Head(Steps[t])
<1>1. /\ at[t] = "idle" /\ at' = [at EXCEPT ![t] = x]
      /\ born + Cardinality({u \in Threads : at[u] \in {"trees", "pick", "remove", "load"}}) < MaxEntities
      /\ met' = met \union {"overlap" : u \in {v \in Threads : at[v] \in ToSet(Steps[v])}}
      /\ UNCHANGED <<trees, born, autospawn, map, rooted, locals, crashed, orphans>>
  BY DEF Respawn
<1>2. x = IF t = "main" THEN "trees" ELSE "pick"
  BY Others DEF Steps
<1> HIDE DEF x
<1>3. StepsInv' /\ at'[t] = x /\ \A u \in Threads : u # t => at'[u] = at[u]
  BY <1>1, <1>2, Turns DEF IInv, MainSteps, RunSteps
<1>4. TypeOK'
  <2>1. met' \subseteq {"overlap", "reload"}
    BY <1>1 DEF IInv, TypeOK
  <2>2. Data'
    BY <1>1, <2>1, Types DEF Data, map, locals
  <2> QED
    BY <1>3, <2>2, Types
<1>5. FreshInv'
  BY <1>1, <1>2, <1>3, Others DEF IInv, FreshInv, Held, locals
<1>6. BornInv'
  <2> DEFINE B == {u \in Threads : at[u] \in {"trees", "pick", "remove", "load"}}
  <2>1. PICK u \in Threads : u # t /\ Threads = {t, u}
    BY Others DEF Threads
  <2>2. Cardinality(B) = Before(u)
    <3>1. CASE at[u] \in {"trees", "pick", "remove", "load"}
      <4>1. B = {u}
        BY <1>1, <2>1, <3>1
      <4> QED
        BY <3>1, <4>1, FS_Singleton DEF Before
    <3>2. CASE at[u] \notin {"trees", "pick", "remove", "load"}
      <4>1. B = {}
        BY <1>1, <2>1, <3>2
      <4> QED
        BY <3>2, <4>1, FS_EmptySet DEF Before
    <3> QED
      BY <3>1, <3>2
  <2> HIDE DEF B
  <2>3. Before(u)' = Before(u) /\ Before(t)' = 1 /\ Before(u) \in {0, 1}
    BY <1>2, <1>3, <2>1 DEF Before
  <2>4. born \in Int /\ MaxEntities \in Int /\ born' = born /\ born + Before(u) < MaxEntities
    BY <1>1, <2>2, Bounds DEF IInv, TypeOK, B
  <2>5. born' + Before(u)' + Before(t)' <= MaxEntities
    BY <2>3, <2>4
  <2>6. (u = "main" /\ t = "run") \/ (u = "run" /\ t = "main")
    BY <2>1, Others
  <2> QED
    BY <2>3, <2>4, <2>5, <2>6 DEF BornInv
<1>7. MapParts'
  <2>1. Apart
    BY <1>1, <1>2, <1>3, Others DEF Apart, Owes, map, locals
  <2> QED
    BY <2>1, ApartMap
<1>8. AloneInv'
  <2>1. met' = {} => met = {} /\ \A v \in Threads : ~Respawning(v)
    BY <1>1, StepsAre, Others DEF Respawning
  <2> QED
    BY <1>1, <1>2, <1>3, <2>1, Others DEF IInv, AloneInv, Respawning, MainSteps, RunSteps, map, locals
<1> QED
  BY <1>3, <1>4, <1>5, <1>6, <1>7, <1>8 DEF IInv

LEMMA GetTreesIInv ==
  ASSUME IInv, NEW t \in Threads, GetTrees(t)
  PROVE  IInv'
<1>1. /\ names' = [names EXCEPT ![t] = trees]
      /\ UNCHANGED <<trees, born, autospawn, map, rooted, rnd, fresh, crashed, history>>
  BY DEF GetTrees
<1>2. /\ at[t] = "trees" /\ at'[t] = (IF t = "main" THEN "pick" ELSE "load") /\ StepsInv'
      /\ \A u \in Threads : u # t => at'[u] = at[u]
  BY Moves DEF GetTrees, IInv, MainSteps
<1>3. names' \in [Threads -> SUBSET Trees] /\ names'[t] = trees /\ \A u \in Threads : u # t => names'[u] = names[u]
  BY <1>1 DEF IInv, TypeOK
<1>4. TypeOK'
  <2>1. Data'
    BY <1>1, <1>3, Types DEF Data, map, history
  <2> QED
    BY <1>2, <2>1, Types
<1>5. FreshInv'
  BY <1>1, <1>2, Others DEF IInv, FreshInv, Held
<1>6. BornInv'
  BY <1>1, <1>2, Others DEF IInv, BornInv, Before
<1>7. MapParts'
  <2>1. Apart
    BY <1>1, <1>2, Others DEF Apart, Owes, map, history
  <2> QED
    BY <2>1, ApartMap
<1>8. AloneInv'
  BY <1>1, <1>2, <1>3, Others DEF IInv, AloneInv, Respawning, MainSteps, RunSteps, map, history
<1> QED
  BY <1>2, <1>4, <1>5, <1>6, <1>7, <1>8 DEF IInv

LEMMA GetRandomEntityIInv ==
  ASSUME IInv, NEW t \in Threads, GetRandomEntity(t)
  PROVE  IInv'
<1>1. /\ \/ entities = {} /\ rnd' = [rnd EXCEPT ![t] = Nobody]
         \/ \E e \in entities : rnd' = [rnd EXCEPT ![t] = e]
      /\ UNCHANGED <<trees, born, autospawn, map, rooted, names, fresh, crashed, history>>
  BY DEF GetRandomEntity
<1>2. /\ at[t] = "pick" /\ at'[t] = "remove" /\ StepsInv'
      /\ \A u \in Threads : u # t => at'[u] = at[u]
  BY Moves DEF GetRandomEntity, IInv, MainSteps
<1>3. \A e \in entities : e \in Entities /\ e \in Nat
  BY Bounds DEF IInv, TypeOK, Entities
<1>4. /\ rnd' \in [Threads -> Entities \union {Nobody}]
      /\ \A u \in Threads : u # t => rnd'[u] = rnd[u]
      /\ entities # {} => rnd'[t] # Nobody
  BY <1>1, <1>3, Bounds DEF IInv, TypeOK
<1>5. TypeOK'
  <2>1. Data'
    BY <1>1, <1>4, Types DEF Data, map, history
  <2> QED
    BY <1>2, <2>1, Types
<1>6. FreshInv'
  BY <1>1, <1>2, Others DEF IInv, FreshInv, Held
<1>7. BornInv'
  BY <1>1, <1>2, Others DEF IInv, BornInv, Before
<1>8. MapParts'
  <2>1. Apart
    BY <1>1, <1>2, Others DEF Apart, Owes, map, history
  <2> QED
    BY <2>1, ApartMap
<1>9. AloneInv'
  <2>1. t = "main" /\ met = {} => entities # {}
    <3> SUFFICES ASSUME t = "main", met = {}, entities = {} PROVE FALSE
      OBVIOUS
    <3>1. at["main"] = "pick" /\ at["run"] \notin RunSteps
      BY <1>2 DEF IInv, AloneInv, Respawning, MainSteps
    <3>2. Owes("main") = 0 /\ Owes("run") = 0
      BY <3>1 DEF Owes, RunSteps
    <3>3. CountInv
      BY <3>1 DEF IInv, MapParts
    <3> QED
      BY <3>2, <3>3, FS_EmptySet, Bounds DEF CountInv
  <2> QED
    BY <1>1, <1>2, <1>4, <2>1, Others DEF IInv, AloneInv, Respawning, MainSteps, RunSteps, map, history
<1> QED
  BY <1>2, <1>5, <1>6, <1>7, <1>8, <1>9 DEF IInv

LEMMA RemoveEntityIInv ==
  ASSUME IInv, NEW t \in Threads, RemoveEntity(t)
  PROVE  IInv'
<1> DEFINE e == rnd[t]
<1>1. /\ removing' = removing \union ({e} \intersect entities)
      /\ entities' = entities \ {e}
      /\ crashed' = crashed \/ (Watched(t) /\ crashed' = "entities")
      /\ UNCHANGED <<trees, born, autospawn, adding, zone, grouped, rooted, locals, history>>
  BY DEF RemoveEntity, Leaving, Disturb, Fine, Crash
<1>2. /\ at[t] = "remove" /\ at'[t] = (IF t = "main" THEN "load" ELSE "trees") /\ StepsInv'
      /\ \A u \in Threads : u # t => at'[u] = at[u]
  BY Moves DEF RemoveEntity, IInv, MainSteps
<1> HIDE DEF e
<1>3. TypeOK'
  <2>1. crashed' \in {"no", "trees", "roots", "entities", "nobody"}
    BY <1>1 DEF IInv, TypeOK
  <2>2. removing' \subseteq 1 .. born /\ entities' \subseteq 1 .. born
    BY <1>1, Types DEF Data, IInv
  <2>3. Data'
    BY <1>1, <2>1, <2>2, Types DEF Data, locals, history
  <2> QED
    BY <1>2, <2>3, Types
<1>4. FreshInv'
  BY <1>1, <1>2, Others DEF IInv, FreshInv, Held, locals
<1>5. BornInv'
  BY <1>1, <1>2, Others DEF IInv, BornInv, Before
<1>6. MapParts'
  <2>1. Coming' = Coming
    BY <1>1, <1>2, Others DEF Coming, locals
  <2>2. MapInv => MapInv'
    <3>1. entities' \union removing' = entities \union removing
      BY <1>1
    <3>2. entities \intersect removing = {} => entities' \intersect removing' = {}
      BY <1>1
    <3> QED
      BY <1>1, <1>2, <2>1, <3>1, <3>2, Others DEF MapInv, locals, history
  <2>3. CountInv => CountInv'
    <3>1. Cardinality(entities) \in Nat /\ Cardinality(entities') \in Nat /\ Cardinality(entities') >= Cardinality(entities) - 1
      <4>1. /\ IsFiniteSet(entities \ {e})
            /\ Cardinality(entities \ {e}) = IF e \in entities THEN Cardinality(entities) - 1 ELSE Cardinality(entities)
        BY Finite, FS_RemoveElement
      <4>2. Cardinality(entities \ {e}) \in Nat
        BY <4>1, FS_CardinalityType
      <4> QED
        BY <1>1, <4>1, <4>2, Finite
    <3>2. Owes(t) = 0 /\ Owes(t)' = 1 /\ \A u \in Threads : u # t => Owes(u)' = Owes(u) /\ Owes(u) \in Nat
      BY <1>2, Others DEF Owes
    <3> QED
      BY <3>1, <3>2, Others, Bounds DEF CountInv
  <2> QED
    BY <1>2, <2>2, <2>3, Others DEF IInv, MapParts
<1>7. AloneInv'
  <2>1. met = {} => ~Watched(t)
    BY <1>2, Others DEF IInv, AloneInv, Respawning, MainSteps, RunSteps, Watched
  <2> QED
    BY <1>1, <1>2, <2>1, Others DEF IInv, AloneInv, Respawning, MainSteps, RunSteps, locals, history
<1> QED
  BY <1>2, <1>3, <1>4, <1>5, <1>6, <1>7 DEF IInv

LEMMA LoadIInv ==
  ASSUME IInv, NEW t \in Threads, Load(t)
  PROVE  IInv'
<1>1. at[t] = "load" /\ UNCHANGED <<trees, autospawn, map, rnd, names, history>>
  BY DEF Load
<1>2. CASE names[t] = {}
  <2>1. crashed' = "trees" /\ UNCHANGED <<at, born, fresh, rooted>>
    BY <1>2 DEF Load, Crash
  <2>2. StepsInv' /\ FreshInv' /\ BornInv'
    BY <1>1, <2>1 DEF IInv, StepsInv, FreshInv, BornInv, Before, map
  <2>3. TypeOK'
    BY <1>1, <2>1, <2>2, Types DEF Data, map, history
  <2>4. MapParts'
    <3>1. Apart
      <4>1. Owes("main")' + Owes("run")' >= Owes("main") + Owes("run")
        BY <2>1 DEF Owes
      <4> QED
        BY <1>1, <2>1, <4>1 DEF Apart, map, history
    <3> QED
      BY <3>1, ApartMap
  <2>5. AloneInv'
    BY <1>1, <1>2, <2>1, Bounds DEF IInv, AloneInv, history
  <2> QED
    BY <2>2, <2>3, <2>4, <2>5 DEF IInv
<1>3. CASE names[t] # {}
  <2>1. PICK n \in names[t] : rooted' = rooted \union Loaded(born + 1, n)
    BY <1>3 DEF Load
  <2>2. Step(t, "load") /\ born' = born + 1 /\ fresh' = [fresh EXCEPT ![t] = born + 1] /\ crashed' = crashed
    BY <1>3 DEF Load, Fine
  <2>3. at'[t] = "insert" /\ StepsInv' /\ \A u \in Threads : u # t => at'[u] = at[u]
    BY <2>2, Moves DEF IInv, MainSteps
  <2>4. /\ born \in Nat /\ born + 1 <= MaxEntities /\ born' \in Amount .. MaxEntities
        /\ Before(t)' = 0 /\ Before(t) = 1 /\ BornInv'
    <3>1. Before(t) = 1 /\ Before(t)' = 0 /\ \A u \in Threads : u # t => Before(u)' = Before(u) /\ Before(u) \in Nat
      BY <1>1, <2>3 DEF Before
    <3>2. born \in Amount .. MaxEntities /\ born \in Nat
      BY Bounds DEF IInv, TypeOK
    <3>3. PICK u \in Threads : u # t /\ ((t = "main" /\ u = "run") \/ (t = "run" /\ u = "main"))
      BY Others
    <3>4. born + Before(t) + Before(u) <= MaxEntities
      BY <3>1, <3>2, <3>3 DEF IInv, BornInv
    <3>5. born' + Before(t)' + Before(u)' <= MaxEntities
      BY <2>2, <3>1, <3>2, <3>3, <3>4, Bounds
    <3>6. BornInv'
      BY <2>2, <3>1, <3>2, <3>3, <3>5 DEF BornInv
    <3> QED
      BY <2>2, <3>1, <3>2, <3>3, <3>4, <3>6, Bounds
  <2>5. fresh'[t] = born + 1 /\ fresh' \in [Threads -> Entities \union {Nobody}] /\ \A u \in Threads : u # t => fresh'[u] = fresh[u]
    BY <2>2, <2>4, Bounds DEF IInv, TypeOK, Entities
  <2>6. 1 .. born' = (1 .. born) \union {born + 1} /\ born + 1 \notin 1 .. born
    BY <2>2, <2>4
  <2>7. TypeOK'
    <3>1. Loaded(born + 1, n) \subseteq {born + 1}
      BY DEF Loaded
    <3>2. \A s \in {entities', adding', removing', zone', grouped', rooted', orphans'} : s \subseteq 1 .. born'
      BY <1>1, <2>1, <2>6, <3>1, Types DEF IInv, Data, map, history
    <3>3. Data'
      BY <1>1, <2>2, <2>4, <2>5, <3>2, Types DEF Data, map, history
    <3> QED
      BY <2>3, <3>3, Types
  <2>8. FreshInv'
    BY <1>1, <2>3, <2>5, <2>6, Others, Bounds DEF IInv, FreshInv, Held
  <2>9. MapParts'
    <3>1. Coming' = Coming \union {born + 1}
      BY <1>1, <2>3, <2>5, Others DEF Coming
    <3>2. born + 1 \notin entities \union removing \union orphans \union adding \union zone
      BY <2>6, Types DEF IInv, Data
    <3>3. MapInv => MapInv'
      <4>1. UNCHANGED <<entities, removing, adding, zone, orphans>>
        BY <1>1 DEF map, history
      <4>2. \A u \in Threads : at'[u] = "schedule" => at[u] = "schedule" /\ fresh'[u] = fresh[u]
        BY <2>3, <2>5
      <4>3. \A u \in Threads : at'[u] = "insert" => fresh'[u] = born + 1 \/ (at[u] = "insert" /\ fresh'[u] = fresh[u])
        BY <2>3, <2>5
      <4> QED
        BY <2>6, <3>1, <3>2, <4>1, <4>2, <4>3 DEF MapInv
    <3>4. CountInv => CountInv'
      <4>1. entities' = entities
        BY <1>1 DEF map
      <4>2. Owes("main")' = Owes("main") /\ Owes("run")' = Owes("run")
        BY <1>1, <2>3, Others DEF Owes
      <4> QED
        BY <4>1, <4>2 DEF CountInv
    <3> QED
      BY <1>1, <2>3, <3>3, <3>4, Others DEF IInv, MapParts
  <2>10. AloneInv'
    <3>1. met = {} => Loaded(born + 1, n) = {born + 1}
      BY <1>1, <2>1 DEF IInv, AloneInv, Loaded
    <3>2. met = {} => 1 .. born' \subseteq rooted'
      BY <2>1, <2>6, <3>1 DEF IInv, AloneInv
    <3> QED
      BY <1>1, <2>2, <2>3, <2>5, <3>2, Others DEF IInv, AloneInv, Respawning, MainSteps, RunSteps, map, history
  <2> QED
    BY <2>3, <2>4, <2>7, <2>8, <2>9, <2>10 DEF IInv
<1> QED
  BY <1>2, <1>3

LEMMA InsertIInv ==
  ASSUME IInv, NEW t \in Threads, Insert(t)
  PROVE  IInv'
<1> DEFINE e == fresh[t]
<1>1. /\ entities' = entities \union {e}
      /\ crashed' = crashed \/ (Watched(t) /\ crashed' = "entities")
      /\ UNCHANGED <<trees, born, autospawn, adding, removing, zone, grouped, rooted, locals, history>>
  BY DEF Insert, Disturb, Fine, Crash
<1>2. /\ at[t] = "insert" /\ at'[t] = "schedule" /\ StepsInv'
      /\ \A u \in Threads : u # t => at'[u] = at[u]
  BY Moves DEF Insert, IInv, MainSteps
<1>3. e \in 1 .. born /\ e # Nobody
  BY <1>2, Bounds DEF IInv, FreshInv, Held, TypeOK
<1>4. \A u \in Threads : u # t /\ fresh[u] = e => FALSE
  BY <1>3, Others DEF IInv, FreshInv
<1> HIDE DEF e
<1>5. TypeOK'
  <2>1. crashed' \in {"no", "trees", "roots", "entities", "nobody"}
    BY <1>1 DEF IInv, TypeOK
  <2>2. entities' \subseteq 1 .. born
    BY <1>1, <1>3, Types DEF Data, IInv
  <2>3. Data'
    BY <1>1, <2>1, <2>2, Types DEF Data, locals, history
  <2> QED
    BY <1>2, <2>3, Types
<1>6. FreshInv'
  BY <1>1, <1>2, Others DEF IInv, FreshInv, Held, locals
<1>7. BornInv'
  BY <1>1, <1>2, Others DEF IInv, BornInv, Before
<1>8. MapParts'
  <2>1. Coming' = Coming /\ e \in Coming
    <3>1. \A u \in Threads : at'[u] \in {"insert", "schedule"} <=> at[u] \in {"insert", "schedule"}
      BY <1>2
    <3> QED
      BY <1>1, <1>2, <3>1 DEF Coming, locals, e
  <2>2. MapInv => MapInv'
    <3> SUFFICES ASSUME MapInv PROVE MapInv'
      OBVIOUS
    <3>1. e \notin entities \union removing \union orphans
      BY <1>2 DEF MapInv, e
    <3>2. /\ entities' \intersect (removing' \union orphans') = {}
          /\ adding' \intersect zone' = {} /\ removing' \intersect orphans' = {}
          /\ Coming' \intersect (adding' \union zone') = {}
      BY <1>1, <2>1, <3>1 DEF MapInv, history
    <3>3. \A x \in (1 .. born') \ Coming' :
            x \in adding' \union zone' <=> x \in entities' \union removing' \union orphans'
      BY <1>1, <2>1 DEF MapInv, history
    <3>4. \A u \in Threads : at'[u] = "insert" =>
            u # t /\ fresh'[u] \notin entities' \union removing' \union orphans'
      BY <1>1, <1>2, <1>4 DEF MapInv, locals, history
    <3>5. \A u \in Threads : at'[u] = "schedule" => fresh'[u] \in entities' \union removing' \union orphans'
      BY <1>1, <1>2 DEF MapInv, locals, history, e
    <3> QED
      BY <3>2, <3>3, <3>4, <3>5 DEF MapInv
  <2>3. MapInv /\ CountInv => CountInv'
    <3>1. MapInv => e \notin entities
      BY <1>2 DEF MapInv, e
    <3>2. MapInv => Cardinality(entities') = Cardinality(entities) + 1 /\ Cardinality(entities) \in Nat
      BY <1>1, <3>1, Finite, FS_AddElement
    <3>3. Owes(t) = 1 /\ Owes(t)' = 0 /\ \A u \in Threads : u # t => Owes(u)' = Owes(u) /\ Owes(u) \in Nat
      BY <1>2, Others DEF Owes
    <3> QED
      BY <3>2, <3>3, Others, Bounds DEF CountInv
  <2> QED
    BY <1>2, <2>2, <2>3, Others DEF IInv, MapParts
<1>9. AloneInv'
  <2>1. met = {} => ~Watched(t)
    BY <1>2, Others DEF IInv, AloneInv, Respawning, MainSteps, RunSteps, Watched
  <2>2. fresh'[t] \in entities'
    BY <1>1 DEF locals, e
  <2> QED
    BY <1>1, <1>2, <2>1, <2>2, Others DEF IInv, AloneInv, Respawning, MainSteps, RunSteps, locals, history
<1> QED
  BY <1>2, <1>5, <1>6, <1>7, <1>8, <1>9 DEF IInv

LEMMA AddAIIInv ==
  ASSUME IInv, NEW t \in Threads, AddAI(t)
  PROVE  IInv'
<1> DEFINE e == fresh[t]
<1>1. /\ adding' = adding \union {e}
      /\ UNCHANGED <<trees, born, autospawn, entities, removing, zone, grouped, rooted, locals, crashed, history>>
  BY DEF AddAI
<1>2. /\ at[t] = "schedule" /\ at'[t] = "join" /\ StepsInv'
      /\ \A u \in Threads : u # t => at'[u] = at[u]
  BY Moves DEF AddAI, IInv, MainSteps
<1>3. e \in 1 .. born /\ e # Nobody
  BY <1>2, Bounds DEF IInv, FreshInv, Held, TypeOK
<1>4. \A u \in Threads : u # t /\ fresh[u] = e => FALSE
  BY <1>3, Others DEF IInv, FreshInv
<1> HIDE DEF e
<1>5. TypeOK'
  <2>1. adding' \subseteq 1 .. born
    BY <1>1, <1>3, Types DEF Data, IInv
  <2>2. Data'
    BY <1>1, <2>1, Types DEF Data, locals, history
  <2> QED
    BY <1>2, <2>2, Types
<1>6. FreshInv'
  BY <1>1, <1>2, Others DEF IInv, FreshInv, Held, locals
<1>7. BornInv'
  BY <1>1, <1>2, Others DEF IInv, BornInv, Before
<1>8. MapParts'
  <2>1. Coming' = Coming \ {e} /\ e \in Coming
    <3>1. \A u \in Threads : at'[u] \in {"insert", "schedule"} <=> at[u] \in {"insert", "schedule"} /\ u # t
      BY <1>2
    <3> QED
      BY <1>1, <1>2, <1>4, <3>1 DEF Coming, locals, e
  <2>2. MapInv => MapInv'
    <3> SUFFICES ASSUME MapInv PROVE MapInv'
      OBVIOUS
    <3>1. e \in entities \union removing \union orphans /\ e \notin zone
      BY <1>2, <2>1 DEF MapInv, e
    <3>2. /\ entities' \intersect (removing' \union orphans') = {}
          /\ adding' \intersect zone' = {} /\ removing' \intersect orphans' = {}
          /\ Coming' \intersect (adding' \union zone') = {}
      BY <1>1, <2>1, <3>1 DEF MapInv, history
    <3>3. \A x \in (1 .. born') \ Coming' :
            x \in adding' \union zone' <=> x \in entities' \union removing' \union orphans'
      BY <1>1, <2>1, <3>1 DEF MapInv, history
    <3>4. \A u \in Threads : /\ at'[u] = "insert" => fresh'[u] \notin entities' \union removing' \union orphans'
                             /\ at'[u] = "schedule" => fresh'[u] \in entities' \union removing' \union orphans'
      BY <1>1, <1>2 DEF MapInv, locals, history
    <3> QED
      BY <3>2, <3>3, <3>4 DEF MapInv
  <2>3. CountInv => CountInv'
    <3>1. entities' = entities /\ Owes("main")' = Owes("main") /\ Owes("run")' = Owes("run")
      BY <1>1, <1>2, Others DEF Owes
    <3> QED
      BY <3>1 DEF CountInv
  <2> QED
    BY <1>2, <2>2, <2>3, Others DEF IInv, MapParts
<1>9. AloneInv'
  BY <1>1, <1>2, Others DEF IInv, AloneInv, Respawning, MainSteps, RunSteps, locals, history
<1> QED
  BY <1>2, <1>5, <1>6, <1>7, <1>8, <1>9 DEF IInv

LEMMA JoinIInv ==
  ASSUME IInv, NEW t \in Threads, Join(t)
  PROVE  IInv'
<1>1. /\ grouped' = grouped \union {fresh[t]}
      /\ UNCHANGED <<trees, born, autospawn, entities, adding, removing, zone, rooted, locals, crashed, history>>
  BY DEF Join
<1>2. /\ at[t] = "join" /\ at'[t] = "loop" /\ StepsInv'
      /\ \A u \in Threads : u # t => at'[u] = at[u]
  BY Moves DEF Join, IInv, MainSteps
<1>3. TypeOK'
  <2>1. fresh[t] \in 1 .. born
    BY <1>2 DEF IInv, FreshInv, Held
  <2>2. grouped' \subseteq 1 .. born
    BY <1>1, <2>1, Types DEF Data, IInv
  <2>3. Data'
    BY <1>1, <2>2, Types DEF Data, locals, history
  <2> QED
    BY <1>2, <2>3, Types
<1>4. FreshInv'
  BY <1>1, <1>2, Others DEF IInv, FreshInv, Held, locals
<1>5. BornInv'
  BY <1>1, <1>2, Others DEF IInv, BornInv, Before
<1>6. MapParts'
  <2>1. Apart
    BY <1>1, <1>2, Others DEF Apart, Owes, locals, history
  <2> QED
    BY <2>1, ApartMap
<1>7. AloneInv'
  BY <1>1, <1>2, Others DEF IInv, AloneInv, Respawning, MainSteps, RunSteps, locals, history
<1> QED
  BY <1>2, <1>3, <1>4, <1>5, <1>6, <1>7 DEF IInv

LEMMA LoopIInv ==
  ASSUME IInv, NEW t \in Threads, Loop(t)
  PROVE  IInv'
<1>1. /\ fresh' = [fresh EXCEPT ![t] = Nobody]
      /\ UNCHANGED <<trees, born, autospawn, map, rooted, rnd, names, crashed, history>>
  BY DEF Loop
<1>2. /\ at[t] = "loop" /\ at'[t] = (IF t = "main" THEN "log" ELSE "idle") /\ StepsInv'
      /\ \A u \in Threads : u # t => at'[u] = at[u]
  BY Moves DEF Loop, IInv, MainSteps
<1>3. fresh' \in [Threads -> Entities \union {Nobody}] /\ fresh'[t] = Nobody /\ \A u \in Threads : u # t => fresh'[u] = fresh[u]
  BY <1>1 DEF IInv, TypeOK
<1>4. TypeOK'
  <2>1. Data'
    BY <1>1, <1>3, Types DEF Data, map, history
  <2> QED
    BY <1>2, <2>1, Types
<1>5. FreshInv'
  BY <1>1, <1>2, <1>3, Others DEF IInv, FreshInv, Held
<1>6. BornInv'
  BY <1>1, <1>2, Others DEF IInv, BornInv, Before
<1>7. MapParts'
  <2>1. Apart
    BY <1>1, <1>2, <1>3, Others DEF Apart, Owes, map, history
  <2> QED
    BY <2>1, ApartMap
<1>8. AloneInv'
  BY <1>1, <1>2, <1>3, Others DEF IInv, AloneInv, Respawning, MainSteps, RunSteps, map, history
<1> QED
  BY <1>2, <1>4, <1>5, <1>6, <1>7, <1>8 DEF IInv

LEMMA LogIInv ==
  ASSUME IInv, Log
  PROVE  IInv'
<1>1. /\ IF rnd["main"] = Nobody THEN crashed' = "nobody" ELSE crashed' = crashed
      /\ UNCHANGED <<trees, born, autospawn, map, rooted, locals, history>>
  BY DEF Log, Crash, Fine
<1>2. /\ at["main"] = "log" /\ at'["main"] = "idle" /\ StepsInv'
      /\ at'["run"] = at["run"]
  <2>1. Step("main", "log") /\ "log" \in MainSteps /\ "main" \in Threads /\ "run" \in Threads /\ StepsInv
    BY Others DEF Log, IInv, MainSteps
  <2>2. at["main"] = "log" /\ at'["main"] = "idle" /\ StepsInv' /\ \A u \in Threads : u # "main" => at'[u] = at[u]
    BY <2>1, Moves
  <2> QED
    BY <2>1, <2>2
<1>3. TypeOK'
  <2>1. crashed' \in {"no", "trees", "roots", "entities", "nobody"}
    BY <1>1 DEF IInv, TypeOK
  <2>2. Data'
    BY <1>1, <2>1, Types DEF Data, map, locals, history
  <2> QED
    BY <1>2, <2>2, Types
<1>4. FreshInv'
  BY <1>1, <1>2, Others DEF IInv, FreshInv, Held, locals
<1>5. BornInv'
  BY <1>1, <1>2 DEF IInv, BornInv, Before
<1>6. MapParts'
  <2>1. Apart
    BY <1>1, <1>2, Others DEF Apart, Owes, map, locals, history
  <2> QED
    BY <2>1, ApartMap
<1>7. AloneInv'
  BY <1>1, <1>2, Others DEF IInv, AloneInv, Respawning, MainSteps, RunSteps, map, locals, history
<1> QED
  BY <1>2, <1>3, <1>4, <1>5, <1>6, <1>7 DEF IInv

\* Nobody is lost when the zone applies its lists.
LEMMA UpdateIInv ==
  ASSUME IInv, Update
  PROVE  IInv'
<1>1. /\ at["run"] = "idle" /\ at["main"] # "gone" /\ MapInv /\ CountInv
      /\ zone' = (zone \union adding) \ removing
      /\ grouped' = grouped \ (removing \intersect (zone \union adding))
      /\ orphans' = orphans \union (removing \ (zone \union adding))
      /\ adding' = {} /\ removing' = {}
      /\ IF zone' \subseteq rooted THEN crashed' = crashed ELSE crashed' = "roots"
      /\ UNCHANGED <<trees, born, autospawn, entities, rooted, at, locals, met>>
  BY DEF Update, Crash, Fine, IInv, MapParts
<1>2. StepsInv' /\ FreshInv' /\ BornInv'
  BY <1>1 DEF IInv, StepsInv, FreshInv, BornInv, Before, locals
<1>3. TypeOK'
  <2>1. crashed' \in {"no", "trees", "roots", "entities", "nobody"}
    BY <1>1 DEF IInv, TypeOK
  <2>2. /\ zone' \subseteq 1 .. born /\ grouped' \subseteq 1 .. born /\ orphans' \subseteq 1 .. born
        /\ adding' \subseteq 1 .. born /\ removing' \subseteq 1 .. born
    BY <1>1, Types DEF Data, IInv
  <2>3. Data'
    BY <1>1, <2>1, <2>2, Types DEF Data, locals
  <2> QED
    BY <1>2, <2>3, Types
<1>4. Coming' = Coming
  BY <1>1 DEF Coming, locals
<1>5. MapParts'
  <2>1. /\ entities' \intersect (removing' \union orphans') = {}
        /\ adding' \intersect zone' = {} /\ removing' \intersect orphans' = {}
        /\ Coming' \intersect (adding' \union zone') = {}
    BY <1>1, <1>4 DEF MapInv
  <2>2. ASSUME NEW e \in (1 .. born) \ Coming
        PROVE  e \in adding' \union zone' <=> e \in entities' \union removing' \union orphans'
    <3>1. /\ e \in adding \union zone <=> e \in entities \union removing \union orphans
          /\ e \in entities => e \notin removing
          /\ e \in orphans => e \notin removing
      BY <1>1 DEF MapInv
    <3> QED
      BY <1>1, <3>1
  <2>3. \A t \in Threads : at'[t] = "insert" => fresh'[t] \notin entities' \union removing' \union orphans'
    BY <1>1 DEF MapInv, locals
  <2>4. \A t \in Threads : at'[t] = "schedule" => fresh'[t] \in entities' \union removing' \union orphans'
    <3>1. \A t \in Threads : at[t] = "schedule" => fresh[t] \in Coming
      BY DEF Coming
    <3> QED
      BY <1>1, <3>1 DEF MapInv, locals
  <2>5. MapInv'
    BY <1>1, <1>4, <2>1, <2>2, <2>3, <2>4 DEF MapInv
  <2>6. CountInv'
    BY <1>1 DEF CountInv, Owes
  <2> QED
    BY <1>1, <2>5, <2>6 DEF MapParts
<1>6. AloneInv'
  <2> SUFFICES ASSUME met = {} PROVE AloneInv'
    BY <1>1 DEF AloneInv
  <2>1. removing \subseteq zone \union adding
    <3> SUFFICES ASSUME NEW e \in removing PROVE e \in zone \union adding
      OBVIOUS
    <3>1. e \in 1 .. born /\ e \notin entities
      BY <1>1, Types DEF IInv, Data, MapInv
    <3>2. e \notin Coming
      BY <1>1, <3>1 DEF IInv, AloneInv, Coming, MapInv
    <3> QED
      BY <1>1, <3>1, <3>2 DEF MapInv
  <2>2. zone' \subseteq rooted /\ orphans' = {}
    BY <1>1, <2>1, Types DEF IInv, Data, AloneInv
  <2>3. Respawning("main")' = Respawning("main") /\ Respawning("run")' = Respawning("run")
    BY <1>1 DEF Respawning
  <2> QED
    BY <1>1, <2>2, <2>3 DEF IInv, AloneInv, locals
<1> QED
  BY <1>2, <1>3, <1>5, <1>6 DEF IInv

\* What the operator does else.
LEMMA CommandIInv ==
  ASSUME IInv, Toggle \/ Shutdown \/ AddTree \/ InitFails \/ Reload \/ Quit
  PROVE  IInv'
<1>1. UNCHANGED <<born, map, rooted, locals, orphans>>
  BY DEF Toggle, Shutdown, AddTree, InitFails, Reload, Quit, history
<1>2. /\ at["main"] \in {"idle", "init"} /\ at'["main"] \in {"idle", "init", "joining"}
      /\ at'["run"] = at["run"] /\ StepsInv'
  <2>1. CASE Toggle \/ AddTree
    BY <2>1 DEF Toggle, AddTree, IInv, StepsInv
  <2>2. CASE Shutdown \/ InitFails \/ Reload \/ Quit
    <3>1. PICK x \in {"idle", "init", "joining"} : at["main"] \in {"idle", "init"} /\ at' = [at EXCEPT !["main"] = x]
      BY <2>2 DEF Shutdown, InitFails, Reload, Quit, Main
    <3>2. StepsInv /\ "main" \in Threads /\ "run" \in Threads
      BY Others DEF IInv
    <3> QED
      BY <3>1, <3>2, Turns
  <2> QED
    BY <2>1, <2>2
<1>3. TypeOK'
  <2>1. crashed' \in {"no", "trees", "roots", "entities", "nobody"}
    BY DEF Toggle, Shutdown, AddTree, InitFails, Reload, Quit, Fine, Crash, IInv, TypeOK
  <2>2. trees' \subseteq Trees /\ autospawn' \in BOOLEAN /\ met' \subseteq {"overlap", "reload"}
    BY DEF Toggle, Shutdown, AddTree, InitFails, Reload, Quit, IInv, TypeOK, history
  <2>3. Data'
    BY <1>1, <2>1, <2>2, Types DEF Data, map, locals
  <2> QED
    BY <1>2, <2>3, Types
<1>4. FreshInv'
  BY <1>1, <1>2, Others DEF IInv, FreshInv, Held, locals
<1>5. BornInv'
  BY <1>1, <1>2 DEF IInv, BornInv, Before
<1>6. MapParts'
  <2>1. Apart
    BY <1>1, <1>2, Others DEF Apart, Owes, map, locals
  <2> QED
    BY <2>1, ApartMap
<1>7. AloneInv'
  <2>1. CASE Shutdown
    BY <2>1 DEF Shutdown, AloneInv
  <2>2. CASE AddTree \/ InitFails \/ Reload
    BY <2>2 DEF AddTree, InitFails, Reload, Main, IInv, AloneInv, history
  <2>3. CASE Toggle \/ Quit
    <3>1. UNCHANGED <<trees, crashed, history>> /\ at'["main"] \in {"idle", "joining"}
      BY <2>3 DEF Toggle, Quit, Main, IInv, StepsInv, Threads
    <3> QED
      BY <1>1, <1>2, <3>1, Others DEF IInv, AloneInv, Respawning, MainSteps, map, locals, history
  <2> QED
    BY <2>1, <2>2, <2>3
<1> QED
  BY <1>2, <1>3, <1>4, <1>5, <1>6, <1>7 DEF IInv

LEMMA DeleteIInv ==
  ASSUME IInv, Delete
  PROVE  IInv'
<1>1. /\ at["main"] = "joining" /\ at["run"] = "idle"
      /\ at' = [t \in Threads |-> "gone"]
      /\ entities' = {} /\ adding' = {} /\ removing' = {} /\ zone' = {} /\ grouped' = {}
      /\ UNCHANGED <<trees, born, autospawn, rooted, locals, crashed, history>>
  BY DEF Delete, Joined
<1>2. StepsInv' /\ at'["main"] = "gone" /\ at'["run"] = "gone"
  BY <1>1 DEF StepsInv, Threads
<1>3. TypeOK'
  <2>1. Data'
    BY <1>1, Types DEF IInv, Data, locals, history
  <2> QED
    BY <1>2, <2>1, Types
<1>4. FreshInv'
  BY <1>1, <1>2, Others DEF IInv, FreshInv, Held, locals
<1>5. BornInv'
  BY <1>1, <1>2 DEF IInv, BornInv, Before
<1>6. MapParts'
  BY <1>2 DEF MapParts
<1>7. AloneInv'
  BY <1>1, <1>2, Others DEF IInv, AloneInv, Respawning, MainSteps, RunSteps, locals, history
<1> QED
  BY <1>2, <1>3, <1>4, <1>5, <1>6, <1>7 DEF IInv

LEMMA NextIInv == IInv /\ [Next]_vars => IInv'
<1> SUFFICES ASSUME IInv, [Next]_vars PROVE IInv'
  OBVIOUS
<1>1. CASE Update \/ Log \/ Delete
  BY <1>1, UpdateIInv, LogIInv, DeleteIInv
<1>2. CASE Toggle \/ Shutdown \/ AddTree \/ InitFails \/ Reload \/ Quit
  BY <1>2, CommandIInv
<1>3. CASE \E t \in Threads : Respawn(t) \/ GetTrees(t) \/ GetRandomEntity(t) \/ RemoveEntity(t) \/ Load(t)
  BY <1>3, RespawnIInv, GetTreesIInv, GetRandomEntityIInv, RemoveEntityIInv, LoadIInv
<1>4. CASE \E t \in Threads : Insert(t) \/ AddAI(t) \/ Join(t) \/ Loop(t)
  BY <1>4, InsertIInv, AddAIIInv, JoinIInv, LoopIInv
<1>5. CASE UNCHANGED vars
  <2>1. UNCHANGED <<trees, born, autospawn, entities, adding, removing, zone, grouped, rooted, at, rnd, names, fresh,
                    crashed, orphans, met>>
    BY <1>5 DEF vars, map, locals, history
  <2>2. TypeOK' /\ StepsInv' /\ FreshInv' /\ BornInv'
    BY <2>1 DEF IInv, TypeOK, StepsInv, FreshInv, BornInv, Before
  <2>3. MapParts'
    BY <2>1 DEF IInv, MapParts, MapInv, Coming, CountInv, Owes
  <2>4. AloneInv'
    BY <2>1 DEF IInv, AloneInv, Respawning
  <2> QED
    BY <2>2, <2>3, <2>4 DEF IInv
<1> QED
  BY <1>1, <1>2, <1>3, <1>4, <1>5 DEF Next

LEMMA Invariant == Spec => []IInv
  BY InitIInv, NextIInv, PTL DEF Spec

----------------------------------------------------------------------------
(* The theorems                                                            *)

\* The game and its zone have the same entities, but for those that are on their way
\* and those whose removal came too early, and there are never fewer between two
\* respawns than in the beginning (GameMap.h:55, 57, 75; Main.cpp:91-104, 186-201).
THEOREM MapsAgree == Spec => []Consistent
<1>1. IInv => TypeOK
  BY DEF IInv
<1>2. IInv => MapAgrees
  <2> SUFFICES ASSUME IInv, at["main"] # "gone", NEW e \in (1 .. born) \ Scheduled
               PROVE  e \in zone <=> e \in entities \union orphans
    BY DEF MapAgrees
  <2>1. e \notin Coming /\ e \notin adding /\ e \notin removing
    BY DEF Scheduled, Coming
  <2> QED
    BY <2>1 DEF IInv, MapParts, MapInv
<1>3. IInv => NoneVanish
  <2> SUFFICES ASSUME IInv, at = [t \in Threads |-> "idle"] PROVE Cardinality(entities) >= Amount
    BY DEF NoneVanish
  <2>1. at["main"] = "idle" /\ at["run"] = "idle"
    BY DEF Threads
  <2>2. CountInv /\ Owes("main") = 0 /\ Owes("run") = 0
    BY <2>1 DEF IInv, MapParts, Owes
  <2>3. Cardinality(entities) \in Nat
    BY Finite
  <2> QED
    BY <2>2, <2>3, Bounds DEF CountInv
<1> QED
  BY <1>1, <1>2, <1>3, Invariant, PTL DEF Consistent

\* Respawns that come one after the other, while nobody loads the trees again,
\* neither crash the process nor leave an entity in the zone that the game has
\* forgotten (Main.cpp:91-104, 186-201).
THEOREM OneAtATimeIsSafe == Spec => []AloneIsSafe
<1>1. IInv => AloneIsSafe
  BY DEF IInv, AloneInv, AloneIsSafe
<1> QED
  BY <1>1, Invariant, PTL
=============================================================================
