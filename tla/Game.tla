-------------------------------- MODULE Game --------------------------------
(***************************************************************************)
(* simpleai-run (src/run/Main.cpp, src/run/GameMap.h): two threads respawn *)
(* the entities of a map, the one of the scheduler, which also updates the *)
(* zone, and the main one, for the operator, who may also load the trees   *)
(* again (src/ai/tree/loaders) and quit.  How the scheduler times its      *)
(* tasks is Scheduler's subject, how a zone applies its lists Zone's.      *)
(***************************************************************************)
EXTENDS Naturals, Sequences, FiniteSets, SequencesExt

CONSTANTS Amount,      \* how many entities the map begins with
          MaxEntities, \* bound: how many are ever made
          Trees,       \* the trees in the file
          Nobody

ASSUME GameAssumption ==
  /\ {Amount, MaxEntities} \subseteq Nat \ {0} /\ Amount <= MaxEntities
  /\ Trees # {} /\ Nobody \notin Nat

Threads == {"main", "run"}
Entities == 1 .. MaxEntities

VARIABLES trees,      \* ITreeLoader::_treeMap
          born,       \* id
          autospawn,
          entities,   \* GameMap::_entities
          adding, removing,  \* Zone::_scheduledAdd, _scheduledRemove
          zone,       \* Zone::_ais
          grouped,    \* who is in a group
          rooted,     \* the AIs that have a tree
          at,         \* at[t]: the step of its respawn thread t is at, or what it does else
          rnd, names, fresh,  \* its local variables
          crashed,    \* why the process has crashed, or "no"
          orphans,    \* history: those whose removal came to nothing, as they were not there yet
          met         \* history: did two respawns overlap?  Were the trees loaded again?

map == <<entities, adding, removing, zone, grouped>>
locals == <<rnd, names, fresh>>
history == <<orphans, met>>
vars == <<trees, born, autospawn, map, rooted, at, locals, crashed, history>>

Init ==
  /\ trees = Trees /\ rooted = 1 .. Amount /\ born = Amount
  /\ autospawn = TRUE
  /\ entities = 1 .. Amount /\ adding = 1 .. Amount /\ grouped = 1 .. Amount
  /\ removing = {} /\ zone = {}
  /\ at = [t \in Threads |-> "idle"]
  /\ rnd = [t \in Threads |-> Nobody]
  /\ names = [t \in Threads |-> {}]
  /\ fresh = [t \in Threads |-> Nobody]
  /\ crashed = "no"
  /\ orphans = {} /\ met = {}

----------------------------------------------------------------------------
(* A respawn.  The operator asks for the trees first, and writes whom he   *)
(* has replaced in the end.                                                *)

Steps == [main |-> <<"trees", "pick", "remove", "load", "insert", "schedule", "join", "loop", "log">>,
          run |-> <<"pick", "remove", "trees", "load", "insert", "schedule", "join", "loop">>]

StepAfter(t) ==
  LET i == CHOOSE j \in DOMAIN Steps[t] : Steps[t][j] = at[t]
  IN  IF i < Len(Steps[t]) THEN Steps[t][i + 1] ELSE "idle"

Step(t, s) == at[t] = s /\ at' = [at EXCEPT ![t] = StepAfter(t)]
Fine == UNCHANGED crashed
Crash(why) == crashed' = why

\* Somebody iterates over _entities without the lock.
Watched(t) == \E u \in Threads \ {t} : at[u] = "loop"
Disturb(t) == Fine \/ (Watched(t) /\ Crash("entities"))

Respawn(t) ==
  /\ at[t] = "idle"
  /\ born + Cardinality({u \in Threads : at[u] \in {"trees", "pick", "remove", "load"}}) < MaxEntities
  /\ t = "run" => autospawn
  /\ at' = [at EXCEPT ![t] = Head(Steps[t])]
  /\ met' = met \union {"overlap" : u \in {v \in Threads : at[v] \in ToSet(Steps[v])}}
  /\ UNCHANGED <<trees, born, autospawn, map, rooted, locals, crashed, orphans>>

GetTrees(t) ==
  /\ Step(t, "trees")
  /\ names' = [names EXCEPT ![t] = trees]
  /\ UNCHANGED <<trees, born, autospawn, map, rooted, rnd, fresh, crashed, history>>

GetRandomEntity(t) ==
  /\ Step(t, "pick")
  /\ \/ entities = {} /\ rnd' = [rnd EXCEPT ![t] = Nobody]
     \/ \E e \in entities : rnd' = [rnd EXCEPT ![t] = e]
  /\ UNCHANGED <<trees, born, autospawn, map, rooted, names, fresh, crashed, history>>

\* Fault: the zone is not told.
LeavingNot(e) == {}
Leaving(e) == {e} \intersect entities

\* Somebody else may have removed the entity; a new one is made all the same.
RemoveEntity(t) ==
  /\ Step(t, "remove")
  /\ removing' = removing \union Leaving(rnd[t])
  /\ entities' = entities \ {rnd[t]}
  /\ IF rnd[t] \in entities THEN Disturb(t) ELSE Fine
  /\ UNCHANGED <<trees, born, autospawn, adding, zone, grouped, rooted, locals, history>>

\* Fault: the test is the other way round.
LoadedNot(e, n) == IF n \in trees THEN {} ELSE {e}
Loaded(e, n) == IF n \in trees THEN {e} ELSE {}

\* A random one of no trees is no tree; one that is gone by now is null.
Load(t) ==
  /\ at[t] = "load"
  /\ IF names[t] = {}
     THEN Crash("trees") /\ UNCHANGED <<at, born, fresh, rooted>>
     ELSE /\ Step(t, "load")
          /\ born' = born + 1
          /\ fresh' = [fresh EXCEPT ![t] = born + 1]
          /\ \E n \in names[t] : rooted' = rooted \union Loaded(born + 1, n)
          /\ Fine
  /\ UNCHANGED <<trees, autospawn, map, rnd, names, history>>

\* addEntity
Insert(t) ==
  /\ Step(t, "insert")
  /\ entities' = entities \union {fresh[t]}
  /\ Disturb(t)
  /\ UNCHANGED <<trees, born, autospawn, adding, removing, zone, grouped, rooted, locals, history>>

AddAI(t) ==
  /\ Step(t, "schedule")
  /\ adding' = adding \union {fresh[t]}
  /\ UNCHANGED <<trees, born, autospawn, entities, removing, zone, grouped, rooted, locals, crashed, history>>

Join(t) ==
  /\ Step(t, "join")
  /\ grouped' = grouped \union {fresh[t]}
  /\ UNCHANGED <<trees, born, autospawn, entities, adding, removing, zone, rooted, locals, crashed, history>>

Loop(t) ==
  /\ Step(t, "loop")
  /\ fresh' = [fresh EXCEPT ![t] = Nobody]
  /\ UNCHANGED <<trees, born, autospawn, map, rooted, rnd, names, crashed, history>>

\* The operator is told whom he has replaced, also if there was nobody.
Log ==
  /\ Step("main", "log")
  /\ IF rnd["main"] = Nobody THEN Crash("nobody") ELSE Fine
  /\ UNCHANGED <<trees, born, autospawn, map, rooted, locals, history>>

----------------------------------------------------------------------------
(* The other tasks and commands                                            *)

\* Zone::update; the tick of an AI without a tree crashes.
Update ==
  /\ at["run"] = "idle"
  /\ zone' = (zone \union adding) \ removing
  /\ grouped' = grouped \ (removing \intersect (zone \union adding))
  /\ orphans' = orphans \union (removing \ (zone \union adding))
  /\ adding' = {} /\ removing' = {}
  /\ IF zone' \subseteq rooted THEN Fine ELSE Crash("roots")
  /\ UNCHANGED <<trees, born, autospawn, entities, rooted, at, locals, met>>

Toggle ==
  /\ at["main"] = "idle"
  /\ autospawn' = ~autospawn
  /\ UNCHANGED <<trees, born, map, rooted, at, locals, crashed, history>>

Main(from, to) == at["main"] = from /\ at' = [at EXCEPT !["main"] = to]

\* LUATreeLoader::init forgets the trees first ...
Shutdown ==
  /\ Main("idle", "init")
  /\ trees' = {}
  /\ met' = met \union {"reload"}
  /\ UNCHANGED <<born, autospawn, map, rooted, locals, crashed, orphans>>

\* ... then the script adds one after the other, ...
AddTree ==
  /\ at["main"] = "init"
  /\ \E n \in Trees \ trees : trees' = trees \union {n}
  /\ UNCHANGED <<born, autospawn, map, rooted, at, locals, crashed, history>>

\* ... and may fail at any time.
InitFails ==
  /\ Main("init", "idle")
  /\ UNCHANGED <<trees, born, autospawn, map, rooted, locals, crashed, history>>

\* Every AI of the zone is given the new tree with the name of its old one.
Reload ==
  /\ Main("init", "idle")
  /\ trees = Trees
  /\ IF zone \subseteq rooted THEN Fine ELSE Crash("roots")
  /\ UNCHANGED <<trees, born, autospawn, map, rooted, locals, history>>

\* The scheduler ends with the task it is at; then the maps are deleted.
Quit ==
  /\ Main("idle", "joining")
  /\ UNCHANGED <<trees, born, autospawn, map, rooted, locals, crashed, history>>

Joined == at["main"] = "joining" /\ at["run"] = "idle"

Delete ==
  /\ Joined
  /\ at' = [t \in Threads |-> "gone"]
  /\ entities' = {} /\ adding' = {} /\ removing' = {} /\ zone' = {} /\ grouped' = {}
  /\ UNCHANGED <<trees, born, autospawn, rooted, locals, crashed, history>>

----------------------------------------------------------------------------
Next ==
  /\ crashed = "no"
  /\ \/ Update \/ Log \/ Toggle \/ Shutdown \/ AddTree \/ InitFails \/ Reload \/ Quit \/ Delete
     \/ \E t \in Threads : \/ Respawn(t) \/ GetTrees(t) \/ GetRandomEntity(t) \/ RemoveEntity(t) \/ Load(t)
                           \/ Insert(t) \/ AddAI(t) \/ Join(t) \/ Loop(t)

Spec == Init /\ [][Next]_vars

----------------------------------------------------------------------------
(* Properties                                                              *)

TypeOK ==
  /\ trees \subseteq Trees /\ autospawn \in BOOLEAN /\ born \in Amount .. MaxEntities
  /\ \A s \in {entities, adding, removing, zone, grouped, rooted, orphans} : s \subseteq 1 .. born
  /\ at \in [Threads -> {"idle", "init", "joining", "gone"} \union UNION {ToSet(Steps[t]) : t \in Threads}]
  /\ rnd \in [Threads -> Entities \union {Nobody}] /\ fresh \in [Threads -> Entities \union {Nobody}]
  /\ names \in [Threads -> SUBSET Trees]
  /\ crashed \in {"no", "trees", "roots", "entities", "nobody"}
  /\ met \subseteq {"overlap", "reload"}

Scheduled == adding \union removing \union {fresh[t] : t \in {u \in Threads : at[u] \in {"insert", "schedule"}}}

\* The two maps agree: the zone has, of the AIs nothing is scheduled for, those the
\* game knows (GameMap.h:55, 57, 75), and those whose removal has met their addition.
MapAgrees == at["main"] # "gone" => \A e \in (1 .. born) \ Scheduled : e \in zone <=> e \in entities \union orphans

\* Every entity that goes is replaced: once the respawns are through there are
\* never fewer than in the beginning, whatever they met (Main.cpp:91-104, 186-201).
NoneVanish == crashed = "no" /\ at = [t \in Threads |-> "idle"] => Cardinality(entities) >= Amount

\* Between two respawns the population is whole: whom the game knows is in the zone,
\* who is in the zone the game knows, and nobody has been lost on the way.
Consistent == TypeOK /\ MapAgrees /\ NoneVanish

\* The process crashes, or keeps an entity in the zone for ever, only when the
\* operator's respawn meets the scheduled one, or after a reload.
AloneIsSafe == crashed # "no" \/ orphans # {} => met # {}
============================================================================
