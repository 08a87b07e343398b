----------------------------- MODULE Selection -----------------------------
(***************************************************************************)
(* What an AI has selected: the conditions on its nodes evaluate filters   *)
(* that fill one list of character ids, AI::_filteredEntities, which the   *)
(* tasks read and which outlives the tick.  The remote debugger evaluates  *)
(* the same conditions to print them.                                      *)
(*                                                                         *)
(* A filter is a record of its type, its sub filters and, for Random, a    *)
(* number; a condition has sub conditions, and Filter has filters.  There  *)
(* is one group, and the conditions are those of the character Self.       *)
(***************************************************************************)
EXTENDS Aggro

CONSTANTS Self,
          Filters,     \* the filters of the tree, with all their sub filters
          Conditions   \* the conditions of the tree, with all their parts

Nobody == 0                                                   \* what a vector is padded with
Garbage == 1 + CHOOSE i \in Ids : \A j \in Ids : j <= i      \* memory behind the end of a vector
Values == 0 .. Garbage

SetOperations == {"Union", "Intersection", "Difference", "Complement"}
OneBelow == {"First", "Last", "Random"}
NoneBelow == {"SelectAll", "SelectEmpty", "SelectZone", "SelectGroupMembers", "SelectGroupLeader",
              "SelectHighestAggro"}
Questions == {"HasEnemies", "IsInGroup", "IsGroupLeader", "IsCloseToGroup", "True", "False"}

\* What the parser makes: parts that are no parts of themselves, as many as the
\* constructors and factories assert (IFilter.h:66, Random.h:22, And.h:40).
ASSUME SelectionAssumption ==
  /\ Self \in Ids /\ \E i \in Ids : \A j \in Ids : j <= i
  /\ \A f \in Filters :
       /\ f.subs \in Seq(Filters) /\ f.n \in Nat
       /\ \/ f.type \in SetOperations /\ Len(f.subs) > 1
          \/ f.type \in OneBelow /\ Len(f.subs) = 1
          \/ f.type \in NoneBelow
  /\ \A S \in SUBSET Filters : S # {} => \E f \in S : ToSet(f.subs) \intersect S = {}
  /\ \A c \in Conditions :
       /\ c.subs \in Seq(Conditions) /\ c.filters \in Seq(Filters)
       /\ \/ c.type \in {"And", "Or"} /\ Len(c.subs) > 1
          \/ c.type = "Not" /\ Len(c.subs) = 1
          \/ c.type \in Questions \union {"Filter"}
  /\ \A S \in SUBSET Conditions : S # {} => \E c \in S : ToSet(c.subs) \intersect S = {}

VARIABLES here,       \* the characters in the zone of the AI
          members,    \* those in the group
          leader,     \* the leader of the group, Nobody if there is none
          selection,  \* _filteredEntities
          aimed       \* history: the condition that was evaluated last, if it held and leaves a
                      \* selection behind; none when the world or the selection has changed

worldVars == <<here, members, leader>>
vars == <<aggroVars, worldVars, selection, aimed>>

Init ==
  /\ AggroInit
  /\ here = {Self} /\ members = {} /\ leader = Nobody
  /\ selection = <<>> /\ aimed = {}

----------------------------------------------------------------------------
(* Set operations on lists.  std::set_union and its relatives merge sorted *)
(* lists and respect how often a value occurs.                             *)

Times(s, x) == Cardinality({i \in DOMAIN s : s[i] = x})

Largest(m, n) == IF m > n THEN m ELSE n       \* set_union
Least(m, n) == IF m < n THEN m ELSE n         \* set_intersection

\* Fault: a difference goes both ways.
RestApart(m, n) == IF m > n THEN m - n ELSE n - m

Rest(m, n) == IF m > n THEN m - n ELSE 0      \* set_difference
RestOfAll(m, n) == Rest(m, n)                 \* Complement does the same

Meet(type, m, n) ==
  CASE type = "Union" -> Largest(m, n)
    [] type = "Intersection" -> Least(m, n)
    [] type = "Difference" -> Rest(m, n)
    [] type = "Complement" -> RestOfAll(m, n)

\* How often x is in the result, which begins with as many zeros as the longest
\* list has elements.
Occurs(type, lists, x) ==
  LET max == CHOOSE n \in {Len(lists[i]) : i \in DOMAIN lists} : \A i \in DOMAIN lists : Len(lists[i]) <= n
      count[k \in 2 .. Len(lists)] ==
        IF k = 2
        THEN Meet(type, Times(lists[1], x), Times(lists[2], x)) + IF x = Nobody THEN max ELSE 0
        ELSE Meet(type, count[k - 1], Times(lists[k], x))
  IN  count[Len(lists)]

Combine(type, lists) ==
  FlattenSeq([x \in 1 .. Garbage + 1 |-> [i \in 1 .. Occurs(type, lists, x - 1) |-> x - 1]])

----------------------------------------------------------------------------
(* Filters                                                                 *)

\* Fault: what was selected before a filter with sub filters is lost.
RefillNot(kept, found) == found

Refill(kept, found) == kept \o found

Resize(s, n) == [i \in 1 .. n |-> IF i <= Len(s) THEN s[i] ELSE Nobody]

\* First and Last hold a reference into the list they then refill with what was
\* selected before: they add what is at that place now.
ValueAt(place, kept, found) ==
  CASE place \in DOMAIN kept -> kept[place]
    [] place \in DOMAIN found \ DOMAIN kept -> found[place]
    [] OTHER -> Garbage

\* A choice of one result for each sub filter.
SubResults(from, f) ==
  LET results[k \in 0 .. Len(f.subs)] ==
        IF k = 0 THEN {<<>>} ELSE {Append(r, s) : r \in results[k - 1], s \in from[f.subs[k]]}
  IN  results[Len(f.subs)]

SelectZone(kept) == {kept \o s : s \in SetToSeqs(here)}
SelectGroupMembers(kept) == {kept \o s : s \in SetToSeqs(members)}
SelectGroupLeader(kept) == {IF leader = Nobody THEN kept ELSE Append(kept, leader)}
SelectHighestAggro(kept) == {IF s = <<>> THEN kept ELSE Append(kept, s[Len(s)].id) : s \in Sort(entries, dirty)}
PickFirst(kept, r) == Refill(kept, <<ValueAt(1, kept, r)>>)
PickLast(kept, r) == Refill(kept, <<ValueAt(Len(r), kept, r)>>)
\* What the sub filter has found stays in the list, in front of the rest.
PickRandom(kept, r, n) == {r \o Refill(kept, Resize(s, n)) : s \in Shuffles(r)}

\* What may be selected after the filter f when kept was selected before; from
\* has the results of the sub filters, each of which begins with nothing.
Filtered(from, f, kept) ==
  CASE f.type = "SelectAll" -> {kept}
    [] f.type = "SelectEmpty" -> {<<>>}
    [] f.type = "SelectZone" -> SelectZone(kept)
    [] f.type = "SelectGroupMembers" -> SelectGroupMembers(kept)
    [] f.type = "SelectGroupLeader" -> SelectGroupLeader(kept)
    [] f.type = "SelectHighestAggro" -> SelectHighestAggro(kept)
    [] f.type \in SetOperations -> {Refill(kept, Combine(f.type, r)) : r \in SubResults(from, f)}
    [] f.type = "First" -> {PickFirst(kept, r[1]) : r \in SubResults(from, f)}
    [] f.type = "Last" -> {PickLast(kept, r[1]) : r \in SubResults(from, f)}
    [] f.type = "Random" -> UNION {PickRandom(kept, r[1], f.n) : r \in SubResults(from, f)}

FromEmpty[f \in Filters] == Filtered(FromEmpty, f, <<>>)

AfterFilter(f, kept) == Filtered(FromEmpty, f, kept)

----------------------------------------------------------------------------
(* Conditions.  An outcome tells whether the condition holds, what it has  *)
(* selected (an empty sequence if it does not touch the selection), and    *)
(* whether it has looked at the highest aggro.                             *)

Answer(holds) == [holds |-> holds, picked |-> <<>>, looked |-> FALSE]

Then(o, p) ==
  [p EXCEPT !.picked = IF @ = <<>> THEN o.picked ELSE @, !.looked = @ \/ o.looked]

\* One condition after the other, until one answers stop.
Chain(from, subs, stop) ==
  LET after[k \in 0 .. Len(subs)] ==
        IF k = 0 THEN {Answer(~stop)}
        ELSE LET O == after[k - 1]
             IN  {o \in O : o.holds = stop}
                 \union {Then(o, p) : o \in {o \in O : o.holds # stop}, p \in from[subs[k]]}
  IN  after[Len(subs)]

Looks[f \in Filters] == f.type = "SelectHighestAggro" \/ \E i \in DOMAIN f.subs : Looks[f.subs[i]]

Select(filters) ==
  LET after[k \in 0 .. Len(filters)] ==
        IF k = 0 THEN {<<>>} ELSE UNION {AfterFilter(filters[k], s) : s \in after[k - 1]}
  IN  {[holds |-> s # <<>>, picked |-> <<s>>, looked |-> \E i \in DOMAIN filters : Looks[filters[i]]] :
         s \in after[Len(filters)]}

And(from, subs) == Chain(from, subs, FALSE)
Or(from, subs) == Chain(from, subs, TRUE)
Not(from, sub) == {[o EXCEPT !.holds = ~@] : o \in from[sub]}

\* Without a number the highest entry is asked for, -1 stands for none.
HasEnemies(n) ==
  {IF n = -1 THEN [Answer(entries # <<>>) EXCEPT !.looked = TRUE] ELSE Answer(Len(entries) >= n)}
IsInGroup == {Answer(Self \in members)}
IsGroupLeader == {Answer(Self = leader)}
IsCloseToGroup == {Answer(close) : close \in IF members = {} THEN {FALSE} ELSE BOOLEAN}

\* What may come of the condition c; from has the outcomes of its parts.
Outcomes(from, c) ==
  CASE c.type = "Filter" -> Select(c.filters)
    [] c.type = "And" -> And(from, c.subs)
    [] c.type = "Or" -> Or(from, c.subs)
    [] c.type = "Not" -> Not(from, c.subs[1])
    [] c.type = "HasEnemies" -> HasEnemies(c.n)
    [] c.type = "IsInGroup" -> IsInGroup
    [] c.type = "IsGroupLeader" -> IsGroupLeader
    [] c.type = "IsCloseToGroup" -> IsCloseToGroup
    [] c.type \in {"True", "False"} -> {Answer(c.type = "True")}

Evaluated[c \in Conditions] == Outcomes(Evaluated, c)

OneByOne(from, subs) ==
  LET parts[k \in 0 .. Len(subs)] ==
        IF k = 0 THEN {Answer(TRUE)} ELSE {Then(o, p) : o \in parts[k - 1], p \in from[subs[k]]}
  IN  parts[Len(subs)]

\* getNameWithConditions prints the parts of the condition and evaluates it then.
Printed[c \in Conditions] == {Then(o, p) : o \in OneByOne(Printed, c.subs), p \in Evaluated[c]}

\* Does the condition c leave a selection behind when it holds?  The last part
\* that selects must be one that has to hold for that.
Selects[c \in Conditions] ==
  \/ c.type = "Filter"
  \/ c.type = "And" /\ \E i \in DOMAIN c.subs : Selects[c.subs[i]] /\ \A j \in i + 1 .. Len(c.subs) :
       Selects[c.subs[j]] \/ \A o \in Evaluated[c.subs[j]] : o.picked = <<>>
  \/ c.type = "Or" /\ \A i \in DOMAIN c.subs : Selects[c.subs[i]]

----------------------------------------------------------------------------
(* Steps.  The AI and the debugger take turns, as they do on the one thread *)
(* of the game's scheduler.                                                 *)

\* Fault: Filter does not clear the selection.
SelectedAfterKept(o) == IF o.picked = <<>> THEN selection ELSE selection \o o.picked[1]

SelectedAfter(o) == IF o.picked = <<>> THEN selection ELSE o.picked[1]

Apply(o) ==
  /\ selection' = SelectedAfter(o)
  /\ IF o.looked THEN Settle ELSE UNCHANGED aggroVars
  /\ UNCHANGED worldVars

\* A node is about to be executed.
Evaluate(c) == \E o \in Evaluated[c] : Apply(o) /\ aimed' = IF o.holds /\ Selects[c] THEN {c} ELSE {}

\* The debugger shows the node.
Watch(c) == \E o \in Printed[c] : Apply(o) /\ aimed' = {}

\* AI::update after setBehaviour
Reset == selection' = <<>> /\ aimed' = {} /\ UNCHANGED <<aggroVars, worldVars>>

ChangeAggro == AggroNext /\ aimed' = {} /\ UNCHANGED <<worldVars, selection>>

World == aimed' = {} /\ UNCHANGED <<aggroVars, selection>>

Enter(id) == id \notin here /\ here' = here \union {id} /\ UNCHANGED <<members, leader>> /\ World

JoinGroup(id) ==
  /\ id \in here \ members
  /\ members' = members \union {id}
  /\ leader' = IF leader = Nobody THEN id ELSE leader
  /\ UNCHANGED here /\ World

LeaveGroup(id) ==
  /\ members' = members \ {id}
  /\ IF leader # id THEN UNCHANGED leader
     ELSE leader' \in IF members = {id} THEN {Nobody} ELSE members \ {id}

\* An AI that leaves the zone leaves its group.
Leave(id) == id \in here \ {Self} /\ here' = here \ {id} /\ LeaveGroup(id) /\ World

Next ==
  \/ \E c \in Conditions : Evaluate(c) \/ Watch(c)
  \/ Reset
  \/ ChangeAggro
  \/ \E id \in Ids : \/ Enter(id) \/ Leave(id) \/ JoinGroup(id)
                     \/ id \in members /\ LeaveGroup(id) /\ UNCHANGED here /\ World

Spec == Init /\ [][Next]_vars

----------------------------------------------------------------------------
(* Properties                                                              *)

TypeOK ==
  /\ AggroTypeOK
  /\ here \subseteq Ids /\ members \subseteq here /\ leader \in members \union {Nobody}
  /\ selection \in Seq(Values)
  /\ aimed \subseteq Conditions

\* The list of enemies is right whenever somebody looks at it.
EnemiesAreRight == AggroTypeOK /\ HighestIsHighest /\ SpentAreGone

\* The filters with several sub filters are the set operations they are named
\* for, the zeros in their results apart (Difference.h:14: "elements that are in
\* A and not in B, C, D"), as long as no sub filter selects anybody twice.
Meant(type, sets) ==
  CASE type = "Union" -> UNION {sets[i] : i \in DOMAIN sets}
    [] type = "Intersection" -> {x \in sets[1] : \A i \in DOMAIN sets : x \in sets[i]}
    [] OTHER -> sets[1] \ UNION {sets[i] : i \in 2 .. Len(sets)}

CombinesSets ==
  \A f \in {f \in Filters : f.type \in SetOperations} : \A r \in SubResults(FromEmpty, f) :
    (\A i \in DOMAIN r, x \in Values \ {Nobody} : Times(r[i], x) <= 1) =>
      ToSet(Combine(f.type, r)) \ {Nobody} = Meant(f.type, [i \in DOMAIN r |-> ToSet(r[i])]) \ {Nobody}

\* A filter adds to what was selected before and takes nothing away, but for
\* SelectEmpty (IFilter.h:136), so that a list of filters selects what each of
\* them does.
KeepsEarlier ==
  \A f \in {f \in Filters : f.type # "SelectEmpty"} : \A s \in AfterFilter(f, selection) :
    \A x \in Values : Times(s, x) >= Times(selection, x)

\* The types of the filters of a filter, of a condition, however deep they are.
Types[f \in Filters] == {f.type} \union UNION {Types[f.subs[i]] : i \in DOMAIN f.subs}

Uses[c \in Conditions] ==
  (UNION {Types[c.filters[i]] : i \in DOMAIN c.filters}) \union UNION {Uses[c.subs[i]] : i \in DOMAIN c.subs}

\* Whom a filter of that type can bring into the selection; the zeros of a vector
\* that was too long (Union.h:46, Random.h:38) and what First and Last read behind the
\* end (First.h:32) are nobody.
Source(type) ==
  CASE type = "SelectZone" -> here
    [] type = "SelectGroupMembers" -> members
    [] type = "SelectGroupLeader" -> {leader} \ {Nobody}
    [] type = "SelectHighestAggro" -> {entries[i].id : i \in DOMAIN entries}
    [] type \in SetOperations \union {"Random"} -> {Nobody}
    [] type \in {"First", "Last"} -> {Garbage}
    [] OTHER -> {}

Targets(c) == UNION {Source(type) : type \in Uses[c]}

\* When a condition that selects has let a node be executed, something is selected
\* (Filter.h:17), and all of it comes from where the filters of that condition look
\* now: nobody who was selected before, by this node, by another one or for a
\* debugger, and nobody who has left the zone or the group, unless he is still hated
\* and the condition asks for the enemies.  So a task behind a condition without set
\* operations, Random, First and Last finds a target that is there; behind the others
\* it may find nothing but the zeros and the garbage of these filters.
TargetIsThere == TypeOK /\ \A c \in aimed : selection # <<>> /\ ToSet(selection) \subseteq Targets(c)
============================================================================
