-------------------------------- MODULE Zone --------------------------------
(***************************************************************************)
(* Zones and the AI instances that come and go (src/ai/zone/Zone.h).  Any  *)
(* thread schedules an addition, a removal or a destruction at any time,   *)
(* also from within the tick of an AI; one thread per zone runs            *)
(* Zone::update: it takes the three lists, applies them one element after  *)
(* the other under the zone's lock, ticks every AI of the zone in the      *)
(* thread pool, waits for all of them and updates the groups.              *)
(***************************************************************************)
EXTENDS Naturals, FiniteSets, Sequences, SequencesExt

CONSTANTS Zones,
          AIs,          \* AI instances
          CharIds,
          CharOf,       \* the character of an AI instance
          NoAI, NoZone,
          Destroyed,    \* where the callers want an AI they destroyed
          Patient,      \* do callers add an AI again only when it is gone?
          MaxScheduled, \* bound: the length of a scheduled list
          MaxLate       \* bound: how many AIs are late in the groups they have joined

ASSUME ZoneAssumption ==
  /\ CharOf \in [AIs -> CharIds]
  /\ NoAI \notin AIs
  /\ NoZone \notin Zones /\ Destroyed \notin Zones \union {NoZone}
  /\ Patient \in BOOLEAN
  /\ {MaxScheduled, MaxLate} \subseteq Nat

VARIABLES ais,        \* _ais: the AI found under an id
          scheduled,  \* _scheduledAdd, _scheduledRemove, _scheduledDestroy
          batch,      \* the lists update has taken and not yet applied
          stage,      \* where update is
          ticking,    \* the copy of _ais, without those whose task has finished
          zoneOf,     \* AI::_zone
          grouped,    \* who is in a group of the zone's GroupMgr
          home,       \* history: where the callers want an AI to be
          late        \* history: who joined a group when no removal that empties it was to come

vars == <<ais, scheduled, batch, stage, ticking, zoneOf, grouped, home, late>>

Lists == INSTANCE ZoneService WITH present <- ais, waiting <- scheduled

Init ==
  /\ ais = [z \in Zones |-> Lists!NoOne]
  /\ scheduled = [z \in Zones |-> Lists!Empty]
  /\ batch = [z \in Zones |-> Lists!Empty]
  /\ stage = [z \in Zones |-> "idle"]
  /\ ticking = [z \in Zones |-> {}]
  /\ zoneOf = [a \in AIs |-> NoZone]
  /\ grouped = [z \in Zones |-> {}]
  /\ home = [a \in AIs |-> NoZone]
  /\ late = [z \in Zones |-> {}]

Present(z) == {a \in AIs : ais[z][CharOf[a]] = a}
Goto(z, s) == stage' = [stage EXCEPT ![z] = s]

\* What is scheduled or being applied, for a zone.
Pending(z, list) == ToSet(scheduled[z][list]) \union ToSet(batch[z][list])

----------------------------------------------------------------------------
(* The callers                                                             *)

Settled(a) ==
  zoneOf[a] = NoZone /\ \A z \in Zones : a \notin Pending(z, "add") \union Pending(z, "remove")

Schedule(z, list, items) ==
  /\ Len(scheduled[z][list]) + Len(items) <= MaxScheduled
  /\ scheduled' = [scheduled EXCEPT ![z][list] = @ \o items]
  /\ UNCHANGED <<ais, batch, stage, ticking, zoneOf, grouped, late>>

Want(items, place) == home' = [a \in AIs |-> IF a \in ToSet(items) THEN place ELSE home[a]]

\* addAI is addAIs of one.
AddAIs(z, items) ==
  /\ \A a \in ToSet(items) : home[a] = NoZone /\ (Patient => Settled(a))
  /\ Schedule(z, "add", items)
  /\ Want(items, z)

RemoveAIs(z, items) ==
  /\ \A a \in ToSet(items) : home[a] = z
  /\ Schedule(z, "remove", items)
  /\ Want(items, NoZone)

DestroyAI(z, a) ==
  /\ home[a] = z
  /\ Schedule(z, "destroy", <<CharOf[a]>>)
  /\ Want(<<a>>, Destroyed)

----------------------------------------------------------------------------
(* update                                                                  *)

Swap(z) ==
  /\ stage[z] = "idle"
  /\ batch' = [batch EXCEPT ![z] = scheduled[z]]
  /\ scheduled' = [scheduled EXCEPT ![z] = Lists!Empty]
  /\ Goto(z, "apply")
  /\ UNCHANGED <<ais, ticking, zoneOf, grouped, late, home>>

Drop(z, list) == batch' = [batch EXCEPT ![z][list] = Tail(@)]

\* Fault: the AI is not told its zone.
DoAddNoZone(z) ==
  /\ stage[z] = "apply" /\ batch[z].add # <<>>
  /\ LET a == Head(batch[z].add)
     IN  IF ais[z][CharOf[a]] # NoAI THEN UNCHANGED ais ELSE ais' = [ais EXCEPT ![z][CharOf[a]] = a]
  /\ Drop(z, "add")
  /\ UNCHANGED <<scheduled, stage, ticking, zoneOf, grouped, late, home>>

DoAdd(z) ==
  /\ stage[z] = "apply" /\ batch[z].add # <<>>
  /\ LET a == Head(batch[z].add)
     IN  IF ais[z][CharOf[a]] # NoAI
         THEN UNCHANGED <<ais, zoneOf>>
         ELSE /\ ais' = [ais EXCEPT ![z][CharOf[a]] = a]
              /\ zoneOf' = [zoneOf EXCEPT ![a] = z]
  /\ Drop(z, "add")
  /\ UNCHANGED <<scheduled, stage, ticking, grouped, late, home>>

\* doRemoveAI looks the AI up by its id.  It resets the zone of what it found,
\* takes it out of its groups and erases it; other threads see the steps.
Leaving(z) == ais[z][CharOf[Head(batch[z].remove)]]

\* Fault: the removals are applied before the additions.
DetachFirst(z) ==
  /\ stage[z] = "apply" /\ batch[z].remove # <<>>
  /\ IF Leaving(z) = NoAI
     THEN Drop(z, "remove") /\ UNCHANGED <<stage, zoneOf>>
     ELSE /\ zoneOf' = [zoneOf EXCEPT ![Leaving(z)] = NoZone]
          /\ Goto(z, "leave")
          /\ UNCHANGED batch
  /\ UNCHANGED <<ais, scheduled, ticking, grouped, late, home>>

Detach(z) ==
  /\ stage[z] = "apply" /\ batch[z].add = <<>> /\ batch[z].remove # <<>>
  /\ IF Leaving(z) = NoAI
     THEN Drop(z, "remove") /\ UNCHANGED <<stage, zoneOf>>
     ELSE /\ zoneOf' = [zoneOf EXCEPT ![Leaving(z)] = NoZone]
          /\ Goto(z, "leave")
          /\ UNCHANGED batch
  /\ UNCHANGED <<ais, scheduled, ticking, grouped, late, home>>

\* The AI is wanted in the zone, or its removal has yet to take it out of the groups.
InTime(z, a) ==
  home[a] = z \/ (a \in Pending(z, "remove") /\ ~(stage[z] = "erase" /\ Leaving(z) = a))

\* GroupMgr::add asks neither whether the AI is in the zone nor whether it is about
\* to leave it.
Join(z, a) ==
  /\ grouped' = [grouped EXCEPT ![z] = @ \union {a}]
  /\ late' = IF InTime(z, a) THEN late ELSE [late EXCEPT ![z] = @ \union {a}]
  /\ Cardinality({p \in Zones \X AIs : p[2] \in late'[p[1]]}) <= MaxLate
  /\ UNCHANGED <<ais, scheduled, batch, stage, ticking, zoneOf, home>>

\* Fault: the groups are not left.
LeaveGroupsNot(z) ==
  /\ stage[z] = "leave"
  /\ Goto(z, "erase")
  /\ UNCHANGED <<ais, scheduled, batch, ticking, zoneOf, grouped, late, home>>

LeaveGroups(z) ==
  /\ stage[z] = "leave"
  /\ grouped' = [grouped EXCEPT ![z] = @ \ {Leaving(z)}]
  /\ late' = [late EXCEPT ![z] = @ \ {Leaving(z)}]
  /\ Goto(z, "erase")
  /\ UNCHANGED <<ais, scheduled, batch, ticking, zoneOf, home>>

\* Fault: the entry stays in the map.
EraseNot(z) ==
  /\ stage[z] = "erase"
  /\ Drop(z, "remove")
  /\ Goto(z, "apply")
  /\ UNCHANGED <<ais, scheduled, ticking, zoneOf, grouped, late, home>>

Erase(z) ==
  /\ stage[z] = "erase"
  /\ ais' = [ais EXCEPT ![z][CharOf[Leaving(z)]] = NoAI]
  /\ Drop(z, "remove")
  /\ Goto(z, "apply")
  /\ UNCHANGED <<scheduled, ticking, zoneOf, grouped, late, home>>

DoDestroy(z) ==
  /\ stage[z] = "apply" /\ batch[z].add = <<>> /\ batch[z].remove = <<>> /\ batch[z].destroy # <<>>
  /\ ais' = [ais EXCEPT ![z][Head(batch[z].destroy)] = NoAI]
  /\ Drop(z, "destroy")
  /\ UNCHANGED <<scheduled, stage, ticking, zoneOf, grouped, late, home>>

\* Fault: the shared lists are cleared once the taken ones are applied.
StartTickClears(z) ==
  /\ stage[z] = "apply" /\ batch[z] = Lists!Empty
  /\ scheduled' = [scheduled EXCEPT ![z] = Lists!Empty]
  /\ ticking' = [ticking EXCEPT ![z] = Present(z)]
  /\ Goto(z, "tick")
  /\ UNCHANGED <<ais, batch, zoneOf, grouped, late, home>>

\* executeParallel copies the map, hands every AI to the pool and waits.
StartTick(z) ==
  /\ stage[z] = "apply" /\ batch[z] = Lists!Empty
  /\ ticking' = [ticking EXCEPT ![z] = Present(z)]
  /\ Goto(z, "tick")
  /\ UNCHANGED <<ais, scheduled, batch, zoneOf, grouped, late, home>>

FinishTask(z, a) ==
  /\ a \in ticking[z]
  /\ ticking' = [ticking EXCEPT ![z] = @ \ {a}]
  /\ UNCHANGED <<ais, scheduled, batch, stage, zoneOf, grouped, late, home>>

UpdateGroups(z) ==
  /\ stage[z] = "tick" /\ ticking[z] = {}
  /\ Goto(z, "idle")
  /\ UNCHANGED <<ais, scheduled, batch, ticking, zoneOf, grouped, late, home>>

----------------------------------------------------------------------------
Update(z) ==
  \/ Swap(z) \/ DoAdd(z) \/ Detach(z) \/ LeaveGroups(z) \/ Erase(z) \/ DoDestroy(z)
  \/ StartTick(z) \/ UpdateGroups(z) \/ \E a \in AIs : FinishTask(z, a)

Next ==
  \E z \in Zones :
    \/ Update(z)
    \/ \E s \in Lists!Items : AddAIs(z, s) \/ RemoveAIs(z, s)
    \/ \E a \in AIs : DestroyAI(z, a) \/ Join(z, a)

Spec == Init /\ [][Next]_vars

\* Whoever owns a zone calls update again and again ("You have to call this on
\* your own", Zone.h:90), and the tasks of the pool return.
FairSpec == Spec /\ \A z \in Zones : WF_vars(Update(z))

----------------------------------------------------------------------------
(* Properties                                                              *)

WaitingLists == [add : Seq(AIs), remove : Seq(AIs), destroy : Seq(CharIds)]

TypeOK ==
  /\ ais \in [Zones -> [CharIds -> AIs \union {NoAI}]]
  /\ scheduled \in [Zones -> WaitingLists] /\ batch \in [Zones -> WaitingLists]
  /\ stage \in [Zones -> {"idle", "apply", "leave", "erase", "tick"}]
  /\ ticking \in [Zones -> SUBSET AIs]
  /\ zoneOf \in [AIs -> Zones \union {NoZone}]
  /\ grouped \in [Zones -> SUBSET AIs] /\ late \in [Zones -> SUBSET AIs]
  /\ home \in [AIs -> Zones \union {NoZone, Destroyed}]

\* An AI that is being ticked knows the zone that ticks it: the tree dereferences
\* getZone() unchecked (conditions/IsInGroup.h:42, IsCloseToGroup.h:52,
\* IsGroupLeader.h:41, filter/SelectZone.h:29).  AI.h:121: hasZone is true "if
\* the entity is already in a Zone", "the Zone is doing that already".
TickedHasZone == \A z \in Zones : \A a \in ticking[z] : zoneOf[a] = z

\* Two zones never tick the same AI at a time: AI::update is "not called from
\* multiple threads" (AI.h:285) although every zone has threads of its own.
TickedOnce == \A y, z \in Zones : ticking[y] \intersect ticking[z] # {} => y = z

\* Both together: an AI is ticked by the zone it knows, and by no other.
TickedAtHome == TickedHasZone /\ TickedOnce

\* An AI whose addition was applied is found in its zone.  GameMap.h:57 takes the
\* answer of addAI for just that.
AddedIsThere ==
  \A z \in Zones, a \in AIs : home[a] = z => a \in Pending(z, "add") \union Present(z)

\* An AI is in a zone it was removed from only as long as the removal waits.
RemovedIsGone ==
  \A z \in Zones : \A a \in Present(z) :
    home[a] # z => a \in Pending(z, "remove") \/ CharOf[a] \in Pending(z, "destroy")

\* What was scheduled is applied or waits still: neither list loses anybody.
NoneForgotten == TypeOK /\ AddedIsThere /\ RemovedIsGone

\* Nobody stays in a group of a zone that he has left with removeAI (Zone.h:377),
\* whoever joins while the removal waits or is applied, if the join is before the
\* groups are left.  One that comes later (Zone.h:378, or GameMap.h:60 for an AI
\* that was removed meanwhile) stays: GroupMgr::add asks nobody.
NoGhosts ==
  \A z \in Zones : \A a \in grouped[z] \ late[z] :
    home[a] \in {z, Destroyed} \/ a \in Pending(z, "remove")

\* Applying the lists element by element is the same as applying them at once:
\* whoever waits for the zone's lock sees all of an update or nothing.  The
\* update takes effect when it takes the lists.
Service == INSTANCE ZoneService WITH
  present <- [z \in Zones |-> Lists!Applied(ais[z], batch[z])], waiting <- scheduled

ServiceSpec == Service!Spec

\* An AI that is wanted in a zone gets there and one that is not wanted leaves,
\* unless the callers change their mind.
GetsThere ==
  \A z \in Zones, a \in AIs :
    /\ home[a] = z ~> a \in Present(z) \/ home[a] # z
    /\ home[a] # z ~> a \notin Present(z) \/ home[a] = z

============================================================================
