----------------------------- MODULE ZoneProofs -----------------------------
(***************************************************************************)
(* What a zone guarantees for any number of zones and AIs and lists of any *)
(* length, when its callers are patient (they add an AI again only when it *)
(* has left) and every AI instance has a character of its own; and what    *)
(* the thread pool it owns guarantees.                                     *)
(***************************************************************************)
EXTENDS Zone, ThreadPool, SequenceTheorems, TLAPS

\* The callers the theorems are about.
Considerate == Patient /\ \A a, b \in AIs : CharOf[a] = CharOf[b] => a = b

NoDup(s) == \A i, j \in DOMAIN s : s[i] = s[j] => i = j

\* An id finds an AI that has it.
OwnInv == \A z \in Zones, c \in CharIds : ais[z][c] # NoAI => CharOf[ais[z][c]] = c

\* Where an update is: the AI whose removal is under way is the one at the head,
\* and only the AIs of the zone are ticked.
StageInv ==
  \A z \in Zones :
    /\ stage[z] \in {"idle", "tick"} => batch[z] = Lists!Empty
    /\ stage[z] \in {"leave", "erase"} =>
         batch[z].add = <<>> /\ batch[z].remove # <<>> /\ Head(batch[z].remove) \in Present(z)
    /\ stage[z] = "erase" => Head(batch[z].remove) \notin grouped[z] \ late[z]
    /\ stage[z] # "tick" => ticking[z] = {}
    /\ ticking[z] \subseteq Present(z)

\* An addition or a removal is scheduled once.
ListInv ==
  /\ \A z \in Zones, list \in {"add", "remove"} :
       /\ NoDup(scheduled[z][list]) /\ NoDup(batch[z][list])
       /\ ToSet(scheduled[z][list]) \intersect ToSet(batch[z][list]) = {}
  /\ \A y, z \in Zones : Pending(y, "add") \intersect Pending(z, "add") # {} => y = z

\* An AI is in one zone, which it knows until its removal begins, and an AI that
\* is to be added is in none.
PresentInv ==
  \A z \in Zones, a \in AIs :
    /\ a \in Pending(z, "add") => \A y \in Zones : a \notin Present(y)
    /\ a \in Present(z) =>
         \/ zoneOf[a] = z
         \/ zoneOf[a] = NoZone /\ stage[z] \in {"leave", "erase"} /\ Head(batch[z].remove) = a
    /\ a \in Present(z) => \A y \in Zones : a \in Present(y) => y = z

\* A removal waits for an AI that is there, or will be when its turn comes.
PendingInv ==
  \A z \in Zones, a \in AIs :
    /\ a \in Pending(z, "remove") => home[a] = NoZone
    /\ CharOf[a] \in Pending(z, "destroy") => home[a] = Destroyed
    /\ a \in ToSet(batch[z].remove) => a \in Present(z) \union ToSet(batch[z].add)
    /\ a \in ToSet(scheduled[z].remove) => a \in Present(z) \union Pending(z, "add")

\* An AI that is there, or will be, and is not wanted, will leave after that.
UnwantedInv ==
  \A z \in Zones, a \in AIs : home[a] # z =>
    /\ a \in Present(z) \union ToSet(batch[z].add) =>
         a \in Pending(z, "remove") \/ CharOf[a] \in Pending(z, "destroy")
    /\ a \in ToSet(scheduled[z].add) =>
         a \in ToSet(scheduled[z].remove) \/ CharOf[a] \in ToSet(scheduled[z].destroy)

IInv ==
  /\ TypeOK /\ OwnInv /\ StageInv /\ ListInv /\ PresentInv /\ PendingInv /\ UnwantedInv
  /\ AddedIsThere /\ NoGhosts

Names == {"add", "remove", "destroy"}
Elements(list) == IF list = "destroy" THEN CharIds ELSE AIs

----------------------------------------------------------------------------
(* Sequences                                                               *)

LEMMA ConcatSet ==
  ASSUME NEW S, NEW s \in Seq(S), NEW t \in Seq(S)
  PROVE  /\ s \o t \in Seq(S)
         /\ ToSet(s \o t) = ToSet(s) \union ToSet(t)
         /\ NoDup(s) /\ NoDup(t) /\ ToSet(s) \intersect ToSet(t) = {} => NoDup(s \o t)
<1> DEFINE r == s \o t
<1>1. /\ r \in Seq(S)
      /\ DOMAIN s = 1 .. Len(s) /\ DOMAIN t = 1 .. Len(t)
      /\ DOMAIN r = 1 .. Len(s) + Len(t)
      /\ Len(s) \in Nat /\ Len(t) \in Nat
      /\ \A i \in 1 .. Len(s) : r[i] = s[i]
      /\ \A i \in 1 .. Len(t) : r[Len(s) + i] = t[i]
  BY ConcatProperties
<1>2. ToSet(s) \subseteq ToSet(r)
  BY <1>1 DEF ToSet
<1>3. ASSUME NEW e \in ToSet(t) PROVE e \in ToSet(r)
  <2>1. PICK i \in 1 .. Len(t) : e = t[i]
    BY <1>1 DEF ToSet
  <2>2. Len(s) + i \in 1 .. Len(s) + Len(t) /\ r[Len(s) + i] = e
    BY <1>1, <2>1
  <2> QED
    BY <1>1, <2>2 DEF ToSet
<1>4. \A i \in DOMAIN r :
        \/ i \in DOMAIN s /\ r[i] = s[i]
        \/ i - Len(s) \in DOMAIN t /\ r[i] = t[i - Len(s)]
  <2> SUFFICES ASSUME NEW i \in 1 .. Len(s) + Len(t), ~ i <= Len(s)
               PROVE  i - Len(s) \in DOMAIN t /\ r[i] = t[i - Len(s)]
    BY <1>1
  <2>1. i - Len(s) \in 1 .. Len(t) /\ i = Len(s) + (i - Len(s))
    BY <1>1
  <2> QED
    BY <1>1, <2>1
<1>5. ToSet(r) \subseteq ToSet(s) \union ToSet(t)
  BY <1>4 DEF ToSet
<1>6. ASSUME NoDup(s), NoDup(t), ToSet(s) \intersect ToSet(t) = {} PROVE NoDup(r)
  <2> SUFFICES ASSUME NEW i \in DOMAIN r, NEW j \in DOMAIN r, r[i] = r[j] PROVE i = j
    BY DEF NoDup
  <2>1. \A k \in DOMAIN s, l \in DOMAIN t : s[k] # t[l]
    BY <1>6 DEF ToSet
  <2>2. CASE i \in DOMAIN s /\ r[i] = s[i] /\ j \in DOMAIN s /\ r[j] = s[j]
    BY <1>6, <2>2 DEF NoDup
  <2>3. CASE /\ i - Len(s) \in DOMAIN t /\ r[i] = t[i - Len(s)]
             /\ j - Len(s) \in DOMAIN t /\ r[j] = t[j - Len(s)]
    <3>1. i - Len(s) = j - Len(s)
      BY <1>6, <2>3 DEF NoDup
    <3> QED
      BY <1>1, <3>1
  <2> QED
    BY <1>4, <2>1, <2>2, <2>3
<1> QED
  BY <1>1, <1>2, <1>3, <1>5, <1>6

LEMMA TailSet ==
  ASSUME NEW S, NEW s \in Seq(S), s # <<>>
  PROVE  /\ Tail(s) \in Seq(S)
         /\ Head(s) \in S
         /\ ToSet(s) = ToSet(Tail(s)) \union {Head(s)}
         /\ NoDup(s) => NoDup(Tail(s)) /\ Head(s) \notin ToSet(Tail(s))
<1>1. /\ Tail(s) \in Seq(S) /\ Head(s) \in S /\ Len(s) \in Nat \ {0}
      /\ DOMAIN s = 1 .. Len(s)
      /\ DOMAIN Tail(s) = 1 .. Len(s) - 1
      /\ \A i \in 1 .. Len(s) - 1 : Tail(s)[i] = s[i + 1]
      /\ Head(s) = s[1]
  OBVIOUS
<1>2. ToSet(Tail(s)) \union {Head(s)} \subseteq ToSet(s)
  BY <1>1 DEF ToSet
<1>3. ASSUME NEW e \in ToSet(s), e # Head(s) PROVE e \in ToSet(Tail(s))
  <2>1. PICK i \in 1 .. Len(s) : e = s[i]
    BY <1>1 DEF ToSet
  <2>2. i # 1 /\ i - 1 \in 1 .. Len(s) - 1 /\ i = (i - 1) + 1
    BY <1>1, <1>3, <2>1
  <2>3. Tail(s)[i - 1] = s[i]
    BY <1>1, <2>2
  <2> QED
    BY <1>1, <2>1, <2>2, <2>3 DEF ToSet
<1>4. NoDup(s) => NoDup(Tail(s)) /\ Head(s) \notin ToSet(Tail(s))
  BY <1>1 DEF NoDup, ToSet
<1> QED
  BY <1>1, <1>2, <1>3, <1>4

LEMMA ShortLists ==
  /\ ToSet(<<>>) = {} /\ NoDup(<<>>)
  /\ \A c : ToSet(<<c>>) = {c}
  /\ \A s \in Lists!Items : s \in Seq(AIs) /\ NoDup(s)
<1>1. ToSet(<<>>) = {} /\ NoDup(<<>>) /\ \A c : ToSet(<<c>>) = {c}
  BY DEF ToSet, NoDup
<1>2. ASSUME NEW s \in Lists!Items PROVE s \in Seq(AIs) /\ NoDup(s)
  <2>1. CASE s \in {<<a>> : a \in AIs}
    <3>1. PICK a \in AIs : s = <<a>>
      BY <2>1
    <3> QED
      BY <3>1 DEF NoDup
  <2>2. CASE s \in AIs \X AIs /\ s[1] # s[2]
    <3>1. PICK a \in AIs, b \in AIs : s = <<a, b>>
      BY <2>2
    <3> QED
      BY <2>2, <3>1 DEF NoDup
  <2> QED
    BY <2>1, <2>2 DEF Lists!Items
<1> QED
  BY <1>1, <1>2

LEMMA NothingWaits ==
  /\ Lists!Empty \in WaitingLists
  /\ Lists!Empty.add = <<>> /\ Lists!Empty.remove = <<>> /\ Lists!Empty.destroy = <<>>
  /\ \A list \in Names : ToSet(Lists!Empty[list]) = {} /\ NoDup(Lists!Empty[list])
<1>1. Lists!Empty \in WaitingLists
  BY DEF Lists!Empty, WaitingLists
<1> QED
  BY <1>1, ShortLists DEF Lists!Empty, Names

\* One of the lists changes.
Put(lists, list, s) == [lists EXCEPT ![list] = s]

LEMMA ListChanges ==
  ASSUME NEW lists \in WaitingLists, NEW list \in Names, NEW s \in Seq(Elements(list))
  PROVE  /\ Put(lists, list, s) \in WaitingLists
         /\ Put(lists, list, s)[list] = s
         /\ \A l \in Names : l # list => Put(lists, list, s)[l] = lists[l]
<1>1. CASE list = "add"
  BY <1>1 DEF Put, WaitingLists, Elements, Names
<1>2. CASE list = "remove"
  BY <1>2 DEF Put, WaitingLists, Elements, Names
<1>3. CASE list = "destroy"
  BY <1>3 DEF Put, WaitingLists, Elements, Names
<1> QED
  BY <1>1, <1>2, <1>3 DEF Names

LEMMA ScheduleChanges ==
  ASSUME TypeOK, NEW z \in Zones, NEW list \in Names, NEW items \in Seq(Elements(list)),
         Schedule(z, list, items)
  PROVE  /\ scheduled' \in [Zones -> WaitingLists]
         /\ ToSet(scheduled'[z][list]) = ToSet(scheduled[z][list]) \union ToSet(items)
         /\ NoDup(items) /\ ToSet(scheduled[z][list]) \intersect ToSet(items) = {} =>
              (NoDup(scheduled[z][list]) => NoDup(scheduled'[z][list]))
         /\ \A y \in Zones, l \in Names : y # z \/ l # list => scheduled'[y][l] = scheduled[y][l]
<1> DEFINE s == scheduled[z][list]
<1>1. s \in Seq(Elements(list))
  <2>1. scheduled[z] \in WaitingLists
    BY DEF TypeOK
  <2> QED
    BY <2>1 DEF WaitingLists, Names, Elements
<1>2. /\ s \o items \in Seq(Elements(list))
      /\ ToSet(s \o items) = ToSet(s) \union ToSet(items)
      /\ NoDup(s) /\ NoDup(items) /\ ToSet(s) \intersect ToSet(items) = {} => NoDup(s \o items)
  BY <1>1, ConcatSet
<1>3. scheduled' = [scheduled EXCEPT ![z][list] = s \o items]
  BY DEF Schedule
<1>4. /\ scheduled' \in [Zones -> WaitingLists]
      /\ scheduled'[z][list] = s \o items
      /\ \A y \in Zones, l \in Names : y # z \/ l # list => scheduled'[y][l] = scheduled[y][l]
  <2> DEFINE r == Put(scheduled[z], list, s \o items)
  <2>1. /\ r \in WaitingLists
        /\ r[list] = s \o items
        /\ \A l \in Names : l # list => r[l] = scheduled[z][l]
    <3> HIDE DEF s
    <3>1. scheduled[z] \in WaitingLists
      BY DEF TypeOK
    <3>2. s \o items \in Seq(Elements(list))
      BY <1>2
    <3> QED
      BY <3>1, <3>2, ListChanges, ZenonT(60)
  <2>2. scheduled' = [scheduled EXCEPT ![z] = r]
    BY <1>3 DEF Put
  <2> HIDE DEF r, s
  <2> QED
    BY <2>1, <2>2 DEF TypeOK
<1> QED
  BY <1>2, <1>4

LEMMA DropChanges ==
  ASSUME TypeOK, NEW z \in Zones, NEW list \in Names, batch[z][list] # <<>>, Drop(z, list)
  PROVE  /\ batch' \in [Zones -> WaitingLists]
         /\ Head(batch[z][list]) \in Elements(list)
         /\ ToSet(batch[z][list]) = ToSet(batch'[z][list]) \union {Head(batch[z][list])}
         /\ NoDup(batch[z][list]) =>
              NoDup(batch'[z][list]) /\ Head(batch[z][list]) \notin ToSet(batch'[z][list])
         /\ \A y \in Zones, l \in Names : y # z \/ l # list => batch'[y][l] = batch[y][l]
<1> DEFINE s == batch[z][list]
<1>1. s \in Seq(Elements(list))
  <2>1. batch[z] \in WaitingLists
    BY DEF TypeOK
  <2> QED
    BY <2>1 DEF WaitingLists, Names, Elements
<1>2. /\ Tail(s) \in Seq(Elements(list))
      /\ Head(s) \in Elements(list)
      /\ ToSet(s) = ToSet(Tail(s)) \union {Head(s)}
      /\ NoDup(s) => NoDup(Tail(s)) /\ Head(s) \notin ToSet(Tail(s))
  BY <1>1, TailSet
<1>3. batch' = [batch EXCEPT ![z][list] = Tail(s)]
  BY DEF Drop
<1>4. /\ batch' \in [Zones -> WaitingLists]
      /\ batch'[z][list] = Tail(s)
      /\ \A y \in Zones, l \in Names : y # z \/ l # list => batch'[y][l] = batch[y][l]
  <2> DEFINE r == Put(batch[z], list, Tail(s))
  <2>1. /\ r \in WaitingLists
        /\ r[list] = Tail(s)
        /\ \A l \in Names : l # list => r[l] = batch[z][l]
    <3> HIDE DEF s
    <3>1. batch[z] \in WaitingLists
      BY DEF TypeOK
    <3>2. Tail(s) \in Seq(Elements(list))
      BY <1>2
    <3> QED
      BY <3>1, <3>2, ListChanges, ZenonT(60)
  <2>2. batch' = [batch EXCEPT ![z] = r]
    BY <1>3 DEF Put
  <2> HIDE DEF r, s
  <2> QED
    BY <2>1, <2>2 DEF TypeOK
<1> QED
  BY <1>2, <1>4

----------------------------------------------------------------------------
(* The invariant                                                           *)

LEMMA InitIInv == Init => IInv
<1> SUFFICES ASSUME Init PROVE IInv
  OBVIOUS
<1>1. /\ scheduled = [z \in Zones |-> Lists!Empty] /\ batch = [z \in Zones |-> Lists!Empty]
      /\ stage = [z \in Zones |-> "idle"]
      /\ ticking = [z \in Zones |-> {}]
      /\ grouped = [z \in Zones |-> {}] /\ late = [z \in Zones |-> {}]
      /\ home = [a \in AIs |-> NoZone] /\ zoneOf = [a \in AIs |-> NoZone]
      /\ ais \in [Zones -> [CharIds -> AIs \union {NoAI}]]
      /\ \A z \in Zones, c \in CharIds : ais[z][c] = NoAI
  BY DEF Init, Lists!NoOne
<1>2. \A z \in Zones : Present(z) = {}
  BY <1>1, ZoneAssumption DEF Present
<1>3. \A z \in Zones, l \in Names :
        /\ ToSet(scheduled[z][l]) = {} /\ ToSet(batch[z][l]) = {}
        /\ NoDup(scheduled[z][l]) /\ NoDup(batch[z][l])
        /\ Pending(z, l) = {}
  BY <1>1, NothingWaits DEF Pending
<1>4. TypeOK
  <2>1. /\ scheduled \in [Zones -> WaitingLists] /\ batch \in [Zones -> WaitingLists]
    BY <1>1, NothingWaits
  <2>2. /\ stage \in [Zones -> {"idle", "apply", "leave", "erase", "tick"}]
        /\ ticking \in [Zones -> SUBSET AIs]
        /\ grouped \in [Zones -> SUBSET AIs] /\ late \in [Zones -> SUBSET AIs]
    BY <1>1
  <2>3. /\ zoneOf \in [AIs -> Zones \union {NoZone}]
        /\ home \in [AIs -> Zones \union {NoZone, Destroyed}]
    BY <1>1
  <2> QED
    BY <1>1, <2>1, <2>2, <2>3 DEF TypeOK
<1>5. OwnInv
  BY <1>1 DEF OwnInv
<1>6. StageInv
  BY <1>1 DEF StageInv
<1>7. ListInv
  BY <1>3 DEF ListInv, Names
<1>8. PresentInv
  BY <1>2, <1>3 DEF PresentInv, Names
<1>9. PendingInv /\ UnwantedInv /\ AddedIsThere /\ NoGhosts
  BY <1>1, <1>2, <1>3, ZoneAssumption DEF PendingInv, UnwantedInv, AddedIsThere, NoGhosts, Names
<1> QED
  BY <1>4, <1>5, <1>6, <1>7, <1>8, <1>9 DEF IInv

\* With an id of its own, an AI is found under it or nobody is.
LEMMA OneId ==
  ASSUME Considerate, TypeOK, OwnInv
  PROVE  \A z \in Zones, a \in AIs : ais[z][CharOf[a]] \in {a, NoAI}
<1> SUFFICES ASSUME NEW z \in Zones, NEW a \in AIs, ais[z][CharOf[a]] # NoAI
             PROVE  ais[z][CharOf[a]] = a
  OBVIOUS
<1>1. CharOf[a] \in CharIds
  BY ZoneAssumption
<1>2. ais[z][CharOf[a]] \in AIs /\ CharOf[ais[z][CharOf[a]]] = CharOf[a]
  BY <1>1 DEF TypeOK, OwnInv
<1> QED
  BY <1>2 DEF Considerate

\* Who is next to be removed waits for it.
LEMMA HeadWaits ==
  ASSUME TypeOK, NEW z \in Zones, batch[z].remove # <<>>
  PROVE  /\ Head(batch[z].remove) \in AIs
         /\ Head(batch[z].remove) \in ToSet(batch[z].remove)
         /\ Head(batch[z].remove) \in Pending(z, "remove")
<1>1. batch[z].remove \in Seq(AIs)
  BY DEF TypeOK, WaitingLists
<1>2. Head(batch[z].remove) \in AIs /\ Head(batch[z].remove) \in ToSet(batch[z].remove)
  BY <1>1, TailSet
<1> QED
  BY <1>2 DEF Pending

\* What a call changes.
LEMMA Scheduling ==
  ASSUME TypeOK, NEW z \in Zones, NEW list \in Names, NEW items \in Seq(Elements(list)),
         Schedule(z, list, items)
  PROVE  /\ scheduled' \in [Zones -> WaitingLists]
         /\ UNCHANGED <<ais, batch, stage, ticking, zoneOf, grouped, late>>
         /\ \A y \in Zones : Present(y)' = Present(y)
         /\ ToSet(scheduled'[z][list]) = ToSet(scheduled[z][list]) \union ToSet(items)
         /\ Pending(z, list)' = Pending(z, list) \union ToSet(items)
         /\ \A y \in Zones, l \in Names : y # z \/ l # list =>
              scheduled'[y][l] = scheduled[y][l] /\ Pending(y, l)' = Pending(y, l)
         /\ NoDup(items) /\ Pending(z, list) \intersect ToSet(items) = {} =>
              (NoDup(scheduled[z][list]) => NoDup(scheduled'[z][list]))
<1>1. UNCHANGED <<ais, batch, stage, ticking, zoneOf, grouped, late>>
  BY DEF Schedule
<1>2. \A y \in Zones : Present(y)' = Present(y)
  BY <1>1 DEF Present
<1> QED
  BY <1>1, <1>2, ScheduleChanges DEF Pending

LEMMA AddAIsIInv ==
  ASSUME Considerate, IInv, NEW z \in Zones, NEW items \in Lists!Items, AddAIs(z, items)
  PROVE  IInv'
<1> DEFINE new == ToSet(items)
<1>1. items \in Seq(AIs) /\ NoDup(items) /\ new \subseteq AIs
  <2>1. items \in Seq(AIs) /\ NoDup(items)
    BY ShortLists
  <2> QED
    BY <2>1 DEF ToSet
<1>2. Schedule(z, "add", items)
  BY DEF AddAIs
<1>3. /\ scheduled' \in [Zones -> WaitingLists]
      /\ UNCHANGED <<ais, batch, stage, ticking, zoneOf, grouped, late>>
      /\ \A y \in Zones : Present(y)' = Present(y)
      /\ ToSet(scheduled'[z].add) = ToSet(scheduled[z].add) \union new
      /\ Pending(z, "add")' = Pending(z, "add") \union new
      /\ \A y \in Zones, l \in Names : y # z \/ l # "add" =>
           scheduled'[y][l] = scheduled[y][l] /\ Pending(y, l)' = Pending(y, l)
      /\ Pending(z, "add") \intersect new = {} =>
           (NoDup(scheduled[z].add) => NoDup(scheduled'[z].add))
  <2>1. TypeOK /\ "add" \in Names /\ items \in Seq(Elements("add"))
    BY <1>1 DEF IInv, Names, Elements
  <2> QED
    BY <1>1, <1>2, <2>1, Scheduling
<1>4. /\ home' \in [AIs -> Zones \union {NoZone, Destroyed}]
      /\ \A a \in new : home[a] = NoZone /\ home'[a] = z
      /\ \A a \in AIs \ new : home'[a] = home[a]
  BY <1>1 DEF AddAIs, Want, IInv, TypeOK
<1>5. ASSUME NEW a \in new
      PROVE  /\ zoneOf[a] = NoZone
             /\ \A y \in Zones :
                  /\ a \notin Pending(y, "add") /\ a \notin Pending(y, "remove")
                  /\ a \notin Present(y) /\ a \notin grouped[y] \ late[y]
                  /\ CharOf[a] \notin Pending(y, "destroy")
  <2>1. a \in AIs /\ home[a] = NoZone /\ Settled(a)
    BY <1>1, <1>5 DEF AddAIs, Considerate
  <2>2. zoneOf[a] = NoZone /\ \A y \in Zones : a \notin Pending(y, "add") /\ a \notin Pending(y, "remove")
    BY <2>1 DEF Settled
  <2> SUFFICES ASSUME NEW y \in Zones
               PROVE  a \notin Present(y) /\ a \notin grouped[y] \ late[y] /\ CharOf[a] \notin Pending(y, "destroy")
    BY <2>2
  <2>3. a \notin Present(y)
    BY <2>1, <2>2, ZoneAssumption, HeadWaits DEF IInv, PresentInv, StageInv
  <2>4. a \notin grouped[y] \ late[y]
    BY <2>1, <2>2, ZoneAssumption DEF IInv, NoGhosts
  <2>5. CharOf[a] \notin Pending(y, "destroy")
    BY <2>1, ZoneAssumption DEF IInv, PendingInv
  <2> QED
    BY <2>3, <2>4, <2>5
<1> HIDE DEF new
<1>6. TypeOK'
  BY <1>3, <1>4 DEF IInv, TypeOK
<1>7. OwnInv' /\ StageInv'
  BY <1>3 DEF IInv, OwnInv, StageInv
<1>8. ListInv'
  <2>1. ASSUME NEW y \in Zones, NEW l \in {"add", "remove"}
        PROVE  /\ NoDup(scheduled'[y][l]) /\ NoDup(batch'[y][l])
               /\ ToSet(scheduled'[y][l]) \intersect ToSet(batch'[y][l]) = {}
    <3>1. /\ NoDup(scheduled[y][l]) /\ NoDup(batch[y][l])
          /\ ToSet(scheduled[y][l]) \intersect ToSet(batch[y][l]) = {}
          /\ l \in Names
      BY DEF IInv, ListInv, Names
    <3>2. CASE y = z /\ l = "add"
      BY <1>3, <1>5, <3>1, <3>2 DEF Pending
    <3>3. CASE y # z \/ l # "add"
      BY <1>3, <3>1, <3>3
    <3> QED
      BY <3>2, <3>3
  <2>2. ASSUME NEW x \in Zones, NEW y \in Zones, x # y
        PROVE  Pending(x, "add")' \intersect Pending(y, "add")' = {}
    BY <1>3, <1>5, <2>2 DEF IInv, ListInv, Names
  <2> QED
    BY <2>1, <2>2 DEF ListInv
<1>9. PresentInv'
  BY <1>3, <1>5 DEF IInv, PresentInv, Names
<1>10. PendingInv'
  BY <1>1, <1>3, <1>4, <1>5 DEF IInv, PendingInv, Names
<1>11. UnwantedInv'
  BY <1>1, <1>3, <1>4, <1>5, SMTT(30) DEF IInv, UnwantedInv, Names, Pending
<1>12. AddedIsThere'
  BY <1>1, <1>3, <1>4, <1>5 DEF IInv, AddedIsThere, Names
<1>13. NoGhosts'
  <2> SUFFICES ASSUME NEW y \in Zones, NEW a \in grouped[y] \ late[y]
               PROVE  home'[a] \in {y, Destroyed} \/ a \in Pending(y, "remove")'
    BY <1>3 DEF NoGhosts
  <2>1. a \in AIs \ new
    BY <1>5 DEF IInv, TypeOK
  <2>2. home'[a] = home[a] /\ Pending(y, "remove")' = Pending(y, "remove")
    BY <2>1, <1>3, <1>4 DEF Names
  <2> QED
    BY <2>2 DEF IInv, NoGhosts
<1> QED
  BY <1>6, <1>7, <1>8, <1>9, <1>10, <1>11, <1>12, <1>13 DEF IInv

LEMMA RemoveAIsIInv ==
  ASSUME Considerate, IInv, NEW z \in Zones, NEW items \in Lists!Items, RemoveAIs(z, items)
  PROVE  IInv'
<1> DEFINE old == ToSet(items)
<1>1. items \in Seq(AIs) /\ NoDup(items) /\ old \subseteq AIs
  <2>1. items \in Seq(AIs) /\ NoDup(items)
    BY ShortLists
  <2> QED
    BY <2>1 DEF ToSet
<1>2. Schedule(z, "remove", items)
  BY DEF RemoveAIs
<1>3. /\ scheduled' \in [Zones -> WaitingLists]
      /\ UNCHANGED <<ais, batch, stage, ticking, zoneOf, grouped, late>>
      /\ \A y \in Zones : Present(y)' = Present(y)
      /\ ToSet(scheduled'[z].remove) = ToSet(scheduled[z].remove) \union old
      /\ Pending(z, "remove")' = Pending(z, "remove") \union old
      /\ \A y \in Zones, l \in Names : y # z \/ l # "remove" =>
           scheduled'[y][l] = scheduled[y][l] /\ Pending(y, l)' = Pending(y, l)
      /\ Pending(z, "remove") \intersect old = {} =>
           (NoDup(scheduled[z].remove) => NoDup(scheduled'[z].remove))
  <2>1. TypeOK /\ "remove" \in Names /\ items \in Seq(Elements("remove"))
    BY <1>1 DEF IInv, Names, Elements
  <2> QED
    BY <1>1, <1>2, <2>1, Scheduling
<1>4. /\ home' \in [AIs -> Zones \union {NoZone, Destroyed}]
      /\ \A a \in old : home[a] = z /\ home'[a] = NoZone
      /\ \A a \in AIs \ old : home'[a] = home[a]
  BY <1>1 DEF RemoveAIs, Want, IInv, TypeOK
<1>5. ASSUME NEW a \in old
      PROVE  /\ a \in Present(z) \union Pending(z, "add")
             /\ \A y \in Zones :
                  a \notin Pending(y, "remove") /\ CharOf[a] \notin Pending(y, "destroy")
  BY <1>1, <1>4, <1>5, ZoneAssumption DEF IInv, AddedIsThere, PendingInv
<1> HIDE DEF old
<1>6. TypeOK'
  BY <1>3, <1>4 DEF IInv, TypeOK
<1>7. OwnInv' /\ StageInv'
  BY <1>3 DEF IInv, OwnInv, StageInv
<1>8. ListInv'
  <2>1. ASSUME NEW y \in Zones, NEW l \in {"add", "remove"}
        PROVE  /\ NoDup(scheduled'[y][l]) /\ NoDup(batch'[y][l])
               /\ ToSet(scheduled'[y][l]) \intersect ToSet(batch'[y][l]) = {}
    <3>1. /\ NoDup(scheduled[y][l]) /\ NoDup(batch[y][l])
          /\ ToSet(scheduled[y][l]) \intersect ToSet(batch[y][l]) = {}
          /\ l \in Names
      BY DEF IInv, ListInv, Names
    <3>2. CASE y = z /\ l = "remove"
      BY <1>3, <1>5, <3>1, <3>2 DEF Pending
    <3>3. CASE y # z \/ l # "remove"
      BY <1>3, <3>1, <3>3
    <3> QED
      BY <3>2, <3>3
  <2>2. \A x, y \in Zones : Pending(x, "add")' \intersect Pending(y, "add")' # {} => x = y
    BY <1>3 DEF IInv, ListInv, Names
  <2> QED
    BY <2>1, <2>2 DEF ListInv
<1>9. PresentInv'
  BY <1>3 DEF IInv, PresentInv, Names
<1>10. PendingInv'
  BY <1>1, <1>3, <1>4, <1>5 DEF IInv, PendingInv, Names, Pending
<1>11. UnwantedInv'
  BY <1>1, <1>3, <1>4, <1>5 DEF IInv, UnwantedInv, Names
<1>12. AddedIsThere'
  BY <1>1, <1>3, <1>4, ZoneAssumption DEF IInv, AddedIsThere, Names
<1>13. NoGhosts'
  <2> SUFFICES ASSUME NEW y \in Zones, NEW b \in grouped[y] \ late[y]
               PROVE  home'[b] \in {y, Destroyed} \/ b \in Pending(y, "remove")'
    BY <1>3 DEF NoGhosts
  <2>1. b \in AIs /\ (home[b] \in {y, Destroyed} \/ b \in Pending(y, "remove"))
    BY DEF IInv, TypeOK, NoGhosts
  <2>2. Pending(y, "remove") \subseteq Pending(y, "remove")'
    BY <1>3 DEF Names
  <2>3. CASE b \in old
    <3>1. home[b] = z /\ z # Destroyed
      BY <1>4, <2>3, ZoneAssumption
    <3>2. CASE y = z
      BY <1>3, <2>3, <3>2
    <3>3. CASE y # z
      BY <2>1, <2>2, <3>1, <3>3
    <3> QED
      BY <3>2, <3>3
  <2>4. CASE b \notin old
    BY <1>4, <2>1, <2>2, <2>4
  <2> QED
    BY <2>3, <2>4
<1> QED
  BY <1>6, <1>7, <1>8, <1>9, <1>10, <1>11, <1>12, <1>13 DEF IInv

LEMMA DestroyAIIInv ==
  ASSUME Considerate, IInv, NEW z \in Zones, NEW a \in AIs, DestroyAI(z, a)
  PROVE  IInv'
<1> DEFINE items == <<CharOf[a]>>
<1>1. Schedule(z, "destroy", items)
  BY DEF DestroyAI
<1>2. /\ scheduled' \in [Zones -> WaitingLists]
      /\ UNCHANGED <<ais, batch, stage, ticking, zoneOf, grouped, late>>
      /\ \A y \in Zones : Present(y)' = Present(y)
      /\ ToSet(scheduled'[z].destroy) = ToSet(scheduled[z].destroy) \union {CharOf[a]}
      /\ Pending(z, "destroy")' = Pending(z, "destroy") \union {CharOf[a]}
      /\ \A y \in Zones, l \in Names : y # z \/ l # "destroy" =>
           scheduled'[y][l] = scheduled[y][l] /\ Pending(y, l)' = Pending(y, l)
  <2>1. /\ TypeOK /\ "destroy" \in Names /\ items \in Seq(Elements("destroy"))
        /\ ToSet(items) = {CharOf[a]}
    BY ZoneAssumption, ShortLists DEF IInv, Names, Elements
  <2> HIDE DEF items
  <2> QED
    BY <1>1, <2>1, Scheduling, SMTT(20)
<1>3. /\ home' \in [AIs -> Zones \union {NoZone, Destroyed}]
      /\ home[a] = z /\ home'[a] = Destroyed
      /\ \A b \in AIs : b # a => home'[b] = home[b] /\ CharOf[b] # CharOf[a]
  BY ShortLists DEF DestroyAI, Want, IInv, TypeOK, Considerate
<1>4. TypeOK'
  BY <1>2, <1>3 DEF IInv, TypeOK
<1>5. OwnInv' /\ StageInv'
  BY <1>2 DEF IInv, OwnInv, StageInv
<1>6. ListInv' /\ PresentInv'
  BY <1>2 DEF IInv, ListInv, PresentInv, Names
<1>7. PendingInv'
  <2>1. \A y \in Zones : a \notin Pending(y, "remove")
    BY <1>3, ZoneAssumption DEF IInv, PendingInv
  <2> QED
    BY <1>2, <1>3, <2>1 DEF IInv, PendingInv, Names
<1>8. UnwantedInv'
  BY <1>2, <1>3 DEF IInv, UnwantedInv, Names
<1>9. AddedIsThere'
  BY <1>2, <1>3, ZoneAssumption DEF IInv, AddedIsThere, Names
<1>10. NoGhosts'
  BY <1>2, <1>3 DEF IInv, NoGhosts, Names, TypeOK
<1> QED
  BY <1>4, <1>5, <1>6, <1>7, <1>8, <1>9, <1>10 DEF IInv

LEMMA JoinIInv ==
  ASSUME IInv, NEW z \in Zones, NEW a \in AIs, Join(z, a)
  PROVE  IInv'
<1>1. /\ UNCHANGED <<ais, scheduled, batch, stage, ticking, zoneOf, home>>
      /\ grouped' \in [Zones -> SUBSET AIs] /\ late' \in [Zones -> SUBSET AIs]
      /\ grouped'[z] = grouped[z] \union {a}
      /\ late'[z] = IF InTime(z, a) THEN late[z] ELSE late[z] \union {a}
      /\ \A y \in Zones : y # z => grouped'[y] = grouped[y] /\ late'[y] = late[y]
  BY DEF Join, IInv, TypeOK
<1>2. /\ \A y \in Zones : Present(y)' = Present(y)
      /\ \A y \in Zones, l \in Names : Pending(y, l)' = Pending(y, l)
  BY <1>1 DEF Present, Pending
<1>3. TypeOK' /\ OwnInv' /\ ListInv' /\ PresentInv' /\ PendingInv' /\ UnwantedInv' /\ AddedIsThere'
  <2>1. TypeOK' /\ OwnInv'
    BY <1>1 DEF IInv, TypeOK, OwnInv
  <2>2. ListInv'
    BY <1>1, <1>2 DEF IInv, ListInv, Names
  <2>3. PresentInv'
    BY <1>1, <1>2 DEF IInv, PresentInv, Names
  <2>4. PendingInv' /\ UnwantedInv' /\ AddedIsThere'
    BY <1>1, <1>2 DEF IInv, PendingInv, UnwantedInv, AddedIsThere, Names
  <2> QED
    BY <2>1, <2>2, <2>3, <2>4
<1>4. StageInv'
  <2>1. stage[z] = "erase" => Leaving(z) = Head(batch[z].remove)
    BY DEF IInv, StageInv, Leaving, Present
  <2>2. stage[z] = "erase" /\ InTime(z, a) => Head(batch[z].remove) # a
    BY <2>1, HeadWaits, ZoneAssumption DEF IInv, StageInv, PendingInv, InTime
  <2> QED
    BY <1>1, <1>2, <2>2 DEF IInv, StageInv
<1>5. NoGhosts'
  BY <1>1, <1>2 DEF IInv, NoGhosts, InTime, Names
<1> QED
  BY <1>3, <1>4, <1>5 DEF IInv

LEMMA SwapIInv ==
  ASSUME IInv, NEW z \in Zones, Swap(z)
  PROVE  IInv'
<1>1. /\ UNCHANGED <<ais, ticking, zoneOf, grouped, late, home>>
      /\ stage[z] = "idle" /\ batch[z] = Lists!Empty /\ ticking[z] = {}
      /\ stage' \in [Zones -> {"idle", "apply", "leave", "erase", "tick"}]
      /\ stage'[z] = "apply"
      /\ batch' \in [Zones -> WaitingLists] /\ batch'[z] = scheduled[z]
      /\ scheduled' \in [Zones -> WaitingLists] /\ scheduled'[z] = Lists!Empty
      /\ \A y \in Zones : y # z =>
           stage'[y] = stage[y] /\ batch'[y] = batch[y] /\ scheduled'[y] = scheduled[y]
  BY NothingWaits DEF Swap, Goto, IInv, TypeOK, StageInv
<1>2. \A y \in Zones : Present(y)' = Present(y)
  BY <1>1 DEF Present
<1>3. \A l \in Names :
        /\ batch'[z][l] = scheduled[z][l]
        /\ ToSet(scheduled'[z][l]) = {} /\ NoDup(scheduled'[z][l])
        /\ ToSet(batch[z][l]) = {}
  BY <1>1, NothingWaits
<1>4. \A y \in Zones, l \in Names : Pending(y, l)' = Pending(y, l)
  BY <1>1, <1>3 DEF Pending
<1>5. TypeOK' /\ OwnInv'
  BY <1>1 DEF IInv, TypeOK, OwnInv
<1>6. StageInv'
  BY <1>1, <1>2 DEF IInv, StageInv
<1>7. ListInv'
  <2>1. ASSUME NEW y \in Zones, NEW l \in {"add", "remove"}
        PROVE  /\ NoDup(scheduled'[y][l]) /\ NoDup(batch'[y][l])
               /\ ToSet(scheduled'[y][l]) \intersect ToSet(batch'[y][l]) = {}
    <3>1. /\ NoDup(scheduled[y][l]) /\ NoDup(batch[y][l])
          /\ ToSet(scheduled[y][l]) \intersect ToSet(batch[y][l]) = {}
          /\ l \in Names
      BY DEF IInv, ListInv, Names
    <3> QED
      BY <1>1, <1>3, <3>1
  <2>2. \A x, y \in Zones : Pending(x, "add")' \intersect Pending(y, "add")' # {} => x = y
    BY <1>4 DEF IInv, ListInv, Names
  <2> QED
    BY <2>1, <2>2 DEF ListInv
<1>8. PresentInv'
  BY <1>1, <1>2, <1>4 DEF IInv, PresentInv, Names
<1>9. PendingInv' /\ UnwantedInv'
  <2>1. \A l \in Names : ToSet(batch'[z][l]) = ToSet(scheduled[z][l]) /\ Pending(z, l) = ToSet(scheduled[z][l])
    BY <1>3 DEF Pending
  <2>2. PendingInv'
    BY <1>1, <1>2, <1>3, <1>4, <2>1 DEF IInv, PendingInv, Names
  <2>3. UnwantedInv'
    BY <1>1, <1>2, <1>3, <1>4, <2>1 DEF IInv, UnwantedInv, Names
  <2> QED
    BY <2>2, <2>3
<1>10. AddedIsThere' /\ NoGhosts'
  BY <1>1, <1>2, <1>4 DEF IInv, AddedIsThere, NoGhosts, Names
<1> QED
  BY <1>5, <1>6, <1>7, <1>8, <1>9, <1>10 DEF IInv

LEMMA DoAddIInv ==
  ASSUME Considerate, IInv, NEW z \in Zones, DoAdd(z)
  PROVE  IInv'
<1> DEFINE a == Head(batch[z].add)
<1>1. /\ batch' \in [Zones -> WaitingLists]
      /\ a \in AIs
      /\ ToSet(batch[z].add) = ToSet(batch'[z].add) \union {a}
      /\ NoDup(batch'[z].add) /\ a \notin ToSet(batch'[z].add)
      /\ \A y \in Zones, l \in Names : y # z \/ l # "add" => batch'[y][l] = batch[y][l]
  <2>1. TypeOK /\ "add" \in Names /\ batch[z].add # <<>> /\ Drop(z, "add") /\ NoDup(batch[z].add)
    BY DEF IInv, ListInv, DoAdd, Names
  <2> QED
    BY <2>1, DropChanges DEF Elements
<1>2. /\ a \in Pending(z, "add") /\ a \notin ToSet(scheduled[z].add)
      /\ \A y \in Zones : a \notin Present(y)
      /\ \A y \in Zones : y # z => a \notin Pending(y, "add")
  <2>1. a \in Pending(z, "add")
    BY <1>1 DEF Pending
  <2>2. a \notin ToSet(scheduled[z].add)
    BY <1>1 DEF IInv, ListInv
  <2> QED
    BY <1>1, <2>1, <2>2 DEF IInv, ListInv, PresentInv
<1>3. ais[z][CharOf[a]] = NoAI
  BY <1>1, <1>2, OneId DEF IInv, Present
<1>4. /\ UNCHANGED <<scheduled, stage, ticking, grouped, late, home>>
      /\ stage[z] = "apply"
      /\ zoneOf' \in [AIs -> Zones \union {NoZone}] /\ zoneOf'[a] = z
      /\ \A b \in AIs : b # a => zoneOf'[b] = zoneOf[b]
      /\ ais' = [ais EXCEPT ![z][CharOf[a]] = a]
  BY <1>1, <1>3 DEF DoAdd, IInv, TypeOK
<1>5. /\ ais' \in [Zones -> [CharIds -> AIs \union {NoAI}]]
      /\ ais'[z][CharOf[a]] = a
      /\ \A y \in Zones, c \in CharIds : y # z \/ c # CharOf[a] => ais'[y][c] = ais[y][c]
  BY <1>1, <1>4, ZoneAssumption DEF IInv, TypeOK
<1>6. /\ Present(z)' = Present(z) \union {a}
      /\ \A y \in Zones : y # z => Present(y)' = Present(y)
  BY <1>1, <1>5, ZoneAssumption DEF Present, Considerate
<1>7. /\ Pending(z, "add") = Pending(z, "add")' \union {a} /\ a \notin Pending(z, "add")'
      /\ \A y \in Zones, l \in Names : y # z \/ l # "add" => Pending(y, l)' = Pending(y, l)
  BY <1>1, <1>2, <1>4 DEF Pending
<1> HIDE DEF a
<1>8. TypeOK'
  BY <1>1, <1>4, <1>5 DEF IInv, TypeOK
<1>9. OwnInv'
  BY <1>1, <1>5 DEF IInv, OwnInv
<1>10. StageInv'
  <2>1. \A y \in Zones : y # z => batch'[y] = batch[y]
    BY DEF DoAdd, Drop, IInv, TypeOK
  <2> QED
    BY <1>4, <1>6, <2>1 DEF IInv, StageInv
<1>11. ListInv'
  <2>1. ASSUME NEW y \in Zones, NEW l \in {"add", "remove"}
        PROVE  /\ NoDup(scheduled'[y][l]) /\ NoDup(batch'[y][l])
               /\ ToSet(scheduled'[y][l]) \intersect ToSet(batch'[y][l]) = {}
    <3>1. /\ NoDup(scheduled[y][l]) /\ NoDup(batch[y][l])
          /\ ToSet(scheduled[y][l]) \intersect ToSet(batch[y][l]) = {}
          /\ l \in Names
      BY DEF IInv, ListInv, Names
    <3>2. CASE y = z /\ l = "add"
      BY <1>1, <1>4, <3>1, <3>2
    <3>3. CASE y # z \/ l # "add"
      BY <1>1, <1>4, <3>1, <3>3
    <3> QED
      BY <3>2, <3>3
  <2>2. \A x, y \in Zones : Pending(x, "add")' \intersect Pending(y, "add")' # {} => x = y
    BY <1>7 DEF IInv, ListInv, Names
  <2> QED
    BY <2>1, <2>2 DEF ListInv
<1>12. PresentInv'
  <2>1. ASSUME NEW y \in Zones, NEW b \in AIs, b # a
        PROVE  /\ b \in Pending(y, "add")' => \A x \in Zones : b \notin Present(x)'
               /\ b \in Present(y)' =>
                    \/ zoneOf'[b] = y
                    \/ zoneOf'[b] = NoZone /\ stage'[y] \in {"leave", "erase"} /\ Head(batch'[y].remove) = b
               /\ b \in Present(y)' => \A x \in Zones : b \in Present(x)' => x = y
    BY <1>1, <1>4, <1>6, <1>7, <2>1 DEF IInv, PresentInv, Names
  <2>2. \A y \in Zones : a \notin Pending(y, "add")' /\ (a \in Present(y)' => y = z)
    BY <1>2, <1>6, <1>7 DEF Names
  <2> QED
    BY <1>4, <2>1, <2>2 DEF PresentInv
<1>13. PendingInv'
  BY <1>1, <1>4, <1>6, <1>7 DEF IInv, PendingInv, Names
<1>14. UnwantedInv'
  BY <1>1, <1>4, <1>6, <1>7 DEF IInv, UnwantedInv, Names
<1>15. AddedIsThere' /\ NoGhosts'
  BY <1>1, <1>4, <1>6, <1>7 DEF IInv, AddedIsThere, NoGhosts, Names
<1> QED
  BY <1>8, <1>9, <1>10, <1>11, <1>12, <1>13, <1>14, <1>15 DEF IInv

LEMMA DetachIInv ==
  ASSUME Considerate, IInv, NEW z \in Zones, Detach(z)
  PROVE  IInv'
<1> DEFINE a == Head(batch[z].remove)
<1>1. /\ stage[z] = "apply" /\ batch[z].add = <<>> /\ batch[z].remove # <<>>
      /\ a \in AIs /\ a \in Pending(z, "remove") /\ a \in Present(z)
  <2>1. stage[z] = "apply" /\ batch[z].add = <<>> /\ batch[z].remove # <<>>
    BY DEF Detach
  <2> QED
    BY <2>1, HeadWaits, ShortLists DEF IInv, PendingInv
<1>2. Leaving(z) = a
  BY <1>1 DEF Leaving, Present
<1>3. /\ UNCHANGED <<ais, scheduled, batch, ticking, grouped, late, home>>
      /\ zoneOf' \in [AIs -> Zones \union {NoZone}] /\ zoneOf'[a] = NoZone
      /\ \A b \in AIs : b # a => zoneOf'[b] = zoneOf[b]
      /\ stage' \in [Zones -> {"idle", "apply", "leave", "erase", "tick"}]
      /\ stage'[z] = "leave"
      /\ \A y \in Zones : y # z => stage'[y] = stage[y]
  BY <1>1, <1>2, ZoneAssumption DEF Detach, Goto, IInv, TypeOK
<1>4. /\ \A y \in Zones : Present(y)' = Present(y)
      /\ \A y \in Zones, l \in Names : Pending(y, l)' = Pending(y, l)
  BY <1>3 DEF Present, Pending
<1>5. TypeOK' /\ OwnInv'
  BY <1>3 DEF IInv, TypeOK, OwnInv
<1>6. StageInv'
  BY <1>1, <1>3, <1>4 DEF IInv, StageInv
<1>7. ListInv'
  BY <1>3, <1>4 DEF IInv, ListInv, Names
<1>8. PresentInv'
  BY <1>1, <1>3, <1>4 DEF IInv, PresentInv, Names
<1>9. PendingInv' /\ UnwantedInv'
  BY <1>3, <1>4 DEF IInv, PendingInv, UnwantedInv, Names
<1>10. AddedIsThere' /\ NoGhosts'
  BY <1>3, <1>4 DEF IInv, AddedIsThere, NoGhosts, Names
<1> QED
  BY <1>5, <1>6, <1>7, <1>8, <1>9, <1>10 DEF IInv

LEMMA LeaveGroupsIInv ==
  ASSUME IInv, NEW z \in Zones, LeaveGroups(z)
  PROVE  IInv'
<1> DEFINE a == Head(batch[z].remove)
<1>1. stage[z] = "leave" /\ a \in Present(z) /\ Leaving(z) = a
  BY DEF LeaveGroups, IInv, StageInv, Leaving, Present
<1>2. /\ UNCHANGED <<ais, scheduled, batch, ticking, zoneOf, home>>
      /\ grouped' \in [Zones -> SUBSET AIs] /\ grouped'[z] = grouped[z] \ {a}
      /\ late' \in [Zones -> SUBSET AIs] /\ late'[z] = late[z] \ {a}
      /\ stage' \in [Zones -> {"idle", "apply", "leave", "erase", "tick"}]
      /\ stage'[z] = "erase"
      /\ \A y \in Zones : y # z => stage'[y] = stage[y] /\ grouped'[y] = grouped[y] /\ late'[y] = late[y]
  BY <1>1 DEF LeaveGroups, Goto, IInv, TypeOK
<1>3. /\ \A y \in Zones : Present(y)' = Present(y)
      /\ \A y \in Zones, l \in Names : Pending(y, l)' = Pending(y, l)
  BY <1>2 DEF Present, Pending
<1>4. TypeOK' /\ OwnInv'
  BY <1>2 DEF IInv, TypeOK, OwnInv
<1>5. StageInv'
  BY <1>1, <1>2, <1>3 DEF IInv, StageInv
<1>6. ListInv'
  BY <1>2, <1>3 DEF IInv, ListInv, Names
<1>7. PresentInv'
  BY <1>1, <1>2, <1>3 DEF IInv, PresentInv, Names
<1>8. PendingInv' /\ UnwantedInv'
  BY <1>2, <1>3 DEF IInv, PendingInv, UnwantedInv, Names
<1>9. AddedIsThere' /\ NoGhosts'
  BY <1>2, <1>3 DEF IInv, AddedIsThere, NoGhosts, Names
<1> QED
  BY <1>4, <1>5, <1>6, <1>7, <1>8, <1>9 DEF IInv

LEMMA EraseIInv ==
  ASSUME Considerate, IInv, NEW z \in Zones, Erase(z)
  PROVE  IInv'
<1> DEFINE a == Head(batch[z].remove)
<1>1. /\ stage[z] = "erase" /\ batch[z].add = <<>> /\ batch[z].remove # <<>> /\ ticking[z] = {}
      /\ a \in AIs /\ a \in Present(z) /\ a \in Pending(z, "remove") /\ a \in ToSet(batch[z].remove)
      /\ a \notin grouped[z] \ late[z] /\ home[a] = NoZone
      /\ Leaving(z) = a
  <2>1. /\ stage[z] = "erase" /\ batch[z].add = <<>> /\ batch[z].remove # <<>> /\ ticking[z] = {}
        /\ a \in Present(z) /\ a \notin grouped[z] \ late[z]
    BY DEF Erase, IInv, StageInv
  <2> QED
    BY <2>1, HeadWaits DEF IInv, PendingInv, Leaving, Present
<1>2. /\ batch' \in [Zones -> WaitingLists]
      /\ ToSet(batch[z].remove) = ToSet(batch'[z].remove) \union {a}
      /\ NoDup(batch'[z].remove) /\ a \notin ToSet(batch'[z].remove)
      /\ \A y \in Zones, l \in Names : y # z \/ l # "remove" => batch'[y][l] = batch[y][l]
  <2>1. TypeOK /\ "remove" \in Names /\ Drop(z, "remove") /\ NoDup(batch[z].remove)
    BY DEF IInv, ListInv, Erase, Names
  <2> QED
    BY <1>1, <2>1, DropChanges
<1>3. /\ UNCHANGED <<scheduled, ticking, zoneOf, grouped, late, home>>
      /\ stage' \in [Zones -> {"idle", "apply", "leave", "erase", "tick"}]
      /\ stage'[z] = "apply"
      /\ \A y \in Zones : y # z => stage'[y] = stage[y] /\ batch'[y] = batch[y]
  BY DEF Erase, Goto, Drop, IInv, TypeOK
<1>4. /\ ais' \in [Zones -> [CharIds -> AIs \union {NoAI}]]
      /\ ais'[z][CharOf[a]] = NoAI
      /\ \A y \in Zones, c \in CharIds : y # z \/ c # CharOf[a] => ais'[y][c] = ais[y][c]
  <2>1. ais' = [ais EXCEPT ![z][CharOf[a]] = NoAI] /\ CharOf[a] \in CharIds
    BY <1>1, ZoneAssumption DEF Erase
  <2> QED
    BY <2>1 DEF IInv, TypeOK
<1>5. /\ Present(z)' = Present(z) \ {a}
      /\ \A y \in Zones : y # z => Present(y)' = Present(y)
  BY <1>1, <1>4, ZoneAssumption DEF Present, Considerate
<1>6. /\ a \notin ToSet(scheduled[z].remove)
      /\ Pending(z, "remove") = Pending(z, "remove")' \union {a}
      /\ \A y \in Zones, l \in Names : y # z \/ l # "remove" => Pending(y, l)' = Pending(y, l)
  <2>1. a \notin ToSet(scheduled[z].remove)
    BY <1>1 DEF IInv, ListInv
  <2> QED
    BY <1>2, <1>3, <2>1 DEF Pending
<1> HIDE DEF a
<1>7. TypeOK'
  BY <1>2, <1>3, <1>4 DEF IInv, TypeOK
<1>8. OwnInv'
  BY <1>4, ZoneAssumption DEF IInv, OwnInv
<1>9. StageInv'
  BY <1>1, <1>3, <1>5 DEF IInv, StageInv
<1>10. ListInv'
  <2>1. ASSUME NEW y \in Zones, NEW l \in {"add", "remove"}
        PROVE  /\ NoDup(scheduled'[y][l]) /\ NoDup(batch'[y][l])
               /\ ToSet(scheduled'[y][l]) \intersect ToSet(batch'[y][l]) = {}
    <3>1. /\ NoDup(scheduled[y][l]) /\ NoDup(batch[y][l])
          /\ ToSet(scheduled[y][l]) \intersect ToSet(batch[y][l]) = {}
          /\ l \in Names
      BY DEF IInv, ListInv, Names
    <3>2. CASE y = z /\ l = "remove"
      BY <1>2, <1>3, <3>1, <3>2
    <3>3. CASE y # z \/ l # "remove"
      BY <1>2, <1>3, <3>1, <3>3
    <3> QED
      BY <3>2, <3>3
  <2>2. \A x, y \in Zones : Pending(x, "add")' \intersect Pending(y, "add")' # {} => x = y
    BY <1>6 DEF IInv, ListInv, Names
  <2> QED
    BY <2>1, <2>2 DEF ListInv
<1>11. PresentInv'
  <2>1. ASSUME NEW y \in Zones, NEW b \in AIs
        PROVE  /\ b \in Pending(y, "add")' => \A x \in Zones : b \notin Present(x)'
               /\ b \in Present(y)' => \A x \in Zones : b \in Present(x)' => x = y
    BY <1>5, <1>6 DEF IInv, PresentInv, Names
  <2>2. ASSUME NEW y \in Zones, NEW b \in Present(y)'
        PROVE  \/ zoneOf'[b] = y
               \/ zoneOf'[b] = NoZone /\ stage'[y] \in {"leave", "erase"} /\ Head(batch'[y].remove) = b
    <3>1. b \in AIs /\ b \in Present(y) /\ (y = z => b # a)
      BY <1>5, <2>2 DEF Present
    <3>2. \/ zoneOf[b] = y
          \/ zoneOf[b] = NoZone /\ stage[y] \in {"leave", "erase"} /\ Head(batch[y].remove) = b
      BY <3>1 DEF IInv, PresentInv
    <3>3. y = z => Head(batch[y].remove) # b
      BY <3>1 DEF a
    <3> QED
      BY <1>3, <3>2, <3>3
  <2> QED
    BY <2>1, <2>2 DEF PresentInv
<1>12. PendingInv'
  BY <1>1, <1>2, <1>3, <1>5, <1>6 DEF IInv, PendingInv, Names
<1>13. UnwantedInv'
  BY <1>1, <1>2, <1>3, <1>5, <1>6, ShortLists DEF IInv, UnwantedInv, Names
<1>14. AddedIsThere'
  BY <1>1, <1>3, <1>5, <1>6, ZoneAssumption DEF IInv, AddedIsThere, Names
<1>15. NoGhosts'
  BY <1>1, <1>3, <1>6 DEF IInv, NoGhosts, Names, TypeOK
<1> QED
  BY <1>7, <1>8, <1>9, <1>10, <1>11, <1>12, <1>13, <1>14, <1>15 DEF IInv

LEMMA DoDestroyIInv ==
  ASSUME Considerate, IInv, NEW z \in Zones, DoDestroy(z)
  PROVE  IInv'
<1> DEFINE c == Head(batch[z].destroy)
<1>1. /\ stage[z] = "apply" /\ batch[z].add = <<>> /\ batch[z].remove = <<>> /\ batch[z].destroy # <<>>
      /\ ticking[z] = {} /\ ToSet(batch[z].add) = {} /\ ToSet(batch[z].remove) = {}
  BY ShortLists DEF DoDestroy, IInv, StageInv
<1>2. /\ batch' \in [Zones -> WaitingLists]
      /\ c \in CharIds
      /\ ToSet(batch[z].destroy) = ToSet(batch'[z].destroy) \union {c}
      /\ \A y \in Zones, l \in Names : y # z \/ l # "destroy" => batch'[y][l] = batch[y][l]
  <2>1. TypeOK /\ "destroy" \in Names /\ Drop(z, "destroy")
    BY DEF IInv, DoDestroy, Names
  <2> QED
    BY <1>1, <2>1, DropChanges DEF Elements
<1>3. /\ UNCHANGED <<scheduled, stage, ticking, zoneOf, grouped, late, home>>
      /\ \A y \in Zones : y # z => batch'[y] = batch[y]
  BY DEF DoDestroy, Drop, IInv, TypeOK
<1>4. /\ ais' \in [Zones -> [CharIds -> AIs \union {NoAI}]]
      /\ ais'[z][c] = NoAI
      /\ \A y \in Zones, d \in CharIds : y # z \/ d # c => ais'[y][d] = ais[y][d]
  <2>1. ais' = [ais EXCEPT ![z][c] = NoAI]
    BY DEF DoDestroy
  <2> QED
    BY <1>2, <2>1 DEF IInv, TypeOK
<1>5. /\ Present(z)' = {a \in Present(z) : CharOf[a] # c}
      /\ \A y \in Zones : y # z => Present(y)' = Present(y)
  BY <1>2, <1>4, ZoneAssumption DEF Present
<1>6. /\ c \in Pending(z, "destroy")
      /\ Pending(z, "destroy") = Pending(z, "destroy")' \union {c}
      /\ \A y \in Zones, l \in Names : y # z \/ l # "destroy" => Pending(y, l)' = Pending(y, l)
  BY <1>2, <1>3 DEF Pending
<1>7. \A a \in AIs : CharOf[a] = c => home[a] = Destroyed
  BY <1>6 DEF IInv, PendingInv
<1> HIDE DEF c
<1>8. TypeOK'
  BY <1>2, <1>3, <1>4 DEF IInv, TypeOK
<1>9. OwnInv'
  BY <1>2, <1>4 DEF IInv, OwnInv
<1>10. StageInv'
  BY <1>1, <1>3, <1>5 DEF IInv, StageInv
<1>11. ListInv'
  BY <1>2, <1>3, <1>6 DEF IInv, ListInv, Names
<1>12. PresentInv'
  BY <1>1, <1>3, <1>5, <1>6 DEF IInv, PresentInv, Names
<1>13. PendingInv'
  BY <1>1, <1>2, <1>3, <1>5, <1>6, <1>7, ZoneAssumption DEF IInv, PendingInv, Names, Pending
<1>14. UnwantedInv'
  BY <1>1, <1>2, <1>3, <1>5, <1>6 DEF IInv, UnwantedInv, Names
<1>15. AddedIsThere' /\ NoGhosts'
  BY <1>1, <1>3, <1>5, <1>6, <1>7, ZoneAssumption DEF IInv, AddedIsThere, NoGhosts, Names
<1> QED
  BY <1>8, <1>9, <1>10, <1>11, <1>12, <1>13, <1>14, <1>15 DEF IInv

\* The steps that leave the lists and the map alone.
LEMMA TickIInv ==
  ASSUME IInv, NEW z \in Zones,
         StartTick(z) \/ UpdateGroups(z) \/ \E a \in AIs : FinishTask(z, a)
  PROVE  IInv'
<1>1. /\ UNCHANGED <<ais, scheduled, batch, zoneOf, grouped, late, home>>
      /\ stage' \in [Zones -> {"idle", "apply", "leave", "erase", "tick"}]
      /\ ticking' \in [Zones -> SUBSET AIs]
      /\ stage[z] \notin {"leave", "erase"} /\ stage'[z] \in {"idle", "tick"}
      /\ batch[z] = Lists!Empty
      /\ stage'[z] # "tick" => ticking'[z] = {}
      /\ ticking'[z] \subseteq Present(z)
      /\ \A y \in Zones : y # z => stage'[y] = stage[y] /\ ticking'[y] = ticking[y]
  <2>1. CASE StartTick(z)
    BY <2>1 DEF StartTick, Goto, IInv, TypeOK, Present
  <2>2. CASE UpdateGroups(z)
    BY <2>2 DEF UpdateGroups, Goto, IInv, TypeOK, StageInv
  <2>3. CASE \E a \in AIs : FinishTask(z, a)
    BY <2>3 DEF FinishTask, IInv, TypeOK, StageInv
  <2> QED
    BY <2>1, <2>2, <2>3
<1>2. /\ \A y \in Zones : Present(y)' = Present(y)
      /\ \A y \in Zones, l \in Names : Pending(y, l)' = Pending(y, l)
  BY <1>1 DEF Present, Pending
<1>3. TypeOK' /\ OwnInv'
  BY <1>1 DEF IInv, TypeOK, OwnInv
<1>4. StageInv'
  BY <1>1, <1>2 DEF IInv, StageInv
<1>5. ListInv' /\ PresentInv'
  <2>1. ListInv'
    BY <1>1, <1>2 DEF IInv, ListInv, Names
  <2>2. PresentInv'
    BY <1>1, <1>2 DEF IInv, PresentInv, Names
  <2> QED
    BY <2>1, <2>2
<1>6. PendingInv' /\ UnwantedInv'
  BY <1>1, <1>2 DEF IInv, PendingInv, UnwantedInv, Names
<1>7. AddedIsThere' /\ NoGhosts'
  BY <1>1, <1>2 DEF IInv, AddedIsThere, NoGhosts, Names
<1> QED
  BY <1>3, <1>4, <1>5, <1>6, <1>7 DEF IInv

LEMMA NextIInv ==
  ASSUME Considerate, IInv, [Next]_vars
  PROVE  IInv'
<1>1. ASSUME NEW z \in Zones, Update(z) PROVE IInv'
  BY <1>1, SwapIInv, DoAddIInv, DetachIInv, LeaveGroupsIInv, EraseIInv, DoDestroyIInv, TickIInv
     DEF Update
<1>2. ASSUME NEW z \in Zones, NEW s \in Lists!Items, AddAIs(z, s) \/ RemoveAIs(z, s) PROVE IInv'
  BY <1>2, AddAIsIInv, RemoveAIsIInv
<1>3. ASSUME NEW z \in Zones, NEW a \in AIs, DestroyAI(z, a) \/ Join(z, a) PROVE IInv'
  BY <1>3, DestroyAIIInv, JoinIInv
<1>4. CASE UNCHANGED vars
  <2>1. UNCHANGED <<ais, scheduled, batch, stage, ticking, zoneOf, grouped, late, home>>
    BY <1>4 DEF vars
  <2>2. /\ \A y \in Zones : Present(y)' = Present(y)
        /\ \A y \in Zones, l \in Names : Pending(y, l)' = Pending(y, l)
    BY <2>1 DEF Present, Pending
  <2>3. TypeOK' /\ OwnInv' /\ StageInv'
    BY <2>1, <2>2 DEF IInv, TypeOK, OwnInv, StageInv
  <2>4. ListInv'
    BY <2>1, <2>2 DEF IInv, ListInv, Names
  <2>5. PresentInv' /\ PendingInv' /\ UnwantedInv'
    BY <2>1, <2>2 DEF IInv, PresentInv, PendingInv, UnwantedInv, Names
  <2>6. AddedIsThere' /\ NoGhosts'
    BY <2>1, <2>2 DEF IInv, AddedIsThere, NoGhosts, Names
  <2> QED
    BY <2>3, <2>4, <2>5, <2>6 DEF IInv
<1> QED
  BY <1>1, <1>2, <1>3, <1>4 DEF Next

THEOREM Invariant == ASSUME Considerate PROVE Spec => []IInv
<1>1. Considerate /\ IInv /\ [Next]_vars => IInv'
  BY NextIInv
<1> QED
  BY InitIInv, <1>1, PTL DEF Spec

----------------------------------------------------------------------------
(* The theorems                                                            *)

\* An AI is ticked by the one zone it knows: its tree finds its zone, and no two
\* zones' threads are in AI::update of the same AI (AI.h:121, AI.h:285).
THEOREM AlwaysTickedAtHome == ASSUME Considerate PROVE Spec => []TickedAtHome
<1>1. IInv => TickedAtHome
  <2> SUFFICES ASSUME IInv PROVE TickedAtHome
    OBVIOUS
  <2>1. ASSUME NEW z \in Zones, NEW a \in ticking[z]
        PROVE  a \in AIs /\ a \in Present(z) /\ zoneOf[a] = z
    BY <2>1 DEF IInv, StageInv, PresentInv, Present
  <2>2. TickedHasZone
    BY <2>1 DEF TickedHasZone
  <2>3. TickedOnce
    BY <2>1 DEF TickedOnce
  <2> QED
    BY <2>2, <2>3 DEF TickedAtHome
<1> QED
  BY Invariant, <1>1, PTL

\* No addition and no removal that was scheduled is lost, however the calls fall
\* between the steps of an update (Zone.h:421).
THEOREM NoCallIsForgotten == ASSUME Considerate PROVE Spec => []NoneForgotten
<1>1. IInv => NoneForgotten
  <2> SUFFICES ASSUME IInv PROVE NoneForgotten
    OBVIOUS
  <2>1. RemovedIsGone
    BY DEF IInv, UnwantedInv, RemovedIsGone, Present
  <2> QED
    BY <2>1 DEF IInv, NoneForgotten
<1> QED
  BY Invariant, <1>1, PTL

\* An AI that left a zone with removeAI stays in none of its groups (Zone.h:377).
THEOREM GroupsHaveNoGhosts == ASSUME Considerate PROVE Spec => []NoGhosts
<1>1. IInv => NoGhosts
  BY DEF IInv
<1> QED
  BY Invariant, <1>1, PTL

----------------------------------------------------------------------------
(* Zone implements ZoneService, whoever its callers are: an update takes   *)
(* effect at once, although it applies its lists one element after the     *)
(* other.  What is found under an id is what its zone's map and the rest   *)
(* of the lists being applied make of it, and no step of the update        *)
(* changes that.                                                           *)

\* Where an update is, for any callers: nothing is left to apply outside it, and
\* whoever is leaving stays in the map until he is erased.
ApplyInv ==
  \A z \in Zones :
    /\ stage[z] \in {"idle", "tick"} => batch[z] = Lists!Empty
    /\ stage[z] \in {"leave", "erase"} =>
         batch[z].add = <<>> /\ batch[z].remove # <<>> /\ Leaving(z) # NoAI

RefInv == TypeOK /\ OwnInv /\ ApplyInv

Maps == [CharIds -> AIs \union {NoAI}]

Clears(lists, c) == c \in ToSet(lists.destroy) \/ \E a \in ToSet(lists.remove) : CharOf[a] = c

\* Who is found under an id when the lists are applied.
Finds(map, lists, c) ==
  IF Clears(lists, c) THEN NoAI
  ELSE IF map[c] # NoAI THEN map[c] ELSE Lists!Taker(lists.add, c)

Shown == [z \in Zones |-> Lists!Applied(ais[z], batch[z])]

LEMMA FirstOfTail ==
  ASSUME NEW s \in Seq(AIs), s # <<>>, NEW c
  PROVE  Lists!First(s, c) = IF CharOf[Head(s)] = c THEN {Head(s)} ELSE Lists!First(Tail(s), c)
<1>1. /\ Tail(s) \in Seq(AIs) /\ Head(s) \in AIs /\ Len(s) \in Nat \ {0}
      /\ DOMAIN s = 1 .. Len(s)
      /\ DOMAIN Tail(s) = 1 .. Len(s) - 1
      /\ \A i \in 1 .. Len(s) - 1 : Tail(s)[i] = s[i + 1]
      /\ Head(s) = s[1]
  OBVIOUS
<1>2. CASE CharOf[Head(s)] = c
  <2>1. Head(s) \in Lists!First(s, c)
    <3>1. 1 \in DOMAIN s /\ 1 .. (1 - 1) = {}
      BY <1>1
    <3> QED
      BY <1>1, <1>2, <3>1 DEF Lists!First
  <2>2. ASSUME NEW a \in Lists!First(s, c) PROVE a = Head(s)
    <3>1. PICK i \in 1 .. Len(s) : s[i] = a /\ \A j \in 1 .. (i - 1) : CharOf[s[j]] # c
      BY <1>1 DEF Lists!First
    <3>2. 1 \notin 1 .. (i - 1)
      BY <1>1, <1>2, <3>1
    <3> QED
      BY <1>1, <3>1, <3>2
  <2> QED
    BY <1>2, <2>1, <2>2
<1>3. CASE CharOf[Head(s)] # c
  <2>1. ASSUME NEW a \in Lists!First(s, c) PROVE a \in Lists!First(Tail(s), c)
    <3>1. PICK i \in 1 .. Len(s) :
            s[i] = a /\ CharOf[a] = c /\ \A j \in 1 .. (i - 1) : CharOf[s[j]] # c
      BY <1>1 DEF Lists!First
    <3>2. i # 1 /\ i - 1 \in 1 .. Len(s) - 1 /\ (i - 1) + 1 = i
      BY <1>1, <1>3, <3>1
    <3>3. \A j \in 1 .. ((i - 1) - 1) : CharOf[Tail(s)[j]] # c
      <4> SUFFICES ASSUME NEW j \in 1 .. ((i - 1) - 1) PROVE CharOf[Tail(s)[j]] # c
        OBVIOUS
      <4>1. j \in 1 .. Len(s) - 1 /\ j + 1 \in 1 .. (i - 1)
        BY <1>1, <3>2
      <4> QED
        BY <1>1, <3>1, <4>1
    <3>4. i - 1 \in DOMAIN Tail(s) /\ Tail(s)[i - 1] = a
      BY <1>1, <3>1, <3>2
    <3>5. a \in AIs
      BY DEF Lists!First
    <3> QED
      BY <3>1, <3>3, <3>4, <3>5 DEF Lists!First
  <2>2. ASSUME NEW a \in Lists!First(Tail(s), c) PROVE a \in Lists!First(s, c)
    <3>1. PICK i \in 1 .. Len(s) - 1 :
            Tail(s)[i] = a /\ CharOf[a] = c /\ \A j \in 1 .. (i - 1) : CharOf[Tail(s)[j]] # c
      BY <1>1 DEF Lists!First
    <3>2. \A j \in 1 .. ((i + 1) - 1) : CharOf[s[j]] # c
      <4> SUFFICES ASSUME NEW j \in 1 .. ((i + 1) - 1), j # 1 PROVE CharOf[s[j]] # c
        BY <1>1, <1>3
      <4>1. j - 1 \in 1 .. (i - 1) /\ j - 1 \in 1 .. Len(s) - 1 /\ (j - 1) + 1 = j
        BY <1>1
      <4> QED
        BY <1>1, <3>1, <4>1
    <3>3. i + 1 \in DOMAIN s /\ s[i + 1] = a
      BY <1>1, <3>1
    <3>4. a \in AIs
      BY DEF Lists!First
    <3> QED
      BY <3>1, <3>2, <3>3, <3>4 DEF Lists!First
  <2> QED
    BY <1>3, <2>1, <2>2
<1> QED
  BY <1>2, <1>3

LEMMA TakerOf ==
  /\ \A c : Lists!Taker(<<>>, c) = NoAI
  /\ \A s \in Seq(AIs) : \A c : s # <<>> =>
       Lists!Taker(s, c) = IF CharOf[Head(s)] = c THEN Head(s) ELSE Lists!Taker(Tail(s), c)
<1>1. ASSUME NEW c PROVE Lists!Taker(<<>>, c) = NoAI
  <2>1. Lists!First(<<>>, c) = {}
    BY DEF Lists!First
  <2> QED
    BY <2>1 DEF Lists!Taker
<1>2. ASSUME NEW s \in Seq(AIs), NEW c, s # <<>>
      PROVE  Lists!Taker(s, c) = IF CharOf[Head(s)] = c THEN Head(s) ELSE Lists!Taker(Tail(s), c)
  <2>1. CASE CharOf[Head(s)] = c
    <3>1. Lists!First(s, c) = {Head(s)}
      BY <1>2, <2>1, FirstOfTail
    <3> QED
      BY <2>1, <3>1 DEF Lists!Taker
  <2>2. CASE CharOf[Head(s)] # c
    <3>1. Lists!First(s, c) = Lists!First(Tail(s), c)
      BY <1>2, <2>2, FirstOfTail
    <3> QED
      BY <2>2, <3>1 DEF Lists!Taker
  <2> QED
    BY <2>1, <2>2
<1> QED
  BY <1>1, <1>2

\* The lists are applied id by id.
LEMMA AppliedAt ==
  ASSUME NEW map, NEW lists
  PROVE  Lists!Applied(map, lists) = [c \in CharIds |-> Finds(map, lists, c)]
<1> DEFINE added == Lists!Added(map, lists.add)
           removed == Lists!Removed(added, lists.remove)
<1>1. added = [c \in CharIds |-> IF map[c] # NoAI THEN map[c] ELSE Lists!Taker(lists.add, c)]
  BY DEF Lists!Added
<1>2. removed =
        [c \in CharIds |-> IF \E a \in ToSet(lists.remove) : CharOf[a] = c THEN NoAI ELSE added[c]]
  BY DEF Lists!Removed, Lists!Cleared, Lists!ToSet, ToSet
<1>3. Lists!Applied(map, lists) =
        [c \in CharIds |-> IF c \in ToSet(lists.destroy) THEN NoAI ELSE removed[c]]
  BY DEF Lists!Applied, Lists!Cleared, Lists!ToSet, ToSet
<1> HIDE DEF added, removed
<1> QED
  BY <1>1, <1>2, <1>3 DEF Finds, Clears

\* The service applies lists as the zone's own instance of it does.
LEMMA SameService ==
  ASSUME NEW map, NEW lists
  PROVE  Service!Applied(map, lists) = Lists!Applied(map, lists)
<1>1. \A list, c : Service!First(list, c) = Lists!First(list, c)
  BY Zenon DEF Service!First, Lists!First
<1>2. ASSUME NEW list, NEW c PROVE Service!Taker(list, c) = Lists!Taker(list, c)
  <2>1. Service!First(list, c) = Lists!First(list, c)
    BY <1>1
  <2> QED
    BY <2>1 DEF Service!Taker, Lists!Taker
<1>3. Service!Added(map, lists.add) = Lists!Added(map, lists.add)
  BY <1>2 DEF Service!Added, Lists!Added
<1> QED
  BY <1>3 DEF Service!Applied, Lists!Applied, Service!Removed, Lists!Removed,
              Service!Cleared, Lists!Cleared, Service!ToSet, Lists!ToSet

LEMMA NothingApplied ==
  ASSUME NEW map \in Maps PROVE Lists!Applied(map, Lists!Empty) = map
<1>1. ASSUME NEW c \in CharIds PROVE Finds(map, Lists!Empty, c) = map[c]
  BY NothingWaits, TakerOf DEF Finds, Clears, Names
<1> QED
  BY <1>1, AppliedAt DEF Maps


\* The zone's own steps: the rest of the lists shrinks as the map takes it in.
LEMMA OneLess ==
  ASSUME TypeOK, NEW z \in Zones, NEW list \in Names, batch[z][list] # <<>>, Drop(z, list)
  PROVE  /\ batch' \in [Zones -> WaitingLists]
         /\ batch'[z][list] = Tail(batch[z][list])
         /\ \A l \in Names : l # list => batch'[z][l] = batch[z][l]
         /\ \A y \in Zones : y # z => batch'[y] = batch[y]
<1>1. batch[z] \in WaitingLists
  BY DEF TypeOK
<1>2. batch' \in [Zones -> WaitingLists]
  BY DropChanges
<1>3. batch' = [batch EXCEPT ![z] = [batch[z] EXCEPT ![list] = Tail(batch[z][list])]]
  BY DEF Drop
<1>4. \A y \in Zones : y # z => batch'[y] = batch[y]
  BY <1>3 DEF TypeOK
<1>5. batch'[z] = [batch[z] EXCEPT ![list] = Tail(batch[z][list])]
  BY <1>3 DEF TypeOK
<1>6. DOMAIN batch[z] = Names
  BY <1>1 DEF WaitingLists, Names
<1>7. /\ batch'[z][list] = Tail(batch[z][list])
      /\ \A l \in Names : l # list => batch'[z][l] = batch[z][l]
  BY <1>5, <1>6
<1> QED
  BY <1>2, <1>4, <1>7

LEMMA ShownStays ==
  ASSUME NEW z \in Zones,
         \A c \in CharIds : Finds(ais'[z], batch'[z], c) = Finds(ais[z], batch[z], c),
         \A y \in Zones : y # z => ais'[y] = ais[y] /\ batch'[y] = batch[y]
  PROVE  Shown' = Shown
<1>1. Lists!Applied(ais'[z], batch'[z]) = Lists!Applied(ais[z], batch[z])
  BY AppliedAt
<1> QED
  BY <1>1 DEF Shown

LEMMA DoAddShows ==
  ASSUME RefInv, NEW z \in Zones, DoAdd(z) PROVE Shown' = Shown /\ TypeOK' /\ OwnInv'
<1> DEFINE a == Head(batch[z].add)
<1>1. batch[z].add # <<>> /\ Drop(z, "add") /\ "add" \in Names
  BY DEF DoAdd, Names
<1>2. batch[z].add \in Seq(AIs)
  BY DEF RefInv, TypeOK, WaitingLists
<1>3. a \in AIs /\ CharOf[a] \in CharIds
  BY <1>1, <1>2, ZoneAssumption
<1>4. /\ batch' \in [Zones -> WaitingLists]
      /\ batch'[z].add = Tail(batch[z].add)
      /\ batch'[z].remove = batch[z].remove /\ batch'[z].destroy = batch[z].destroy
      /\ \A y \in Zones : y # z => batch'[y] = batch[y]
  BY <1>1, OneLess DEF RefInv, Names
<1>5. UNCHANGED <<scheduled, stage, ticking, grouped, late, home>>
  BY DEF DoAdd
<1>6. \A c \in CharIds : Clears(batch'[z], c) = Clears(batch[z], c)
  BY <1>4 DEF Clears
<1>7. \A c : Lists!Taker(batch[z].add, c) = IF CharOf[a] = c THEN a ELSE Lists!Taker(batch'[z].add, c)
  BY <1>1, <1>2, <1>4, TakerOf
<1>8. CASE ais[z][CharOf[a]] # NoAI
  <2>1. UNCHANGED <<ais, zoneOf>>
    BY <1>8 DEF DoAdd
  <2>2. \A c \in CharIds : Finds(ais'[z], batch'[z], c) = Finds(ais[z], batch[z], c)
    BY <1>6, <1>7, <1>8, <2>1 DEF Finds
  <2> QED
    BY <1>4, <1>5, <2>1, <2>2, ShownStays DEF RefInv, TypeOK, OwnInv
<1>9. CASE ais[z][CharOf[a]] = NoAI
  <2>1. ais' = [ais EXCEPT ![z][CharOf[a]] = a] /\ zoneOf' = [zoneOf EXCEPT ![a] = z]
    BY <1>9 DEF DoAdd
  <2>2. /\ ais' \in [Zones -> [CharIds -> AIs \union {NoAI}]]
        /\ zoneOf' \in [AIs -> Zones \union {NoZone}]
        /\ ais'[z][CharOf[a]] = a
        /\ \A c \in CharIds : c # CharOf[a] => ais'[z][c] = ais[z][c]
        /\ \A y \in Zones : y # z => ais'[y] = ais[y]
    BY <1>3, <2>1 DEF RefInv, TypeOK
  <2>3. \A c \in CharIds : Finds(ais'[z], batch'[z], c) = Finds(ais[z], batch[z], c)
    BY <1>3, <1>6, <1>7, <1>9, <2>2, ZoneAssumption DEF Finds
  <2>4. OwnInv'
    BY <2>2 DEF RefInv, OwnInv
  <2>5. TypeOK'
    BY <1>4, <1>5, <2>2 DEF RefInv, TypeOK
  <2> QED
    BY <1>4, <2>2, <2>3, <2>4, <2>5, ShownStays
<1> QED
  BY <1>8, <1>9

\* The head of the removals is one of them.
LEMMA ClearsTail ==
  ASSUME TypeOK, NEW z \in Zones, batch[z].remove # <<>>
  PROVE  /\ Head(batch[z].remove) \in AIs
         /\ ToSet(batch[z].remove) = ToSet(Tail(batch[z].remove)) \union {Head(batch[z].remove)}
<1>1. batch[z].remove \in Seq(AIs)
  BY DEF TypeOK, WaitingLists
<1> QED
  BY <1>1, TailSet

LEMMA DropRemove ==
  ASSUME TypeOK, NEW z \in Zones, batch[z].add = <<>>, batch[z].remove # <<>>, Drop(z, "remove"),
         \A y \in Zones : y # z => ais'[y] = ais[y],
         \A c \in CharIds :
           ais'[z][c] = IF c = CharOf[Head(batch[z].remove)] THEN NoAI ELSE ais[z][c]
  PROVE  batch' \in [Zones -> WaitingLists] /\ Shown' = Shown
<1> DEFINE a == Head(batch[z].remove)
<1>1. /\ batch' \in [Zones -> WaitingLists]
      /\ batch'[z].add = <<>> /\ batch'[z].destroy = batch[z].destroy
      /\ batch'[z].remove = Tail(batch[z].remove)
      /\ \A y \in Zones : y # z => batch'[y] = batch[y]
  BY OneLess DEF Names
<1>2. a \in AIs /\ ToSet(batch[z].remove) = ToSet(batch'[z].remove) \union {a}
  BY <1>1, ClearsTail
<1>3. \A c \in CharIds : Clears(batch[z], c) <=> Clears(batch'[z], c) \/ c = CharOf[a]
  BY <1>1, <1>2 DEF Clears
<1>4. \A c \in CharIds : Finds(ais'[z], batch'[z], c) = Finds(ais[z], batch[z], c)
  <2> SUFFICES ASSUME NEW c \in CharIds
               PROVE  Finds(ais'[z], batch'[z], c) = Finds(ais[z], batch[z], c)
    OBVIOUS
  <2>1. Lists!Taker(batch[z].add, c) = NoAI /\ Lists!Taker(batch'[z].add, c) = NoAI
    BY <1>1, TakerOf
  <2> QED
    BY <1>3, <2>1 DEF Finds
<1> QED
  BY <1>1, <1>4, ShownStays

LEMMA DetachShows ==
  ASSUME RefInv, NEW z \in Zones, Detach(z) PROVE Shown' = Shown /\ TypeOK' /\ OwnInv'
<1> DEFINE a == Head(batch[z].remove)
<1>1. batch[z].add = <<>> /\ batch[z].remove # <<>>
  BY DEF Detach
<1>2. UNCHANGED <<ais, scheduled, ticking, grouped, late, home>> /\ OwnInv'
  BY DEF Detach, RefInv, OwnInv
<1>3. a \in AIs /\ CharOf[a] \in CharIds
  BY <1>1, ClearsTail, ZoneAssumption DEF RefInv
<1>4. CASE Leaving(z) = NoAI
  <2>1. Drop(z, "remove") /\ UNCHANGED <<stage, zoneOf>>
    BY <1>4 DEF Detach
  <2>2. \A c \in CharIds : ais'[z][c] = IF c = CharOf[a] THEN NoAI ELSE ais[z][c]
    BY <1>2, <1>4 DEF Leaving
  <2>3. batch' \in [Zones -> WaitingLists] /\ Shown' = Shown
    BY <1>1, <1>2, <2>1, <2>2, DropRemove DEF RefInv
  <2> QED
    BY <1>2, <2>1, <2>3 DEF RefInv, TypeOK
<1>5. CASE Leaving(z) # NoAI
  <2>1. /\ zoneOf' = [zoneOf EXCEPT ![Leaving(z)] = NoZone]
        /\ Goto(z, "leave") /\ UNCHANGED batch
    BY <1>5 DEF Detach
  <2>2. Shown' = Shown
    BY <1>2, <2>1 DEF Shown
  <2>3. Leaving(z) \in AIs
    BY <1>3, <1>5 DEF RefInv, TypeOK, Leaving
  <2>4. zoneOf' \in [AIs -> Zones \union {NoZone}]
    BY <2>1, <2>3 DEF RefInv, TypeOK
  <2>5. stage' \in [Zones -> {"idle", "apply", "leave", "erase", "tick"}]
    BY <2>1 DEF RefInv, TypeOK, Goto
  <2> QED
    BY <1>2, <2>1, <2>2, <2>4, <2>5 DEF RefInv, TypeOK
<1> QED
  BY <1>4, <1>5

LEMMA EraseShows ==
  ASSUME RefInv, NEW z \in Zones, Erase(z) PROVE Shown' = Shown /\ TypeOK' /\ OwnInv'
<1> DEFINE a == Head(batch[z].remove)
<1>1. batch[z].add = <<>> /\ batch[z].remove # <<>> /\ Leaving(z) # NoAI
  BY DEF Erase, RefInv, ApplyInv
<1>2. a \in AIs /\ CharOf[a] \in CharIds
  BY <1>1, ClearsTail, ZoneAssumption DEF RefInv
\* Who is found under the id of the removed has that id.
<1>3. CharOf[Leaving(z)] = CharOf[a]
  BY <1>1, <1>2 DEF RefInv, OwnInv, Leaving
<1>4. ais' = [ais EXCEPT ![z][CharOf[a]] = NoAI]
  BY <1>3 DEF Erase
<1>5. /\ ais' \in [Zones -> [CharIds -> AIs \union {NoAI}]]
      /\ \A y \in Zones : y # z => ais'[y] = ais[y]
      /\ \A c \in CharIds : ais'[z][c] = IF c = CharOf[a] THEN NoAI ELSE ais[z][c]
  BY <1>2, <1>4 DEF RefInv, TypeOK
<1>6. batch' \in [Zones -> WaitingLists] /\ Shown' = Shown
  BY <1>1, <1>5, DropRemove DEF RefInv, Erase
<1>7. OwnInv'
  BY <1>5 DEF RefInv, OwnInv
<1>8. stage' \in [Zones -> {"idle", "apply", "leave", "erase", "tick"}]
  BY DEF RefInv, TypeOK, Goto, Erase
<1> QED
  BY <1>5, <1>6, <1>7, <1>8 DEF Erase, RefInv, TypeOK

LEMMA DoDestroyShows ==
  ASSUME RefInv, NEW z \in Zones, DoDestroy(z) PROVE Shown' = Shown /\ TypeOK' /\ OwnInv'
<1> DEFINE d == Head(batch[z].destroy)
<1>1. batch[z].add = <<>> /\ batch[z].remove = <<>> /\ batch[z].destroy # <<>>
  BY DEF DoDestroy
<1>2. batch[z].destroy \in Seq(CharIds)
  BY DEF RefInv, TypeOK, WaitingLists
<1>3. d \in CharIds /\ ToSet(batch[z].destroy) = ToSet(Tail(batch[z].destroy)) \union {d}
  BY <1>1, <1>2, TailSet
<1>4. /\ batch' \in [Zones -> WaitingLists]
      /\ batch'[z].add = <<>> /\ batch'[z].remove = <<>>
      /\ batch'[z].destroy = Tail(batch[z].destroy)
      /\ \A y \in Zones : y # z => batch'[y] = batch[y]
  BY <1>1, OneLess DEF RefInv, DoDestroy, Names
<1>5. ais' = [ais EXCEPT ![z][d] = NoAI]
  BY DEF DoDestroy
<1>6. /\ ais' \in [Zones -> [CharIds -> AIs \union {NoAI}]]
      /\ \A y \in Zones : y # z => ais'[y] = ais[y]
      /\ \A c \in CharIds : ais'[z][c] = IF c = d THEN NoAI ELSE ais[z][c]
  BY <1>3, <1>5 DEF RefInv, TypeOK
<1>7. \A c \in CharIds : Clears(batch[z], c) <=> Clears(batch'[z], c) \/ c = d
  BY <1>1, <1>3, <1>4 DEF Clears
<1>8. \A c \in CharIds : Finds(ais'[z], batch'[z], c) = Finds(ais[z], batch[z], c)
  <2> SUFFICES ASSUME NEW c \in CharIds
               PROVE  Finds(ais'[z], batch'[z], c) = Finds(ais[z], batch[z], c)
    OBVIOUS
  <2>1. Lists!Taker(batch[z].add, c) = NoAI /\ Lists!Taker(batch'[z].add, c) = NoAI
    BY <1>1, <1>4, TakerOf
  <2> QED
    BY <1>6, <1>7, <2>1 DEF Finds
<1>9. Shown' = Shown
  BY <1>4, <1>6, <1>8, ShownStays
<1>10. OwnInv'
  BY <1>6 DEF RefInv, OwnInv
<1> QED
  BY <1>4, <1>6, <1>9, <1>10 DEF DoDestroy, RefInv, TypeOK

LEMMA QuietShows ==
  ASSUME RefInv, NEW z \in Zones,
         LeaveGroups(z) \/ StartTick(z) \/ UpdateGroups(z) \/ \E a \in AIs : FinishTask(z, a)
  PROVE  UNCHANGED <<Shown, scheduled>> /\ TypeOK' /\ OwnInv'
<1>1. UNCHANGED <<ais, batch, scheduled, zoneOf, home>>
  BY DEF LeaveGroups, StartTick, UpdateGroups, FinishTask
<1>2. Shown' = Shown /\ OwnInv'
  BY <1>1 DEF Shown, RefInv, OwnInv
<1>3. stage' \in [Zones -> {"idle", "apply", "leave", "erase", "tick"}]
  BY DEF LeaveGroups, StartTick, UpdateGroups, FinishTask, Goto, RefInv, TypeOK
<1>4. ticking' \in [Zones -> SUBSET AIs]
  BY DEF LeaveGroups, StartTick, UpdateGroups, FinishTask, Present, RefInv, TypeOK
<1>5. grouped' \in [Zones -> SUBSET AIs] /\ late' \in [Zones -> SUBSET AIs]
  BY DEF LeaveGroups, StartTick, UpdateGroups, FinishTask, RefInv, TypeOK
<1> QED
  BY <1>1, <1>2, <1>3, <1>4, <1>5 DEF RefInv, TypeOK

\* Taking the lists is the moment the update takes effect.
LEMMA SwapShows ==
  ASSUME RefInv, NEW z \in Zones, Swap(z) PROVE Service!Update(z) /\ TypeOK' /\ OwnInv'
<1>1. /\ batch' = [batch EXCEPT ![z] = scheduled[z]]
      /\ scheduled' = [scheduled EXCEPT ![z] = Lists!Empty]
      /\ UNCHANGED <<ais, ticking, zoneOf, grouped, late, home>>
      /\ batch[z] = Lists!Empty
  BY DEF Swap, RefInv, ApplyInv
<1>2. scheduled[z] \in WaitingLists /\ ais[z] \in Maps
  BY DEF RefInv, TypeOK, Maps
<1>3. Lists!Applied(ais[z], batch[z]) = ais[z]
  BY <1>1, <1>2, NothingApplied
<1>4. /\ batch'[z] = scheduled[z]
      /\ \A y \in Zones : y # z => batch'[y] = batch[y]
  BY <1>1 DEF RefInv, TypeOK
<1>5. Shown' = [Shown EXCEPT ![z] = Lists!Applied(ais[z], scheduled[z])]
  <2>1. Shown' = [y \in Zones |-> IF y = z THEN Lists!Applied(ais[z], scheduled[z]) ELSE Shown[y]]
    BY <1>1, <1>4 DEF Shown
  <2>2. DOMAIN Shown = Zones
    BY DEF Shown
  <2> QED
    BY <2>1, <2>2
<1>6. Shown' = [Shown EXCEPT ![z] = Service!Applied(Shown[z], scheduled[z])]
  <2>1. Shown[z] = ais[z]
    BY <1>3 DEF Shown
  <2> QED
    BY <1>5, <2>1, SameService
<1>7. Service!Update(z)
  <2>1. scheduled' = [scheduled EXCEPT ![z] = Service!Empty]
    BY <1>1 DEF Service!Empty, Lists!Empty
  <2> QED
    BY <1>6, <2>1 DEF Service!Update, Shown
<1>8. batch' \in [Zones -> WaitingLists] /\ scheduled' \in [Zones -> WaitingLists]
  BY <1>1, <1>2, NothingWaits DEF RefInv, TypeOK
<1>9. stage' \in [Zones -> {"idle", "apply", "leave", "erase", "tick"}]
  BY DEF Swap, Goto, RefInv, TypeOK
<1> QED
  BY <1>1, <1>7, <1>8, <1>9 DEF RefInv, TypeOK, OwnInv

LEMMA CallShows ==
  ASSUME RefInv, NEW z \in Zones, NEW list \in Names, NEW items \in Seq(Elements(list)),
         Schedule(z, list, items),
         home' \in [AIs -> Zones \union {NoZone, Destroyed}]
  PROVE  Service!Schedule(z, list, items) /\ RefInv'
<1>1. UNCHANGED <<ais, batch, stage, ticking, zoneOf, grouped, late>>
  BY DEF Schedule
<1>2. scheduled' \in [Zones -> WaitingLists]
  BY ScheduleChanges DEF RefInv
<1>3. Shown' = Shown
  BY <1>1 DEF Shown
<1>4. Service!Schedule(z, list, items)
  BY <1>3 DEF Schedule, Service!Schedule, Shown
<1>5. TypeOK'
  BY <1>1, <1>2 DEF RefInv, TypeOK
<1>6. OwnInv' /\ ApplyInv'
  BY <1>1 DEF RefInv, OwnInv, ApplyInv, Leaving
<1> QED
  BY <1>4, <1>5, <1>6 DEF RefInv

LEMMA CallersShow ==
  ASSUME RefInv, NEW z \in Zones,
         \/ \E s \in Lists!Items : AddAIs(z, s) \/ RemoveAIs(z, s)
         \/ \E a \in AIs : DestroyAI(z, a)
  PROVE  Service!Next /\ RefInv'
<1>1. ASSUME NEW items, NEW place \in Zones \union {NoZone, Destroyed}, Want(items, place)
      PROVE  home' \in [AIs -> Zones \union {NoZone, Destroyed}]
  BY <1>1 DEF Want, RefInv, TypeOK
<1>2. Lists!Items = Service!Items
  BY DEF Lists!Items, Service!Items
<1>3. CASE \E s \in Lists!Items : AddAIs(z, s)
  <2>1. PICK s \in Lists!Items : AddAIs(z, s)
    BY <1>3
  <2>2. "add" \in Names /\ s \in Seq(Elements("add"))
    BY ShortLists DEF Names, Elements
  <2>3. Schedule(z, "add", s) /\ home' \in [AIs -> Zones \union {NoZone, Destroyed}]
    BY <1>1, <2>1 DEF AddAIs
  <2>4. Service!Schedule(z, "add", s) /\ RefInv'
    BY <2>2, <2>3, CallShows
  <2> QED
    BY <1>2, <2>4 DEF Service!Next
<1>4. CASE \E s \in Lists!Items : RemoveAIs(z, s)
  <2>1. PICK s \in Lists!Items : RemoveAIs(z, s)
    BY <1>4
  <2>2. "remove" \in Names /\ s \in Seq(Elements("remove"))
    BY ShortLists DEF Names, Elements
  <2>3. Schedule(z, "remove", s) /\ home' \in [AIs -> Zones \union {NoZone, Destroyed}]
    BY <1>1, <2>1 DEF RemoveAIs
  <2>4. Service!Schedule(z, "remove", s) /\ RefInv'
    BY <2>2, <2>3, CallShows
  <2> QED
    BY <1>2, <2>4 DEF Service!Next
<1>5. CASE \E a \in AIs : DestroyAI(z, a)
  <2>1. PICK a \in AIs : DestroyAI(z, a)
    BY <1>5
  <2>2. CharOf[a] \in CharIds
    BY ZoneAssumption
  <2>3. "destroy" \in Names /\ <<CharOf[a]>> \in Seq(Elements("destroy"))
    BY <2>2 DEF Names, Elements
  <2>4. Schedule(z, "destroy", <<CharOf[a]>>) /\ home' \in [AIs -> Zones \union {NoZone, Destroyed}]
    BY <1>1, <2>1 DEF DestroyAI
  <2>5. Service!Schedule(z, "destroy", <<CharOf[a]>>) /\ RefInv'
    BY <2>3, <2>4, CallShows
  <2> QED
    BY <2>2, <2>5 DEF Service!Next
<1> QED
  BY <1>3, <1>4, <1>5

LEMMA JoinShows ==
  ASSUME RefInv, NEW z \in Zones, NEW a \in AIs, Join(z, a)
  PROVE  UNCHANGED <<Shown, scheduled>> /\ RefInv'
<1>1. UNCHANGED <<ais, scheduled, batch, stage, ticking, zoneOf, home>>
  BY DEF Join
<1>2. Shown' = Shown
  BY <1>1 DEF Shown
<1>3. grouped' \in [Zones -> SUBSET AIs] /\ late' \in [Zones -> SUBSET AIs]
  BY DEF Join, RefInv, TypeOK
<1>4. TypeOK'
  BY <1>1, <1>3 DEF RefInv, TypeOK
<1> QED
  BY <1>1, <1>2, <1>4 DEF RefInv, OwnInv, ApplyInv, Leaving

\* Whatever a zone's update does, another zone's is where it was.
LEMMA OtherZones ==
  ASSUME RefInv, NEW z \in Zones, Update(z), NEW y \in Zones, y # z
  PROVE  ais'[y] = ais[y] /\ batch'[y] = batch[y] /\ stage'[y] = stage[y]
<1>1. stage'[y] = stage[y]
  BY DEF Update, Swap, DoAdd, Detach, LeaveGroups, Erase, DoDestroy, StartTick, UpdateGroups,
         FinishTask, Goto, RefInv, TypeOK
<1>2. ais'[y] = ais[y]
  BY DEF Update, Swap, DoAdd, Detach, LeaveGroups, Erase, DoDestroy, StartTick, UpdateGroups,
         FinishTask, RefInv, TypeOK
<1>3. batch'[y] = batch[y]
  BY DEF Update, Swap, DoAdd, Detach, LeaveGroups, Erase, DoDestroy, StartTick, UpdateGroups,
         FinishTask, Drop, RefInv, TypeOK
<1> QED
  BY <1>1, <1>2, <1>3

LEMMA UpdateApplyInv ==
  ASSUME RefInv, NEW z \in Zones, Update(z) PROVE ApplyInv'
<1> DEFINE At(y) ==
      /\ stage[y] \in {"idle", "tick"} => batch[y] = Lists!Empty
      /\ stage[y] \in {"leave", "erase"} =>
           batch[y].add = <<>> /\ batch[y].remove # <<>> /\ Leaving(y) # NoAI
<1>1. ASSUME NEW y \in Zones, y # z PROVE At(y)'
  BY <1>1, OtherZones DEF RefInv, ApplyInv, Leaving
<1>2. At(z)'
  <2>1. CASE Swap(z) \/ DoAdd(z) \/ Erase(z) \/ DoDestroy(z)
    <3>1. stage'[z] = "apply"
      BY <2>1 DEF Swap, DoAdd, Erase, DoDestroy, Goto, RefInv, TypeOK
    <3> QED
      BY <3>1
  <2>2. CASE Detach(z)
    <3>1. CASE Leaving(z) = NoAI
      BY <2>2, <3>1 DEF Detach
    <3>2. CASE Leaving(z) # NoAI
      <4>1. stage'[z] = "leave" /\ UNCHANGED <<ais, batch>>
        BY <2>2, <3>2 DEF Detach, Goto, RefInv, TypeOK
      <4>2. batch[z].add = <<>> /\ batch[z].remove # <<>>
        BY <2>2 DEF Detach
      <4> QED
        BY <3>2, <4>1, <4>2 DEF Leaving
    <3> QED
      BY <3>1, <3>2
  <2>3. CASE LeaveGroups(z)
    <3>1. stage[z] = "leave" /\ stage'[z] = "erase" /\ UNCHANGED <<ais, batch>>
      BY <2>3 DEF LeaveGroups, Goto, RefInv, TypeOK
    <3> QED
      BY <3>1 DEF RefInv, ApplyInv, Leaving
  <2>4. CASE StartTick(z) \/ UpdateGroups(z)
    <3>1. /\ batch[z] = Lists!Empty /\ UNCHANGED batch
          /\ stage'[z] \in {"tick", "idle"}
      BY <2>4 DEF StartTick, UpdateGroups, Goto, RefInv, TypeOK, ApplyInv
    <3> QED
      BY <3>1
  <2>5. CASE \E a \in AIs : FinishTask(z, a)
    <3>1. UNCHANGED <<ais, batch, stage>>
      BY <2>5 DEF FinishTask
    <3> QED
      BY <3>1 DEF RefInv, ApplyInv, Leaving
  <2> QED
    BY <2>1, <2>2, <2>3, <2>4, <2>5 DEF Update
<1> QED
  BY <1>1, <1>2 DEF ApplyInv

LEMMA ZoneRefines == RefInv /\ [Next]_vars => [Service!Next]_(Service!vars) /\ RefInv'
<1> SUFFICES ASSUME RefInv, [Next]_vars PROVE [Service!Next]_(Service!vars) /\ RefInv'
  OBVIOUS
<1>1. UNCHANGED <<Shown, scheduled>> => UNCHANGED Service!vars
  BY DEF Service!vars, Shown
<1>2. ASSUME NEW z \in Zones, Update(z) PROVE [Service!Next]_(Service!vars) /\ RefInv'
  <2>1. CASE Swap(z)
    <3>1. Service!Update(z) /\ TypeOK' /\ OwnInv'
      BY <2>1, SwapShows
    <3> QED
      BY <1>2, <3>1, UpdateApplyInv DEF Service!Next, RefInv
  <2>2. CASE ~ Swap(z)
    <3>1. Shown' = Shown /\ TypeOK' /\ OwnInv'
      BY <1>2, <2>2, DoAddShows, DetachShows, EraseShows, DoDestroyShows, QuietShows DEF Update
    <3>2. UNCHANGED scheduled
      BY <1>2, <2>2
         DEF Update, DoAdd, Detach, LeaveGroups, Erase, DoDestroy, StartTick, UpdateGroups, FinishTask
    <3> QED
      BY <1>1, <1>2, <3>1, <3>2, UpdateApplyInv DEF RefInv
  <2> QED
    BY <2>1, <2>2
<1>3. ASSUME NEW z \in Zones, NEW s \in Lists!Items, AddAIs(z, s) \/ RemoveAIs(z, s)
      PROVE  Service!Next /\ RefInv'
  BY <1>3, CallersShow
<1>4. ASSUME NEW z \in Zones, NEW a \in AIs, DestroyAI(z, a) PROVE Service!Next /\ RefInv'
  BY <1>4, CallersShow
<1>5. ASSUME NEW z \in Zones, NEW a \in AIs, Join(z, a)
      PROVE  UNCHANGED Service!vars /\ RefInv'
  BY <1>1, <1>5, JoinShows
<1>6. CASE UNCHANGED vars
  <2>1. UNCHANGED <<ais, scheduled, batch, stage, ticking, zoneOf, grouped, late, home>>
    BY <1>6 DEF vars
  <2>2. Shown' = Shown
    BY <2>1 DEF Shown
  <2>3. TypeOK'
    BY <2>1 DEF RefInv, TypeOK
  <2>4. OwnInv' /\ ApplyInv'
    BY <2>1 DEF RefInv, OwnInv, ApplyInv, Leaving
  <2> QED
    BY <1>1, <2>1, <2>2, <2>3, <2>4 DEF RefInv
<1> QED
  BY <1>2, <1>3, <1>4, <1>5, <1>6 DEF Next

LEMMA InitRefines == Init => RefInv /\ Service!Init
<1> SUFFICES ASSUME Init PROVE RefInv /\ Service!Init
  OBVIOUS
<1>1. TypeOK /\ OwnInv
  BY InitIInv DEF IInv
<1>2. ApplyInv
  BY DEF Init, ApplyInv
<1>3. /\ ais = [z \in Zones |-> Lists!NoOne] /\ batch = [z \in Zones |-> Lists!Empty]
      /\ scheduled = [z \in Zones |-> Lists!Empty]
  BY DEF Init
<1>4. Lists!NoOne \in Maps
  BY DEF Lists!NoOne, Maps
<1>5. Shown = [z \in Zones |-> Lists!NoOne]
  BY <1>3, <1>4, NothingApplied DEF Shown
<1>6. Lists!NoOne = Service!NoOne /\ Lists!Empty = Service!Empty
  BY DEF Lists!NoOne, Service!NoOne, Lists!Empty, Service!Empty
<1> QED
  BY <1>1, <1>2, <1>3, <1>5, <1>6 DEF RefInv, Service!Init, Shown

\* An update takes effect at once, for every caller, patient or not, and also when
\* AIs share an id: whoever looks an AI up sees all of what was scheduled, the
\* additions first, or nothing of it (Zone.h:415-438).
THEOREM UpdatesAreAtomic == Spec => ServiceSpec
<1>1. Init => RefInv /\ Service!Init
  BY InitRefines
<1>2. RefInv /\ [Next]_vars => [Service!Next]_(Service!vars) /\ RefInv'
  BY ZoneRefines
<1> QED
  BY <1>1, <1>2, PTL DEF Spec, ServiceSpec, Service!Spec

----------------------------------------------------------------------------
(* The thread pool of a zone, for any number of workers, clients and       *)
(* tasks.  The pool without workers is the exception: it never drains its  *)
(* queue, and std::thread::hardware_concurrency may well ask for it.       *)

Elems(s) == {s[i] : i \in DOMAIN s}

\* Who is in the critical section, who has a task, who sleeps.
ControlInv ==
  /\ \A w \in Workers : pc[w] \in {"test", "block", "take"} <=> mutex = w
  /\ \A w \in Workers : task[w] # NoTask <=> pc[w] = "run"
  /\ \A w \in Workers : w \in asleep <=> pc[w] = "asleep"
  /\ mutex \notin Clients

PlaceInv ==
  /\ \A j \in Tasks : j \in fresh \/ j \in Elems(tasks) \/ j \in done \/ \E w \in Workers : task[w] = j
  /\ \A j \in fresh : j \notin Elems(tasks) /\ j \notin done /\ \A w \in Workers : task[w] # j
  /\ \A j \in Elems(tasks) : j \notin done /\ \A w \in Workers : task[w] # j
  /\ \A w \in Workers : task[w] \notin done
  /\ NoDup(tasks)
  /\ \A v, w \in Workers : task[v] = task[w] /\ task[v] # NoTask => v = w

\* A worker leaves when it was told to and sees an empty queue; one that runs a
\* task may still add to the queue, and then it comes back for it.
StopInv ==
  /\ stop <=> destructor # "none"
  /\ \A w \in Workers : pc[w] = "take" => stop \/ tasks # <<>>
  /\ \A w \in Workers : pc[w] = "exited" => stop
  /\ Workers # {} /\ (\A w \in Workers : pc[w] = "exited") => tasks = <<>>
  /\ destructor = "gone" => \A w \in Workers : pc[w] = "exited"

PoolIInv == PoolTypeOK /\ ControlInv /\ PlaceInv /\ StopInv

----------------------------------------------------------------------------
(* Sequences                                                               *)

LEMMA AppendElems ==
  ASSUME NEW S, NEW s \in Seq(S), NEW e \in S
  PROVE  /\ Append(s, e) \in Seq(S)
         /\ Append(s, e) # <<>>
         /\ Elems(Append(s, e)) = Elems(s) \union {e}
         /\ NoDup(s) /\ e \notin Elems(s) => NoDup(Append(s, e))
<1>1. Append(s, e) \in Seq(S) /\ Append(s, e) # <<>>
  <2>1. Append(s, e) \in Seq(S) /\ Len(Append(s, e)) = Len(s) + 1 /\ Len(s) \in Nat
    OBVIOUS
  <2>2. Len(s) + 1 # Len(<<>>)
    BY <2>1
  <2> QED
    BY <2>1, <2>2
<1>2. /\ DOMAIN s = 1 .. Len(s)
      /\ DOMAIN Append(s, e) = 1 .. Len(s) + 1
      /\ \A i \in 1 .. Len(s) : Append(s, e)[i] = s[i]
      /\ Append(s, e)[Len(s) + 1] = e
  OBVIOUS
<1>3. Elems(Append(s, e)) = Elems(s) \union {e}
  BY <1>2 DEF Elems
<1>4. NoDup(s) /\ e \notin Elems(s) => NoDup(Append(s, e))
  BY <1>2 DEF Elems, NoDup
<1> QED
  BY <1>1, <1>3, <1>4

LEMMA TailElems ==
  ASSUME NEW S, NEW s \in Seq(S), s # <<>>, NoDup(s)
  PROVE  /\ Tail(s) \in Seq(S)
         /\ Head(s) \in S
         /\ Head(s) \in Elems(s)
         /\ Elems(Tail(s)) = Elems(s) \ {Head(s)}
         /\ NoDup(Tail(s))
<1>1. Tail(s) \in Seq(S) /\ Head(s) \in S /\ Len(s) \in Nat \ {0}
  OBVIOUS
<1>2. /\ DOMAIN s = 1 .. Len(s)
      /\ DOMAIN Tail(s) = 1 .. Len(s) - 1
      /\ \A i \in 1 .. Len(s) - 1 : Tail(s)[i] = s[i + 1]
      /\ Head(s) = s[1]
  OBVIOUS
<1>3. Head(s) \in Elems(s)
  BY <1>1, <1>2 DEF Elems
<1>4. NoDup(Tail(s))
  BY <1>1, <1>2 DEF NoDup
<1>5. ASSUME NEW e \in Elems(Tail(s)) PROVE e \in Elems(s) \ {Head(s)}
  BY <1>1, <1>2 DEF Elems, NoDup
<1>6. ASSUME NEW e \in Elems(s) \ {Head(s)} PROVE e \in Elems(Tail(s))
  <2>1. PICK i \in 1 .. Len(s) : e = s[i]
    BY <1>2 DEF Elems
  <2>2. i # 1 /\ i - 1 \in 1 .. Len(s) - 1 /\ i = (i - 1) + 1
    BY <1>1, <1>2, <2>1
  <2>3. Tail(s)[i - 1] = s[i]
    BY <1>2, <2>2
  <2> QED
    BY <1>2, <2>1, <2>2, <2>3 DEF Elems
<1> QED
  BY <1>1, <1>3, <1>4, <1>5, <1>6

----------------------------------------------------------------------------
(* The invariant                                                           *)

LEMMA InitPoolIInv == PoolInit => PoolIInv
<1> SUFFICES ASSUME PoolInit PROVE PoolIInv
  OBVIOUS
<1> USE ThreadsAssumption DEF PoolInit, Callers
<1>1. PoolTypeOK
  <2>1. tasks \in Seq(Tasks)
    OBVIOUS
  <2>2. /\ pc \in [Workers -> {"lock", "test", "block", "asleep", "take", "run", "exited"}]
        /\ task \in [Workers -> Tasks \union {NoTask}]
    OBVIOUS
  <2> QED
    BY <2>1, <2>2 DEF PoolTypeOK
<1>2. ControlInv
  BY DEF ControlInv
<1>3. PlaceInv
  BY DEF PlaceInv, Elems, NoDup
<1>4. StopInv
  BY DEF StopInv
<1> QED
  BY <1>1, <1>2, <1>3, <1>4 DEF PoolIInv

\* The steps that leave the tasks where they are.
LEMMA WorkerIInv ==
  ASSUME PoolIInv, NEW w \in Workers, Lock(w) \/ Test(w) \/ Block(w) \/ WakeSpuriously(w)
  PROVE  PoolIInv'
<1> USE ThreadsAssumption DEF PoolIInv, Lock, Test, Block, WakeSpuriously, MoveTo
<1>1. UNCHANGED <<tasks, stop, task, notify, fresh, done, destructor>>
  OBVIOUS
<1>2. /\ mutex' \in Workers \union {NoThread}
      /\ asleep' \subseteq Workers
      /\ pc' \in [Workers -> {"lock", "test", "block", "asleep", "take", "run", "exited"}]
  BY DEF PoolTypeOK
<1>3. PoolTypeOK'
  BY <1>1, <1>2 DEF PoolTypeOK
<1>4. ControlInv'
  BY DEF PoolTypeOK, ControlInv
<1>5. PlaceInv'
  BY <1>1 DEF PlaceInv, Elems, NoDup
<1>6. StopInv'
  BY DEF PoolTypeOK, ControlInv, StopInv
<1> QED
  BY <1>3, <1>4, <1>5, <1>6

LEMMA NotifyIInv == ASSUME PoolIInv, NEW c \in Callers, Notify(c) PROVE PoolIInv'
<1> USE ThreadsAssumption DEF PoolIInv, Notify, MoveTo
<1>1. UNCHANGED <<tasks, stop, mutex, task, fresh, done, destructor>>
  OBVIOUS
<1>2. PoolTypeOK'
  BY <1>1 DEF PoolTypeOK, Callers
<1>3. ControlInv'
  BY DEF PoolTypeOK, ControlInv
<1>4. PlaceInv'
  BY <1>1 DEF PlaceInv, Elems, NoDup
<1>5. StopInv'
  BY DEF PoolTypeOK, ControlInv, StopInv
<1> QED
  BY <1>2, <1>3, <1>4, <1>5

LEMMA DestroyIInv == ASSUME PoolIInv, Destroy PROVE PoolIInv'
<1> USE ThreadsAssumption DEF PoolIInv, Destroy, Stop, NotifyAll, JoinAll
<1>1. UNCHANGED <<tasks, mutex, task, notify, fresh, done>>
  OBVIOUS
<1>2. PoolTypeOK'
  BY <1>1 DEF PoolTypeOK, Callers
<1>3. ControlInv'
  BY DEF PoolTypeOK, ControlInv
<1>4. PlaceInv'
  BY <1>1 DEF PlaceInv, Elems, NoDup
<1>5. StopInv'
  BY DEF PoolTypeOK, ControlInv, StopInv
<1> QED
  BY <1>2, <1>3, <1>4, <1>5

LEMMA TakeIInv == ASSUME PoolIInv, NEW w \in Workers, Take(w) PROVE PoolIInv'
<1> USE ThreadsAssumption DEF PoolIInv
<1>1. CASE stop /\ tasks = <<>>
  <2> USE <1>1 DEF Take, MoveTo
  <2>1. PoolTypeOK' /\ ControlInv'
    BY DEF PoolTypeOK, ControlInv, Callers
  <2>2. PlaceInv'
    BY DEF PlaceInv, Elems, NoDup
  <2>3. StopInv'
    BY DEF PoolTypeOK, ControlInv, StopInv
  <2> QED
    BY <2>1, <2>2, <2>3
<1>2. CASE ~(stop /\ tasks = <<>>)
  <2>1. /\ tasks # <<>> /\ tasks \in Seq(Tasks) /\ pc[w] = "take" /\ task[w] = NoTask
        /\ tasks' = Tail(tasks)
        /\ task' = [task EXCEPT ![w] = Head(tasks)]
        /\ pc' = [pc EXCEPT ![w] = "run"]
        /\ mutex' = NoThread
        /\ UNCHANGED <<stop, asleep, notify, fresh, done, destructor>>
    BY <1>2 DEF Take, MoveTo, PoolTypeOK, ControlInv, StopInv
  <2>2. /\ Tail(tasks) \in Seq(Tasks) /\ Head(tasks) \in Tasks
        /\ Head(tasks) \in Elems(tasks)
        /\ Elems(tasks') = Elems(tasks) \ {Head(tasks)}
        /\ NoDup(tasks')
    BY <2>1, TailElems DEF PlaceInv
  <2>3. PoolTypeOK'
    BY <2>1, <2>2 DEF PoolTypeOK, Callers
  <2>4. ControlInv'
    BY <2>1, <2>2 DEF PoolTypeOK, ControlInv
  <2>5. \A v \in Workers : task'[v] = IF v = w THEN Head(tasks) ELSE task[v]
    BY <2>1 DEF PoolTypeOK
  <2>6. PlaceInv'
    BY <2>1, <2>2, <2>5 DEF PlaceInv
  <2>7. StopInv'
    BY <2>1 DEF PoolTypeOK, ControlInv, StopInv
  <2> QED
    BY <2>3, <2>4, <2>6, <2>7
<1> QED
  BY <1>1, <1>2

LEMMA FinishIInv == ASSUME PoolIInv, NEW w \in Workers, Finish(w) PROVE PoolIInv'
<1> USE ThreadsAssumption DEF PoolIInv, Finish, MoveTo
<1>1. task[w] \in Tasks
  BY DEF PoolTypeOK, ControlInv
<1>2. PoolTypeOK'
  BY <1>1 DEF PoolTypeOK, Callers
<1>3. ControlInv'
  BY DEF PoolTypeOK, ControlInv
<1>4. \A v \in Workers : task'[v] = IF v = w THEN NoTask ELSE task[v]
  BY DEF PoolTypeOK
<1>5. Elems(tasks) \subseteq Tasks
  BY DEF PoolTypeOK, Elems
<1>6. PlaceInv'
  BY <1>1, <1>4, <1>5 DEF PoolTypeOK, PlaceInv
<1>7. StopInv'
  BY DEF PoolTypeOK, StopInv
<1> QED
  BY <1>2, <1>3, <1>6, <1>7

LEMMA EnqueueIInv ==
  ASSUME PoolIInv, NEW c \in Callers, NEW new \in Tasks, Enqueue(c, new)
  PROVE  PoolIInv'
<1> USE ThreadsAssumption DEF PoolIInv, Enqueue
<1>1. /\ tasks' \in Seq(Tasks) /\ tasks' # <<>>
      /\ Elems(tasks') = Elems(tasks) \union {new}
      /\ NoDup(tasks')
  <2>1. tasks \in Seq(Tasks) /\ NoDup(tasks) /\ new \notin Elems(tasks)
    BY DEF PoolTypeOK, PlaceInv
  <2> QED
    BY <2>1, AppendElems
<1>2. PoolTypeOK'
  BY <1>1 DEF PoolTypeOK
<1>3. ControlInv'
  BY DEF ControlInv
<1>4. PlaceInv'
  BY <1>1 DEF PoolTypeOK, PlaceInv
<1>5. StopInv'
  <2>1. ~(\A w \in Workers : pc[w] = "exited") \/ Workers = {}
    BY DEF MayEnqueue, Callers, StopInv, PoolTypeOK
  <2> QED
    BY <1>1, <2>1 DEF StopInv
<1> QED
  BY <1>2, <1>3, <1>4, <1>5

LEMMA InductivePoolIInv == PoolIInv /\ [PoolNext]_poolVars => PoolIInv'
<1> SUFFICES ASSUME PoolIInv, [PoolNext]_poolVars PROVE PoolIInv'
  OBVIOUS
<1>1. CASE UNCHANGED poolVars
  BY <1>1 DEF poolVars, PoolIInv, PoolTypeOK, ControlInv, PlaceInv, StopInv, Elems, NoDup
<1>2. CASE PoolNext
  BY <1>2, WorkerIInv, NotifyIInv, DestroyIInv, TakeIInv, FinishIInv, EnqueueIInv DEF PoolNext, Work
<1> QED
  BY <1>1, <1>2

LEMMA PoolInvariance == PoolSpec => []PoolIInv
BY InitPoolIInv, InductivePoolIInv, PTL DEF PoolSpec

----------------------------------------------------------------------------
\* No value of a wrong kind ever gets into the pool.
THEOREM PoolTypeCorrect == PoolSpec => []PoolTypeOK
<1>1. PoolIInv => PoolTypeOK
  BY DEF PoolIInv
<1> QED
  BY <1>1, PoolInvariance, PTL

\* Every task is at exactly one place: none is lost, none is run twice.
THEOREM PlaceCorrect == PoolSpec => []OncePlaced
<1>1. PoolIInv => OncePlaced
  <2> SUFFICES ASSUME PoolIInv PROVE OncePlaced
    OBVIOUS
  <2>1. Queued = Elems(tasks) /\ Queued \subseteq Tasks /\ Running \subseteq Tasks /\ done \subseteq Tasks /\ fresh \subseteq Tasks
    BY DEF PoolIInv, PoolTypeOK, Queued, Running, Elems
  <2>2. \A j : j \in Running <=> j # NoTask /\ \E w \in Workers : task[w] = j
    BY DEF Running
  <2>3. NoTask \notin Tasks
    BY ThreadsAssumption
  <2>4. Tasks = fresh \union Queued \union Running \union done
    BY <2>1, <2>2, <2>3 DEF PoolIInv, PlaceInv
  <2>5. fresh \intersect (Queued \union Running \union done) = {}
    BY <2>1, <2>2 DEF PoolIInv, PlaceInv
  <2>6. Queued \intersect (Running \union done) = {} /\ Running \intersect done = {}
    BY <2>1, <2>2 DEF PoolIInv, PlaceInv
  <2> QED
    BY <2>4, <2>5, <2>6 DEF PoolIInv, PlaceInv, NoDup, OncePlaced
<1> QED
  BY <1>1, PoolInvariance, PTL

\* front() and pop() are never called on an empty queue.
THEOREM PopDefined == PoolSpec => []NeverPopsEmpty
<1>1. PoolIInv => NeverPopsEmpty
  BY DEF PoolIInv, StopInv, NeverPopsEmpty
<1> QED
  BY <1>1, PoolInvariance, PTL

\* Every task is at one place, and no worker takes from an empty queue.
THEOREM PoolConsistent == PoolSpec => []Consistent
<1> QED
  BY PoolTypeCorrect, PlaceCorrect, PopDefined, PTL DEF Consistent

\* A pool that has workers runs all its tasks before it is gone.
THEOREM PoolDrained == ASSUME Workers # {} PROVE PoolSpec => []DrainedWhenGone
<1>1. PoolIInv => DrainedWhenGone
  BY DEF PoolIInv, ControlInv, StopInv, DrainedWhenGone, Queued, Running
<1> QED
  BY <1>1, PoolInvariance, PTL

----------------------------------------------------------------------------
(* Every step of the pool is a step of TaskPool or leaves it as it is.     *)

LEMMA QuietStep ==
  ASSUME PoolIInv,
         \/ \E w \in Workers : Lock(w) \/ Test(w) \/ Block(w) \/ WakeSpuriously(w)
         \/ \E c \in Callers : Notify(c)
         \/ Destroy
  PROVE  UNCHANGED Pool!vars
<1>1. UNCHANGED <<tasks, task, done>>
  BY DEF Lock, Test, Block, WakeSpuriously, Notify, Destroy, Stop, NotifyAll, JoinAll
<1> QED
  BY <1>1 DEF Pool!vars, Running

LEMMA TakeStep == ASSUME PoolIInv, NEW w \in Workers, Take(w) PROVE Pool!Next \/ UNCHANGED Pool!vars
<1>1. CASE stop /\ tasks = <<>>
  BY <1>1 DEF Take, Pool!vars, Running
<1>2. CASE ~(stop /\ tasks = <<>>)
  <2>1. tasks # <<>> /\ tasks' = Tail(tasks) /\ UNCHANGED done
    BY <1>2 DEF PoolIInv, StopInv, Take
  <2>2. Head(tasks) \in Tasks /\ Head(tasks) # NoTask
    BY <2>1, ThreadsAssumption DEF PoolIInv, PoolTypeOK
  <2>3. task[w] = NoTask
    BY DEF PoolIInv, ControlInv, Take
  <2>4. \A v \in Workers : task'[v] = IF v = w THEN Head(tasks) ELSE task[v]
    BY <1>2 DEF PoolIInv, PoolTypeOK, Take
  <2>5. Running' = Running \union {Head(tasks)}
    BY <2>2, <2>3, <2>4 DEF Running
  <2> QED
    BY <2>1, <2>5 DEF Pool!Next, Pool!Start
<1> QED
  BY <1>1, <1>2

LEMMA FinishStep == ASSUME PoolIInv, NEW w \in Workers, Finish(w) PROVE Pool!Next
<1>1. task[w] \in Tasks /\ task[w] # NoTask
  BY DEF PoolIInv, PoolTypeOK, ControlInv, Finish
<1>2. \A v \in Workers : task'[v] = IF v = w THEN NoTask ELSE task[v]
  BY DEF PoolIInv, PoolTypeOK, Finish
<1>3. Running' = Running \ {task[w]} /\ task[w] \in Running
  BY <1>1, <1>2 DEF PoolIInv, PlaceInv, Running
<1>4. Pool!Finish(task[w])
  BY <1>3 DEF Finish, Pool!Finish
<1> QED
  BY <1>1, <1>4 DEF Pool!Next

LEMMA EnqueueStep == ASSUME PoolIInv, NEW c \in Callers, NEW new \in Tasks, Enqueue(c, new) PROVE Pool!Next
<1>1. new \notin Running /\ new \notin done /\ \A i \in DOMAIN tasks : tasks[i] # new
  BY DEF PoolIInv, PlaceInv, Enqueue, Running, Elems
<1>2. Running' = Running
  BY DEF Enqueue, Running
<1>3. Pool!Enqueue(new)
  BY <1>1, <1>2 DEF Enqueue, Pool!Enqueue, Pool!Fresh
<1> QED
  BY <1>3 DEF Pool!Next

\* The pool with its threads, its mutex and its condition variable is a queue
\* of tasks that start in order, once each.
THEOREM PoolIsTaskPool == PoolSpec => Pool!Init /\ [][Pool!Next]_Pool!vars
<1>1. PoolInit => Pool!Init
  BY DEF PoolInit, Pool!Init, Running
<1>2. PoolIInv /\ [PoolNext]_poolVars => [Pool!Next]_Pool!vars
  <2> SUFFICES ASSUME PoolIInv, [PoolNext]_poolVars PROVE Pool!Next \/ UNCHANGED Pool!vars
    OBVIOUS
  <2>1. CASE UNCHANGED poolVars
    BY <2>1 DEF poolVars, Pool!vars, Running
  <2>2. CASE PoolNext
    BY <2>2, QuietStep, TakeStep, FinishStep, EnqueueStep DEF PoolNext, Work
  <2> QED
    BY <2>1, <2>2
<1> QED
  BY <1>1, <1>2, PoolInvariance, PTL DEF PoolSpec
=============================================================================
