---------------------------- MODULE ServerProofs ----------------------------
(***************************************************************************)
(* What a debug session guarantees for any number of zones, clients and    *)
(* characters and queues of any length: the state of the session is that   *)
(* of the AIs, and every client is told what can be debugged.              *)
(***************************************************************************)
EXTENDS Server, FiniteSetTheorems, TLAPS

Elems(s) == {s[i] : i \in DOMAIN s}
Waiting == Elems(events) \union Elems(batch)

\* An addition is not asked for twice.
AddsOnce(s) == \A i, j \in DOMAIN s : s[i].type = "zoneAdd" /\ s[i] = s[j] => i = j

\* The AIs of the zone that are paused came with their pause.
OwnPause(z) == here[z] \intersect paused \subseteq newcomers

\* The server has never had to do with the zone.
Unknown(z) == z \notin zones \union {zone, lzone} /\ OwnPause(z)

\* Additions are of zones that are new to the server, so none is dropped; batches
\* are taken at the beginning of an update.
QueueInv ==
  /\ AddsOnce(events) /\ AddsOnce(batch)
  /\ \A e \in Elems(events) \intersect Elems(batch) : e.type # "zoneAdd"
  /\ \A z \in Zones : owned[z] = "new" => Event("zoneAdd", z) \notin Waiting
  /\ \A z \in Zones : owned[z] = "new" \/ Event("zoneAdd", z) \in Waiting => Unknown(z)
  /\ pc \in {"idle", "accept", "read"} => batch = <<>>

\* Where the session and the AIs disagree, a pause that ends it is under way; a
\* zone that is not debugged is not paused.
PauseInv ==
  /\ zone \in zones \ strayed =>
       \/ \A x \in here[zone] \ newcomers : pause <=> x \in paused
       \/ pause /\ Event("pause", FALSE) \in Waiting
  /\ \A z \in zones \ strayed : z = zone \/ OwnPause(z)

\* A client that has not been told the names will be: its greeting is handled
\* before the network looks at it.
TellInv ==
  /\ \A c \in clients \ lost : toldNames[c] = zones \/ Event("connect", c) \in Waiting
  /\ \A c \in Clients : Event("connect", c) \in Elems(batch) => c \in clients
  /\ \A c \in Clients : Event("connect", c) \in Elems(events) =>
       c \in clients \ unread /\ pc \in {"read", "idle", "crashed"}

IInv == TypeOK /\ QueueInv /\ PauseInv /\ TellInv /\ DebugsKnownZone

----------------------------------------------------------------------------
(* Queues                                                                  *)

LEMMA AppendEvent ==
  ASSUME NEW S, NEW s \in Seq(S), NEW e \in S
  PROVE  /\ Append(s, e) \in Seq(S)
         /\ Elems(Append(s, e)) = Elems(s) \union {e}
         /\ AddsOnce(s) /\ (e.type = "zoneAdd" => e \notin Elems(s)) => AddsOnce(Append(s, e))
<1>1. /\ Append(s, e) \in Seq(S) /\ Len(s) \in Nat
      /\ DOMAIN s = 1 .. Len(s)
      /\ DOMAIN Append(s, e) = 1 .. Len(s) + 1
      /\ \A i \in 1 .. Len(s) : Append(s, e)[i] = s[i]
      /\ Append(s, e)[Len(s) + 1] = e
  OBVIOUS
<1>2. Elems(Append(s, e)) = Elems(s) \union {e}
  BY <1>1 DEF Elems
<1>3. ASSUME AddsOnce(s), e.type = "zoneAdd" => e \notin Elems(s)
      PROVE  AddsOnce(Append(s, e))
  BY <1>1, <1>3 DEF Elems, AddsOnce
<1> QED
  BY <1>1, <1>2, <1>3

LEMMA TailEvents ==
  ASSUME NEW S, NEW s \in Seq(S), s # <<>>, AddsOnce(s)
  PROVE  /\ Tail(s) \in Seq(S) /\ Head(s) \in S
         /\ Elems(s) = Elems(Tail(s)) \union {Head(s)}
         /\ AddsOnce(Tail(s))
         /\ Head(s).type = "zoneAdd" => Head(s) \notin Elems(Tail(s))
<1>1. /\ Tail(s) \in Seq(S) /\ Head(s) \in S /\ Len(s) \in Nat \ {0}
      /\ DOMAIN s = 1 .. Len(s)
      /\ DOMAIN Tail(s) = 1 .. Len(s) - 1
      /\ \A i \in 1 .. Len(s) - 1 : Tail(s)[i] = s[i + 1]
      /\ Head(s) = s[1]
  OBVIOUS
<1>2. \A i \in 2 .. Len(s) : i - 1 \in 1 .. Len(s) - 1 /\ s[i] = Tail(s)[i - 1]
  BY <1>1
<1>3. \A i \in 1 .. Len(s) : i = 1 \/ i \in 2 .. Len(s)
  BY <1>1
<1>4. Elems(s) = Elems(Tail(s)) \union {Head(s)}
  <2>1. ASSUME NEW e \in Elems(s) PROVE e \in Elems(Tail(s)) \union {Head(s)}
    <3>1. PICK i \in 1 .. Len(s) : e = s[i]
      BY <1>1 DEF Elems
    <3>2. i # 1 => e = Tail(s)[i - 1] /\ i - 1 \in DOMAIN Tail(s)
      BY <1>1, <1>2, <1>3, <3>1
    <3> QED
      BY <1>1, <3>1, <3>2 DEF Elems
  <2>2. \A e \in Elems(Tail(s)) \union {Head(s)} : e \in Elems(s)
    BY <1>1 DEF Elems
  <2> QED
    BY <2>1, <2>2
<1>5. AddsOnce(Tail(s)) /\ (Head(s).type = "zoneAdd" => Head(s) \notin Elems(Tail(s)))
  BY <1>1 DEF Elems, AddsOnce
<1> QED
  BY <1>1, <1>4, <1>5

LEMMA NoEvents == Elems(<<>>) = {} /\ AddsOnce(<<>>) /\ \A S : <<>> \in Seq(S)
BY DEF Elems, AddsOnce

\* The events there are, by what they carry.
LEMMA EventTypes ==
  /\ \A z \in Zones, t \in {"zoneAdd", "zoneRemove", "setDebug", "static", "reset"} :
       Event(t, z) \in Events
  /\ \A x \in Chars \union {Nobody} : Event("selection", x) \in Events
  /\ \A b \in BOOLEAN : Event("pause", b) \in Events
  /\ Event("step", 1) \in Events
  /\ \A c \in Clients : Event("connect", c) \in Events
BY DEF Event, Events

LEMMA EventArgs ==
  ASSUME NEW e \in Events
  PROVE  /\ e = Event(e.type, e.arg)
         /\ e.type \in {"zoneAdd", "zoneRemove", "setDebug", "static", "reset"} => e.arg \in Zones
         /\ e.type = "selection" => e.arg \in Chars \union {Nobody}
         /\ e.type = "pause" => e.arg \in BOOLEAN
         /\ e.type = "connect" => e.arg \in Clients
BY DEF Event, Events

LEMMA SameEvent == \A t, u, x, y : Event(t, x) = Event(u, y) <=> t = u /\ x = y
BY DEF Event

----------------------------------------------------------------------------
(* The invariant                                                           *)

LEMMA InitIInv == Init => IInv
<1> SUFFICES ASSUME Init PROVE IInv
  OBVIOUS
<1> USE ServerAssumption, NoEvents DEF Init
<1>1. Cardinality(Clients) \in Nat
  BY FS_CardinalityType
<1>2. TypeOK
  <2>1. events \in Seq(Events) /\ batch \in Seq(Events)
    OBVIOUS
  <2>2. /\ toldPause \in [Clients -> {"paused", "running", "none"}]
        /\ toldNames \in [Clients -> SUBSET Zones]
        /\ owned \in [Zones -> {"new", "added", "removed"}]
    OBVIOUS
  <2>3. lclients \in 0 .. Cardinality(Clients)
    BY <1>1
  <2>4. here \in [Zones -> SUBSET Chars] /\ Apart(here)
    OBVIOUS
  <2>5. /\ zones \subseteq Zones /\ zone \in Zones \union {NoZone}
        /\ pause \in BOOLEAN /\ selected \in Chars \union {Nobody}
        /\ pc \in {"idle", "handle", "accept", "read", "crashed"}
        /\ lzone \in Zones \union {NoZone} /\ lpause \in BOOLEAN
        /\ clients \subseteq Clients /\ unread \subseteq clients
        /\ paused \subseteq Chars /\ debug \subseteq Zones /\ newcomers \subseteq Chars
        /\ lost \subseteq Clients /\ strayed \subseteq Zones /\ mislaid \subseteq Zones
    OBVIOUS
  <2> QED
    BY <2>1, <2>2, <2>3, <2>4, <2>5, Zenon DEF TypeOK
<1>3. QueueInv
  BY DEF QueueInv, Waiting, Unknown, OwnPause
<1>4. PauseInv
  BY DEF PauseInv
<1>5. TellInv
  BY DEF TellInv
<1>6. DebugsKnownZone
  BY DEF DebugsKnownZone
<1> QED
  BY <1>2, <1>3, <1>4, <1>5, <1>6 DEF IInv

\* What a handler that goes on to the next event leaves waiting.
LEMMA NextWaiting ==
  ASSUME IInv, pc = "handle", batch # <<>>, NextEvent
  PROVE  /\ batch' \in Seq(Events) /\ Head(batch) \in Events
         /\ Elems(batch) = Elems(batch') \union {Head(batch)}
         /\ AddsOnce(batch')
         /\ Head(batch).type = "zoneAdd" => Head(batch) \notin Elems(batch')
         /\ UNCHANGED <<lzone, lpause, lclients, pc, network, owned, lost>>
BY TailEvents DEF IInv, TypeOK, QueueInv, NextEvent, Rest

LEMMA PauseIInv == ASSUME IInv, HandlePause PROVE IInv'
<1> DEFINE Now == Head(batch)
<1>1. /\ pc = "handle" /\ batch # <<>> /\ Now.type = "pause" /\ NextEvent
      /\ pause' = Now.arg
      /\ paused' = IF lzone = NoZone THEN paused ELSE Pausing(Now.arg)
      /\ newcomers' = IF lzone = NoZone THEN newcomers ELSE newcomers \ here[lzone]
      /\ strayed' = IF lzone = zone THEN strayed \ {zone} ELSE strayed \union ({lzone, zone} \ {NoZone})
      /\ UNCHANGED <<zones, zone, debug, here, events, mislaid, toldNames>>
  BY DEF HandlePause, Handling, Arg, told
<1>2. /\ batch' \in Seq(Events) /\ Now \in Events
      /\ Elems(batch) = Elems(batch') \union {Now}
      /\ AddsOnce(batch')
      /\ UNCHANGED <<lzone, lpause, lclients, pc, clients, unread, owned, lost>>
  BY <1>1, NextWaiting DEF network
<1>3. Now.arg \in BOOLEAN /\ Elems(batch') \subseteq Elems(batch) /\ Waiting' \subseteq Waiting
  BY <1>1, <1>2, EventArgs DEF Waiting
<1>4. TypeOK'
  <2>1. paused' \subseteq Chars /\ newcomers' \subseteq Chars /\ strayed' \subseteq Zones
    BY <1>1 DEF Pausing, IInv, TypeOK
  <2>2. selected' \in Chars \union {Nobody}
    BY DEF HandlePause, StillThere, IInv, TypeOK
  <2>3. toldPause' \in [Clients -> {"paused", "running", "none"}]
    BY DEF HandlePause, SendPause, State, IInv, TypeOK, told
  <2> QED
    BY <1>1, <1>2, <1>3, <2>1, <2>2, <2>3 DEF IInv, TypeOK
<1>5. ASSUME NEW z \in Zones, z # lzone, OwnPause(z) PROVE OwnPause(z)'
  <2>1. lzone \in Zones => here[z] \intersect here[lzone] = {}
    BY <1>5 DEF IInv, TypeOK, Apart
  <2>2. lzone # NoZone => lzone \in Zones
    BY DEF IInv, TypeOK
  <2> QED
    BY <1>1, <1>5, <2>1, <2>2 DEF OwnPause, Pausing
<1>6. QueueInv'
  <2>1. ASSUME NEW z \in Zones, Unknown(z) PROVE Unknown(z)'
    BY <1>1, <1>2, <1>5, <2>1 DEF Unknown, OwnPause
  <2> QED
    BY <1>1, <1>2, <1>3, <2>1 DEF IInv, QueueInv, Waiting
<1>9. PauseInv'
  <2>1. CASE lzone = zone
    <3>1. zone \in zones => \A x \in here[zone] : pause' <=> x \in paused'
      BY <1>1, <1>3, <2>1, ServerAssumption DEF IInv, TypeOK, Pausing
    <3>2. ASSUME NEW z \in zones' \ strayed', z # zone' PROVE OwnPause(z)'
      <4>1. z \in zones \ strayed /\ z # zone /\ z \in Zones
        BY <1>1, <2>1, <3>2 DEF IInv, TypeOK
      <4> QED
        BY <1>5, <2>1, <4>1 DEF IInv, PauseInv
    <3> QED
      BY <1>1, <3>1, <3>2 DEF PauseInv
  <2>2. CASE lzone # zone
    <3>1. zone' \in zones' => zone' \in strayed'
      BY <1>1, <2>2, ServerAssumption DEF IInv, TypeOK
    <3>2. ASSUME NEW z \in zones' \ strayed' PROVE OwnPause(z)'
      <4>1. z \in zones \ strayed /\ z # zone /\ z # lzone /\ z \in Zones
        BY <1>1, <2>2, <3>2, ServerAssumption DEF IInv, TypeOK
      <4> QED
        BY <1>5, <4>1 DEF IInv, PauseInv
    <3> QED
      BY <3>1, <3>2 DEF PauseInv
  <2> QED
    BY <2>1, <2>2
<1>7. TellInv'
  <2>1. ASSUME NEW c \in Clients PROVE Event("connect", c) # Now
    BY <1>1, <1>2 DEF Event
  <2> QED
    BY <1>1, <1>2, <1>3, <2>1 DEF IInv, TypeOK, TellInv, Waiting
<1>8. DebugsKnownZone'
  BY <1>1 DEF IInv, DebugsKnownZone
<1> QED
  BY <1>4, <1>6, <1>7, <1>8, <1>9 DEF IInv

LEMMA SelectedIInv ==
  ASSUME IInv, NEW t \in {"selection", "step", "reset", "static"}, Handling(t), NextEvent,
         selected' \in Chars \union {Nobody},
         UNCHANGED <<zones, zone, pause, paused, debug, here, newcomers, toldPause, toldNames,
                     events, strayed, mislaid>>
  PROVE  IInv'
<1> DEFINE Now == Head(batch)
<1>1. /\ batch # <<>> /\ pc = "handle" /\ Now.type = t
      /\ batch' \in Seq(Events) /\ Now \in Events
      /\ Elems(batch) = Elems(batch') \union {Now}
      /\ AddsOnce(batch')
      /\ UNCHANGED <<lzone, lpause, lclients, pc, clients, unread, owned, lost>>
  BY NextWaiting DEF network, Handling
<1>2. /\ \A z \in Zones : Event("zoneAdd", z) # Now
      /\ \A c \in Clients : Event("connect", c) # Now
      /\ Event("pause", FALSE) # Now
  BY <1>1 DEF Event
<1>3. TypeOK'
  BY <1>1 DEF IInv, TypeOK
<1>4. QueueInv'
  BY <1>1, <1>2 DEF IInv, QueueInv, Waiting, Unknown, OwnPause
<1>5. PauseInv'
  BY <1>1, <1>2 DEF IInv, PauseInv, OwnPause, Waiting
<1>6. TellInv'
  BY <1>1, <1>2 DEF IInv, TypeOK, TellInv, Waiting
<1>7. DebugsKnownZone'
  BY DEF IInv, DebugsKnownZone
<1> QED
  BY <1>3, <1>4, <1>5, <1>6, <1>7 DEF IInv

LEMMA CrashIInv ==
  ASSUME IInv, pc' = "crashed",
         UNCHANGED <<session, local, network, world, told, events, history>>
  PROVE  IInv'
<1> USE DEF IInv, session, local, network, world, told, history
<1>1. TypeOK'
  BY DEF TypeOK
<1>2. QueueInv' /\ PauseInv' /\ TellInv' /\ DebugsKnownZone'
  BY DEF QueueInv, Unknown, OwnPause, Waiting, PauseInv, TellInv, DebugsKnownZone
<1> QED
  BY <1>1, <1>2

LEMMA SmallHandlerIInv ==
  ASSUME IInv, HandleSelection \/ HandleStep \/ HandleReset \/ HandleStatic
  PROVE  IInv'
<1> USE DEF world, told
<1>1. ASSUME NEW z \in Zones, NEW x \in Chars \union {Nobody}
      PROVE  StillThere(z, x) \in Chars \union {Nobody}
  BY DEF StillThere
<1>2. ASSUME pc = "handle", batch # <<>>
      PROVE  Head(batch) \in Events
  BY <1>2, TailEvents DEF IInv, TypeOK, QueueInv
<1>3. CASE HandleSelection
  <2>1. Handling("selection") /\ NextEvent /\ Arg \in Chars \union {Nobody}
    BY <1>2, <1>3, EventArgs DEF HandleSelection, Handling, Arg
  <2>2. selected' \in Chars \union {Nobody}
    BY <1>1, <1>3, <2>1 DEF HandleSelection, IInv, TypeOK
  <2> QED
    BY <1>3, <2>1, <2>2, SelectedIInv DEF HandleSelection
<1>4. CASE HandleStep
  <2>1. CASE lzone = NoZone
    BY <1>4, <2>1, CrashIInv DEF HandleStep, session, history
  <2>2. CASE lzone # NoZone
    <3>1. Handling("step") /\ NextEvent /\ selected' = StillThere(lzone, selected)
      BY <1>4, <2>2 DEF HandleStep
    <3>2. selected' \in Chars \union {Nobody}
      BY <1>1, <2>2, <3>1 DEF IInv, TypeOK
    <3> QED
      BY <1>4, <3>1, <3>2, SelectedIInv DEF HandleStep
  <2> QED
    BY <2>1, <2>2
<1>5. CASE HandleReset
  <2>1. Handling("reset") /\ NextEvent /\ selected' \in Chars \union {Nobody}
    BY <1>5 DEF HandleReset, session, IInv, TypeOK
  <2> QED
    BY <1>5, <2>1, SelectedIInv DEF HandleReset, session
<1>6. CASE HandleStatic
  <2>1. Handling("static") /\ NextEvent /\ Arg \in Zones
    BY <1>2, <1>6, EventArgs DEF HandleStatic, Handling, Arg
  <2>2. selected' \in Chars \union {Nobody}
    BY <1>1, <1>6, <2>1 DEF HandleStatic, IInv, TypeOK
  <2> QED
    BY <1>6, <2>1, <2>2, SelectedIInv DEF HandleStatic
<1> QED
  BY <1>3, <1>4, <1>5, <1>6

LEMMA GreetIInv == ASSUME IInv, Greet PROVE IInv'
<1> DEFINE Now == Head(batch)
<1> USE DEF session, world
<1>1. /\ batch # <<>> /\ pc = "handle" /\ Now.type = "connect" /\ NextEvent
      /\ toldPause' = [toldPause EXCEPT ![Now.arg] = State(lpause)]
      /\ toldNames' = [toldNames EXCEPT ![Now.arg] = zones]
      /\ UNCHANGED <<zones, zone, pause, selected, paused, debug, here, newcomers, events, strayed, mislaid>>
  BY DEF Greet, Greeting, Handling, Arg
<1>2. /\ batch' \in Seq(Events) /\ Now \in Events
      /\ Elems(batch) = Elems(batch') \union {Now}
      /\ AddsOnce(batch')
      /\ UNCHANGED <<lzone, lpause, lclients, pc, clients, unread, owned, lost>>
  BY <1>1, NextWaiting DEF network
<1>3. /\ Now.arg \in Clients /\ Now = Event("connect", Now.arg)
      /\ \A z \in Zones : Event("zoneAdd", z) # Now
      /\ Event("pause", FALSE) # Now
  BY <1>1, <1>2, EventArgs DEF Event
<1>4. TypeOK'
  BY <1>1, <1>2, <1>3 DEF IInv, TypeOK, State
<1>5. QueueInv'
  BY <1>1, <1>2, <1>3 DEF IInv, QueueInv, Waiting, Unknown, OwnPause
<1>6. PauseInv'
  BY <1>1, <1>2, <1>3 DEF IInv, PauseInv, OwnPause, Waiting
<1>7. TellInv'
  <2>1. ASSUME NEW c \in clients \ lost
        PROVE  toldNames'[c] = zones' \/ Event("connect", c) \in Waiting'
    <3>1. CASE c = Now.arg
      BY <1>1, <1>3, <3>1 DEF IInv, TypeOK
    <3>2. CASE c # Now.arg
      <4>1. Event("connect", c) # Now /\ toldNames'[c] = toldNames[c]
        BY <1>1, <1>3, <3>2, SameEvent DEF IInv, TypeOK
      <4> QED
        BY <1>1, <1>2, <4>1 DEF IInv, TellInv, Waiting
    <3> QED
      BY <3>1, <3>2
  <2> QED
    BY <1>1, <1>2, <2>1 DEF IInv, TellInv
<1>8. DebugsKnownZone'
  BY <1>1 DEF IInv, DebugsKnownZone
<1> QED
  BY <1>4, <1>5, <1>6, <1>7, <1>8 DEF IInv

\* No zone is added twice, so an addition never ends its batch.
LEMMA ZoneAddIInv == ASSUME IInv, HandleZoneAdd PROVE IInv'
<1> DEFINE Now == Head(batch)
<1> USE DEF session, world, told
<1>1. batch # <<>> /\ pc = "handle" /\ Now.type = "zoneAdd" /\ Now \in Elems(batch) /\ Now \in Events
  BY TailEvents DEF HandleZoneAdd, Handling, IInv, TypeOK, QueueInv
<1>2. Now.arg \in Zones /\ Now = Event("zoneAdd", Now.arg)
  BY <1>1, EventArgs
<1>3. Unknown(Now.arg)
  BY <1>1, <1>2 DEF IInv, QueueInv, Waiting
<1>4. /\ NextEvent /\ zones' = zones \union {Now.arg}
      /\ toldNames' = [c \in Clients |-> IF c \in clients THEN zones' ELSE toldNames[c]]
      /\ UNCHANGED <<zone, pause, selected, paused, debug, here, newcomers, events, toldPause, strayed, mislaid>>
  BY <1>3 DEF HandleZoneAdd, Unknown, OwnPause, Arg, SendNames
<1>5. /\ batch' \in Seq(Events)
      /\ Elems(batch) = Elems(batch') \union {Now}
      /\ AddsOnce(batch') /\ Now \notin Elems(batch') /\ Now \notin Elems(events)
      /\ UNCHANGED <<lzone, lpause, lclients, pc, clients, unread, owned, lost>>
  BY <1>1, <1>4, NextWaiting DEF network, IInv, QueueInv
<1>6. Event("pause", FALSE) # Now /\ \A c \in Clients : Event("connect", c) # Now
  BY <1>1 DEF Event
<1>7. TypeOK'
  <2>1. toldNames' \in [Clients -> SUBSET Zones]
    BY <1>2, <1>4 DEF IInv, TypeOK
  <2> QED
    BY <1>2, <1>4, <1>5, <2>1 DEF IInv, TypeOK
<1>8. QueueInv'
  <2>1. ASSUME NEW z \in Zones, owned'[z] = "new" \/ Event("zoneAdd", z) \in Waiting'
        PROVE  z # Now.arg /\ Unknown(z)
    BY <1>1, <1>2, <1>4, <1>5, <2>1 DEF IInv, QueueInv, Waiting
  <2> QED
    BY <1>1, <1>2, <1>4, <1>5, <2>1 DEF IInv, QueueInv, Waiting, Unknown, OwnPause
<1>9. PauseInv'
  BY <1>3, <1>4, <1>5, <1>6 DEF IInv, PauseInv, OwnPause, Waiting, Unknown, OwnPause
<1>10. TellInv'
  BY <1>4, <1>5, <1>6 DEF IInv, TypeOK, TellInv, Waiting
<1>11. DebugsKnownZone'
  BY <1>4 DEF IInv, DebugsKnownZone
<1> QED
  BY <1>7, <1>8, <1>9, <1>10, <1>11 DEF IInv

\* A removal may end its batch, but then the debugged zone is not among the zones.
LEMMA ZoneRemoveIInv == ASSUME IInv, HandleZoneRemove PROVE IInv'
<1> DEFINE Now == Head(batch)
           gone == IF zone = Now.arg THEN Now.arg ELSE zone
<1> USE DEF session, world, told
<1>1. /\ batch # <<>> /\ pc = "handle" /\ Now.type = "zoneRemove"
      /\ Now \in Elems(batch) /\ Now \in Events
  BY TailEvents DEF HandleZoneRemove, Handling, IInv, TypeOK, QueueInv
<1>2. Now.arg \in Zones /\ Now = Event("zoneRemove", Now.arg)
  BY <1>1, EventArgs
<1>3. /\ zone' = IF zone = Now.arg THEN NoZone ELSE zone
      /\ mislaid' = mislaid \union ({zone} \ {Now.arg, NoZone})
      /\ UNCHANGED <<pause, selected, paused, debug, here, newcomers, events, toldPause, strayed>>
  BY DEF HandleZoneRemove, Arg, DropRest, Rest
<1>4. /\ batch' \in Seq(Events) /\ Elems(batch') \subseteq Elems(batch) /\ AddsOnce(batch')
      /\ UNCHANGED <<lzone, lpause, lclients, pc, clients, unread, owned>>
      /\ \/ /\ gone \notin zones /\ UNCHANGED <<zones, toldNames>>
            /\ Elems(batch') = {}
            /\ lost' = lost \union {batch[i].arg : i \in {i \in DOMAIN batch : batch[i].type = "connect"}}
         \/ /\ zones' = zones \ {gone}
            /\ toldNames' = [c \in Clients |-> IF c \in clients THEN zones' ELSE toldNames[c]]
            /\ Elems(batch) = Elems(batch') \union {Now}
            /\ lost' = lost
  <2>1. CASE gone \in zones
    <3>1. /\ NextEvent /\ zones' = zones \ {gone}
          /\ toldNames' = [c \in Clients |-> IF c \in clients THEN zones' ELSE toldNames[c]]
      BY <2>1 DEF HandleZoneRemove, Arg, SendNames
    <3> QED
      BY <1>1, <3>1, NextWaiting DEF network
  <2>2. CASE gone \notin zones
    BY <2>2, NoEvents DEF HandleZoneRemove, Arg, DropRest, Rest, network
  <2> QED
    BY <2>1, <2>2
<1>5. lost \subseteq lost' /\ lost' \subseteq Clients /\ zones' \subseteq zones
  <2>1. ASSUME NEW i \in DOMAIN batch, batch[i].type = "connect" PROVE batch[i].arg \in Clients
    <3>1. batch[i] \in Events
      BY <2>1 DEF IInv, TypeOK
    <3> QED
      BY <2>1, <3>1, EventArgs
  <2> QED
    BY <1>4, <2>1 DEF IInv, TypeOK
<1>6. TypeOK'
  <2>1. toldNames' \in [Clients -> SUBSET Zones]
    BY <1>4, <1>5 DEF IInv, TypeOK
  <2>2. mislaid' \subseteq Zones /\ zone' \in Zones \union {NoZone}
    BY <1>2, <1>3 DEF IInv, TypeOK
  <2> QED
    BY <1>3, <1>4, <1>5, <2>1, <2>2 DEF IInv, TypeOK
<1>7. QueueInv'
  BY <1>1, <1>3, <1>4, <1>5, ServerAssumption DEF IInv, QueueInv, Waiting, Unknown, OwnPause
<1>8. PauseInv'
  <2>1. zone' \notin zones'
    BY <1>2, <1>3, <1>4, ServerAssumption DEF IInv, TypeOK
  <2>2. ASSUME NEW z \in zones' \ strayed' PROVE OwnPause(z)'
    <3>1. z \in zones /\ z # zone
      BY <1>3, <1>4, <1>5, <2>2
    <3> QED
      BY <1>3, <2>2, <3>1 DEF IInv, PauseInv, OwnPause
  <2> QED
    BY <2>1, <2>2 DEF PauseInv
<1>9. TellInv'
  <2>1. ASSUME NEW c \in clients \ lost'
        PROVE  toldNames'[c] = zones' \/ Event("connect", c) \in Waiting'
    <3>1. Event("connect", c) # Now /\ c \in Clients
      BY <1>1 DEF Event, IInv, TypeOK
    <3>2. CASE /\ zones' = zones /\ toldNames' = toldNames
               /\ lost' = lost \union {batch[i].arg : i \in {i \in DOMAIN batch : batch[i].type = "connect"}}
      <4>1. toldNames[c] = zones \/ Event("connect", c) \in Elems(events) \union Elems(batch)
        BY <1>5, <2>1 DEF IInv, TellInv, Waiting
      <4>2. ASSUME Event("connect", c) \in Elems(batch) PROVE FALSE
        <5>1. PICK i \in DOMAIN batch : batch[i] = Event("connect", c)
          BY <4>2 DEF Elems
        <5>2. batch[i].type = "connect" /\ batch[i].arg = c
          BY <5>1 DEF Event
        <5>3. c \in {batch[j].arg : j \in {j \in DOMAIN batch : batch[j].type = "connect"}}
          BY <5>1, <5>2
        <5> QED
          BY <2>1, <3>2, <5>3
      <4> QED
        BY <1>3, <3>2, <4>1, <4>2 DEF Waiting
    <3>3. CASE toldNames' = [d \in Clients |-> IF d \in clients THEN zones' ELSE toldNames[d]]
      BY <2>1, <3>1, <3>3
    <3> QED
      BY <1>4, <3>2, <3>3
  <2> QED
    BY <1>3, <1>4, <2>1 DEF IInv, TellInv
<1>10. DebugsKnownZone'
  <2>1. zone' # NoZone => zone' = zone /\ zone \in mislaid'
    BY <1>3
  <2> QED
    BY <1>3, <2>1 DEF IInv, DebugsKnownZone
<1> QED
  BY <1>6, <1>7, <1>8, <1>9, <1>10 DEF IInv

\* A choice of zone in a pause posts an event that ends it.
LEMMA SetDebugIInv == ASSUME IInv, HandleSetDebug PROVE IInv'
<1> DEFINE Now == Head(batch)
           Resuming == Event("pause", FALSE)
<1> USE DEF session, world, told
<1>1. /\ batch # <<>> /\ pc = "handle" /\ Now.type = "setDebug" /\ NextEvent /\ selected' = Nobody
      /\ zone' = IF Now.arg \in zones THEN Now.arg ELSE NoZone
      /\ debug' = debug \union ({Now.arg} \intersect zones)
      /\ strayed' = IF pause THEN strayed \union ({zone} \ {NoZone}) ELSE strayed
      /\ events' = IF pause THEN Append(events, Resuming) ELSE events
      /\ UNCHANGED <<zones, pause, paused, here, newcomers, toldPause, toldNames, mislaid>>
  BY DEF HandleSetDebug, Handling, Arg, Enqueue
<1>2. /\ batch' \in Seq(Events) /\ Now \in Events
      /\ Elems(batch) = Elems(batch') \union {Now}
      /\ AddsOnce(batch')
      /\ UNCHANGED <<lzone, lpause, lclients, pc, clients, unread, owned, lost>>
  BY <1>1, NextWaiting DEF network
<1>3. /\ Now.arg \in Zones
      /\ Resuming # Now /\ Resuming \in Events /\ Resuming.type # "zoneAdd"
      /\ \A c \in Clients : Event("connect", c) \notin {Now, Resuming}
      /\ \A z \in Zones : Event("zoneAdd", z) \notin {Now, Resuming}
  BY <1>1, <1>2, EventArgs, EventTypes DEF Event
<1>4. /\ events' \in Seq(Events) /\ AddsOnce(events')
      /\ Elems(events') = IF pause THEN Elems(events) \union {Resuming} ELSE Elems(events)
  <2>1. events \in Seq(Events) /\ AddsOnce(events)
    BY DEF IInv, TypeOK, QueueInv
  <2>2. CASE pause
    BY <1>1, <1>3, <2>1, <2>2, AppendEvent, ZenonT(60)
  <2>3. CASE ~pause
    BY <1>1, <2>1, <2>3
  <2> QED
    BY <2>2, <2>3
<1>5. TypeOK'
  BY <1>1, <1>2, <1>3, <1>4 DEF IInv, TypeOK
<1>6. QueueInv'
  <2>1. zone' \in zones \union {NoZone}
    BY <1>1
  <2>2. ASSUME NEW z \in Zones, Unknown(z) PROVE Unknown(z)'
    BY <1>1, <1>2, <2>1, <2>2, ServerAssumption DEF Unknown, OwnPause
  <2> QED
    BY <1>1, <1>2, <1>3, <1>4, <2>2 DEF IInv, QueueInv, Waiting
<1>7. PauseInv'
  <2>1. pause => Resuming \in Waiting'
    BY <1>1, <1>4 DEF Waiting
  <2>2. ASSUME ~pause, zone \in zones \ strayed PROVE OwnPause(zone)
    BY <2>2 DEF IInv, TypeOK, PauseInv, OwnPause
  <2>3. ASSUME NEW z \in zones' \ strayed' PROVE OwnPause(z)'
    <3>1. CASE z = zone
      <4>1. ~pause /\ zone \in zones \ strayed
        BY <1>1, <2>3, <3>1, ServerAssumption DEF IInv, TypeOK
      <4> QED
        BY <1>1, <2>2, <3>1, <4>1 DEF OwnPause
    <3>2. CASE z # zone
      BY <1>1, <2>3, <3>2 DEF IInv, PauseInv, OwnPause
    <3> QED
      BY <3>1, <3>2
  <2>4. ~pause /\ zone' \in zones' \ strayed' => \A x \in here'[zone'] \ newcomers' : pause' <=> x \in paused'
    BY <1>1, <2>3 DEF IInv, TypeOK, OwnPause
  <2> QED
    BY <1>1, <2>1, <2>3, <2>4 DEF IInv, TypeOK, PauseInv
<1>8. TellInv'
  BY <1>1, <1>2, <1>3, <1>4 DEF IInv, TypeOK, TellInv, Waiting
<1>9. DebugsKnownZone'
  BY <1>1 DEF DebugsKnownZone
<1> QED
  BY <1>5, <1>6, <1>7, <1>8, <1>9 DEF IInv

\* An update begins: what has waited is handled.
LEMMA BeginIInv == ASSUME IInv, Begin PROVE IInv'
<1> USE DEF session, network, world, told, history
<1>1. /\ pc = "idle" /\ batch = <<>> /\ Elems(batch) = {}
      /\ batch' = events /\ events' = <<>> /\ Elems(events') = {} /\ AddsOnce(events')
      /\ events' \in Seq(Events) /\ Elems(batch') = Elems(events) /\ pc' = "handle"
      /\ lzone' = zone /\ lpause' = pause
      /\ UNCHANGED <<zones, zone, pause, selected, clients, unread, paused, debug, here, newcomers,
                     toldPause, toldNames, owned, lost, strayed, mislaid>>
  BY NoEvents DEF Begin, IInv, QueueInv
<1>2. lclients' \in 0 .. Cardinality(Clients)
  <2>1. IsFiniteSet(Clients) /\ clients \subseteq Clients
    BY ServerAssumption DEF IInv, TypeOK
  <2>2. /\ Cardinality(clients) \in Nat /\ Cardinality(Clients) \in Nat
        /\ Cardinality(clients) <= Cardinality(Clients)
    BY <2>1, FS_Subset, FS_CardinalityType
  <2> QED
    BY <2>2 DEF Begin
<1>3. TypeOK'
  BY <1>1, <1>2 DEF IInv, TypeOK
<1>4. QueueInv'
  BY <1>1 DEF IInv, QueueInv, Waiting, Unknown, OwnPause
<1>5. PauseInv'
  BY <1>1 DEF IInv, PauseInv, OwnPause, Waiting
<1>6. TellInv'
  BY <1>1 DEF IInv, TellInv, Waiting
<1>7. DebugsKnownZone'
  BY <1>1 DEF IInv, DebugsKnownZone
<1> QED
  BY <1>3, <1>4, <1>5, <1>6, <1>7 DEF IInv

\* Others, and the server itself, add an event that is neither an addition nor a
\* new client.
LEMMA EnqueueIInv ==
  ASSUME IInv, NEW e \in Events, e.type \notin {"zoneAdd", "connect"}, Enqueue(e),
         UNCHANGED <<zones, zone, pause, batch, lzone, lpause, lclients, clients, paused, debug,
                     here, newcomers, toldPause, toldNames, lost, strayed, mislaid>>,
         pc' = pc \/ (pc = "handle" /\ batch = <<>> /\ pc' = "accept"),
         unread' \subseteq unread, selected' \in Chars \union {Nobody},
         owned' \in [Zones -> {"new", "added", "removed"}],
         \A z \in Zones : owned'[z] = "new" => owned[z] = "new"
  PROVE  IInv'
<1>1. /\ events' \in Seq(Events) /\ AddsOnce(events')
      /\ Elems(events') = Elems(events) \union {e} /\ Elems(batch') = Elems(batch)
  BY AppendEvent DEF Enqueue, IInv, TypeOK, QueueInv
<1>2. /\ \A z \in Zones : Event("zoneAdd", z) # e
      /\ \A c \in Clients : Event("connect", c) # e
  BY DEF Event
<1>3. TypeOK'
  BY <1>1 DEF IInv, TypeOK
<1>4. QueueInv'
  BY <1>1, <1>2 DEF IInv, QueueInv, Waiting, Unknown, OwnPause
<1>5. PauseInv'
  BY <1>1 DEF IInv, PauseInv, OwnPause, Waiting
<1>6. TellInv'
  <2>1. pc' # pc => \A c \in Clients : Event("connect", c) \notin Elems(events)
    BY DEF IInv, TellInv
  <2> QED
    BY <1>1, <1>2, <2>1 DEF IInv, TypeOK, TellInv, Waiting
<1>7. DebugsKnownZone'
  BY DEF IInv, DebugsKnownZone
<1> QED
  BY <1>3, <1>4, <1>5, <1>6, <1>7 DEF IInv

\* Steps that change neither queue: of the others, of update and of the network.
LEMMA QueuesStayIInv ==
  ASSUME IInv, TypeOK',
         UNCHANGED <<zones, zone, pause, events, batch, lzone, paused, debug, here, newcomers, owned,
                     strayed, mislaid>>,
         \A c \in clients' \ lost' : c \in clients \ lost /\ toldNames'[c] = toldNames[c],
         \A c \in clients \ clients' : c \in unread /\ pc = "read",
         unread' \subseteq unread,
         pc' = pc \/ (pc = "handle" /\ batch = <<>> /\ pc' = "accept") \/ (pc = "read" /\ pc' = "idle")
  PROVE  IInv'
<1>1. Elems(events') = Elems(events) /\ Elems(batch') = Elems(batch) /\ Waiting' = Waiting
  BY DEF Waiting
<1>2. QueueInv'
  BY <1>1 DEF IInv, QueueInv, Unknown, OwnPause
<1>3. PauseInv'
  BY <1>1 DEF IInv, PauseInv, OwnPause
<1>4. TellInv'
  <2>1. pc = "read" => Elems(batch) = {}
    BY NoEvents DEF IInv, QueueInv
  <2> QED
    BY <1>1, <2>1 DEF IInv, TellInv
<1>5. DebugsKnownZone'
  BY DEF IInv, DebugsKnownZone
<1> QED
  BY <1>2, <1>3, <1>4, <1>5 DEF IInv

LEMMA OwnerIInv ==
  ASSUME IInv, NEW z \in Zones, AddZone(z) \/ RemoveZone(z) \/ \E x \in Chars : Move(z, x)
  PROVE  IInv'
<1> USE DEF session, local, network, world, told, history
<1>1. CASE AddZone(z)
  <2> DEFINE add == Event("zoneAdd", z)
  <2>1. /\ owned[z] = "new" /\ events' = Append(events, add)
        /\ owned' = [owned EXCEPT ![z] = "added"]
        /\ UNCHANGED <<zones, zone, pause, selected, batch, lzone, lpause, lclients, clients,
                       unread, paused, debug, here, newcomers, toldPause, toldNames, pc, lost, strayed, mislaid>>
    BY <1>1 DEF AddZone, Enqueue
  <2>2. add \in Events /\ add.type = "zoneAdd" /\ add \notin Waiting /\ Unknown(z)
    BY <2>1, EventTypes DEF Event, IInv, QueueInv
  <2>3. events' \in Seq(Events) /\ AddsOnce(events') /\ Elems(events') = Elems(events) \union {add}
    BY <2>1, <2>2, AppendEvent DEF IInv, TypeOK, QueueInv, Waiting
  <2>4. TypeOK'
    BY <2>1, <2>3 DEF IInv, TypeOK
  <2>5. QueueInv'
    <3>1. ASSUME NEW y \in Zones, y # z PROVE Event("zoneAdd", y) # add /\ owned'[y] = owned[y]
      BY <2>1, <3>1 DEF Event, IInv, TypeOK
    <3>2. owned'[z] = "added"
      BY <2>1 DEF IInv, TypeOK
    <3>3. ASSUME NEW y \in Zones
          PROVE  /\ owned'[y] = "new" => Event("zoneAdd", y) \notin Waiting'
                 /\ owned'[y] = "new" \/ Event("zoneAdd", y) \in Waiting' => Unknown(y)'
      <4>1. CASE y = z
        BY <2>1, <2>2, <3>2, <4>1 DEF Unknown, OwnPause
      <4>2. CASE y # z
        BY <2>1, <2>3, <3>1, <4>2 DEF IInv, QueueInv, Waiting, Unknown, OwnPause
      <4> QED
        BY <4>1, <4>2
    <3>4. \A e \in Elems(events') \intersect Elems(batch') : e.type # "zoneAdd"
      BY <2>1, <2>2, <2>3 DEF IInv, QueueInv, Waiting
    <3> QED
      BY <2>1, <2>3, <3>3, <3>4 DEF IInv, QueueInv
  <2>6. PauseInv'
    BY <2>1, <2>3 DEF IInv, PauseInv, OwnPause, Waiting
  <2>7. TellInv'
    <3>1. \A c \in Clients : Event("connect", c) # add
      BY DEF Event
    <3> QED
      BY <2>1, <2>3, <3>1 DEF IInv, TypeOK, TellInv, Waiting
  <2>8. DebugsKnownZone'
    BY <2>1 DEF IInv, DebugsKnownZone
  <2> QED
    BY <2>4, <2>5, <2>6, <2>7, <2>8 DEF IInv
<1>2. CASE RemoveZone(z)
  <2> DEFINE remove == Event("zoneRemove", z)
  <2>1. remove \in Events /\ remove.type \notin {"zoneAdd", "connect"} /\ Enqueue(remove)
    BY <1>2, EventTypes DEF Event, RemoveZone
  <2>2. /\ owned' \in [Zones -> {"new", "added", "removed"}]
        /\ \A y \in Zones : owned'[y] = "new" => owned[y] = "new"
    BY <1>2 DEF RemoveZone, IInv, TypeOK
  <2>3. selected' \in Chars \union {Nobody}
    BY <1>2 DEF RemoveZone, IInv, TypeOK
  <2> QED
    BY <1>2, <2>1, <2>2, <2>3, EnqueueIInv DEF RemoveZone
<1>3. ASSUME NEW x \in Chars, Move(z, x) PROVE IInv'
  <2>1. UNCHANGED <<zones, zone, pause, selected, batch, lzone, lpause, lclients, clients, unread,
                    paused, debug, toldPause, toldNames, events, pc, owned, lost, strayed, mislaid>>
    BY <1>3 DEF Move
  <2>2. here \in [Zones -> SUBSET Chars] /\ Apart(here)
    BY DEF IInv, TypeOK
  <2>3. here' \in [Zones -> SUBSET Chars] /\ Apart(here') /\ newcomers' \subseteq Chars
    <3>1. CASE Enter(z, x)
      BY <2>2, <3>1 DEF Enter, Apart, IInv, TypeOK
    <3>2. CASE Leave(z, x)
      BY <2>2, <3>2 DEF Leave, Apart, IInv, TypeOK
    <3> QED
      BY <1>3, <3>1, <3>2 DEF Move
  <2>4. \A y \in Zones : \A w \in here'[y] \ newcomers' :
          \/ w \in here[y] \ newcomers
          \/ w \in paused <=> pause /\ zone = y
    <3>1. CASE Enter(z, x)
      BY <2>2, <3>1 DEF Enter
    <3>2. CASE Leave(z, x)
      BY <2>2, <3>2 DEF Leave, Apart
    <3> QED
      BY <1>3, <3>1, <3>2 DEF Move
  <2>5. ASSUME NEW y \in Zones, y # zone, OwnPause(y) PROVE OwnPause(y)'
    BY <2>1, <2>4, <2>5 DEF OwnPause
  <2>6. TypeOK'
    BY <2>1, <2>3 DEF IInv, TypeOK
  <2>7. QueueInv'
    <3>1. ASSUME NEW y \in Zones, Unknown(y) PROVE Unknown(y)'
      BY <2>1, <2>5, <3>1 DEF Unknown
    <3> QED
      BY <2>1, <3>1 DEF IInv, QueueInv, Waiting
  <2>8. PauseInv'
    <3>1. \A y \in zones \ strayed : y = zone \/ OwnPause(y)'
      BY <2>5 DEF IInv, TypeOK, PauseInv
    <3>2. zone \in zones \ strayed => zone \in Zones
      BY DEF IInv, TypeOK
    <3>3. pause \in BOOLEAN
      BY DEF IInv, TypeOK
    <3>4. ASSUME zone \in zones \ strayed, \A w \in here[zone] \ newcomers : pause <=> w \in paused
          PROVE  \A w \in here'[zone] \ newcomers' : pause <=> w \in paused
      BY <2>4, <3>2, <3>3, <3>4
    <3> QED
      BY <2>1, <3>1, <3>4 DEF IInv, PauseInv, Waiting
  <2>9. TellInv' /\ DebugsKnownZone'
    BY <2>1 DEF IInv, TellInv, DebugsKnownZone, Waiting
  <2> QED
    BY <2>6, <2>7, <2>8, <2>9 DEF IInv
<1> QED
  BY <1>1, <1>2, <1>3

LEMMA FinishIInv == ASSUME IInv, Finish PROVE IInv'
<1> USE DEF session, local, network, world, told, history
<1>1. selected' \in Chars \union {Nobody}
  BY DEF Finish, Resume, StillThere, IInv, TypeOK
<1>2. CASE Resume
  <2>1. /\ Event("pause", FALSE) \in Events /\ Enqueue(Event("pause", FALSE))
        /\ Event("pause", FALSE).type \notin {"zoneAdd", "connect"}
    BY <1>2, EventTypes DEF Event, Resume
  <2>2. owned' \in [Zones -> {"new", "added", "removed"}] /\ owned' = owned
    BY DEF Finish, IInv, TypeOK
  <2> QED
    BY <1>1, <2>1, <2>2, EnqueueIInv DEF Finish
<1>3. CASE UNCHANGED events
  <2>1. TypeOK'
    BY <1>1, <1>3 DEF Finish, IInv, TypeOK
  <2> QED
    BY <1>3, <2>1, QueuesStayIInv DEF Finish
<1> QED
  BY <1>2, <1>3 DEF Finish

\* A new client is looked at in the next update, when it has been greeted.
LEMMA AcceptIInv == ASSUME IInv, Accept PROVE IInv'
<1> USE DEF session, local, network, world, told, history
<1>1. /\ pc = "accept" /\ pc' = "read" /\ unread' = clients /\ batch = <<>> /\ Elems(batch) = {}
      /\ UNCHANGED <<zones, zone, pause, selected, batch, lzone, lpause, lclients, paused, debug,
                     here, newcomers, toldPause, toldNames, owned, lost, strayed, mislaid>>
  BY NoEvents DEF Accept, IInv, QueueInv
<1>2. \A c \in Clients : Event("connect", c) \notin Elems(events)
  BY <1>1 DEF IInv, TellInv
<1>3. CASE UNCHANGED <<clients, events>>
  <2>1. TypeOK'
    BY <1>1, <1>3 DEF IInv, TypeOK
  <2>2. QueueInv' /\ PauseInv' /\ TellInv' /\ DebugsKnownZone'
    BY <1>1, <1>2, <1>3 DEF IInv, QueueInv, Unknown, OwnPause, Waiting, PauseInv, TellInv, DebugsKnownZone
  <2> QED
    BY <2>1, <2>2 DEF IInv
<1>4. ASSUME NEW c \in Clients \ clients, clients' = clients \union {c},
             events' = Append(events, Event("connect", c))
      PROVE  IInv'
  <2> DEFINE connect == Event("connect", c)
  <2>1. connect \in Events /\ connect.type = "connect" /\ connect.arg = c
    BY EventTypes DEF Event
  <2>2. events' \in Seq(Events) /\ AddsOnce(events') /\ Elems(events') = Elems(events) \union {connect}
    BY <1>4, <2>1, AppendEvent DEF IInv, TypeOK, QueueInv
  <2>3. /\ \A z \in Zones : Event("zoneAdd", z) # connect
        /\ \A d \in Clients : Event("connect", d) = connect => d = c
    BY DEF Event
  <2>4. TypeOK'
    BY <1>1, <1>4, <2>2 DEF IInv, TypeOK
  <2>5. QueueInv'
    BY <1>1, <2>2, <2>3 DEF IInv, QueueInv, Unknown, OwnPause, Waiting
  <2>6. PauseInv'
    BY <1>1, <2>2 DEF IInv, PauseInv, OwnPause, Waiting
  <2>7. TellInv'
    BY <1>1, <1>2, <1>4, <2>2, <2>3 DEF IInv, TypeOK, TellInv, Waiting
  <2>8. DebugsKnownZone'
    BY <1>1 DEF IInv, DebugsKnownZone
  <2> QED
    BY <2>4, <2>5, <2>6, <2>7, <2>8 DEF IInv
<1> QED
  BY <1>3, <1>4 DEF Accept, Enqueue

\* One client is looked at.
LEMMA LookIInv ==
  ASSUME IInv, NEW c \in Clients,
         Quiet(c) \/ Close(c) \/ Receive(c) \/ \E x \in Chars : Edit(c, x)
  PROVE  IInv'
<1> USE DEF session, local, network, world, told, history
<1>1. CASE Quiet(c)
  <2>1. TypeOK'
    BY <1>1 DEF Quiet, Look, IInv, TypeOK
  <2> QED
    BY <1>1, <2>1, QueuesStayIInv DEF Quiet, Look
<1>2. CASE Close(c)
  <2>1. TypeOK'
    BY <1>2 DEF Close, Look, IInv, TypeOK
  <2>2. \A d \in clients' \ lost' : d \in clients \ lost /\ toldNames'[d] = toldNames[d]
    BY <1>2 DEF Close, IInv, TypeOK
  <2> QED
    BY <1>2, <2>1, <2>2, QueuesStayIInv DEF Close, Look
<1>3. ASSUME NEW e \in Events, e.type \notin {"zoneAdd", "connect"}, Enqueue(e), pc' = pc, Look(c),
             UNCHANGED <<session, local, clients, world, told, history>>
      PROVE  IInv'
  <2>1. unread' \subseteq unread /\ selected' \in Chars \union {Nobody}
    BY <1>3 DEF Look, IInv, TypeOK
  <2>2. owned' \in [Zones -> {"new", "added", "removed"}] /\ owned' = owned
    BY <1>3 DEF IInv, TypeOK
  <2> QED
    BY <1>3, <2>1, <2>2, EnqueueIInv
<1>4. CASE Receive(c)
  <2>1. PICK e \in Message(c) : Enqueue(e)
    BY <1>4 DEF Receive
  <2>2. toldNames[c] \subseteq Zones /\ zone \in Zones \union {NoZone}
    BY DEF IInv, TypeOK
  <2>3. e \in Events /\ e.type \notin {"zoneAdd", "connect"}
    <3>1. \/ \E z \in Zones : e = Event("setDebug", z)
          \/ \E x \in Chars \union {Nobody} : e = Event("selection", x)
          \/ \E b \in BOOLEAN : e = Event("pause", b)
          \/ e = Event("step", 1)
          \/ zone \in Zones /\ e = Event("reset", zone)
      BY <2>2 DEF Message
    <3>2. e.type \notin {"zoneAdd", "connect"}
      BY <3>1 DEF Event
    <3> QED
      BY <3>1, <3>2, EventTypes
  <2> QED
    BY <1>3, <1>4, <2>1, <2>3 DEF Receive
<1>5. ASSUME NEW x \in Chars, Edit(c, x) PROVE IInv'
  <2>1. CASE x \in here[zone]
    <3>1. zone \in Zones /\ Enqueue(Event("static", zone))
      BY <1>5, <2>1 DEF Edit, IInv, TypeOK
    <3>2. Event("static", zone) \in Events /\ Event("static", zone).type \notin {"zoneAdd", "connect"}
      BY <3>1, EventTypes DEF Event
    <3> QED
      BY <1>3, <1>5, <2>1, <3>1, <3>2 DEF Edit
  <2>2. CASE x \notin here[zone]
    <3>1. pc' = "crashed" /\ unread' \subseteq unread
      BY <1>5, <2>2 DEF Edit, Look
    <3>2. TypeOK'
      BY <1>5, <2>2, <3>1 DEF Edit, Look, IInv, TypeOK
    <3>3. QueueInv' /\ PauseInv' /\ TellInv' /\ DebugsKnownZone'
      BY <1>5, <2>2, <3>1
      DEF Edit, IInv, QueueInv, Unknown, OwnPause, Waiting, PauseInv, TellInv, DebugsKnownZone
    <3> QED
      BY <3>2, <3>3 DEF IInv
  <2> QED
    BY <2>1, <2>2
<1> QED
  BY <1>1, <1>2, <1>4, <1>5

LEMMA NextIInv == IInv /\ [Next]_vars => IInv'
<1> SUFFICES ASSUME IInv, [Next]_vars PROVE IInv'
  OBVIOUS
<1>1. CASE Handle
  BY <1>1, SmallHandlerIInv, PauseIInv, GreetIInv, ZoneAddIInv, ZoneRemoveIInv, SetDebugIInv DEF Handle
<1>2. CASE EndUpdate \/ UNCHANGED vars
  <2> USE DEF EndUpdate, vars, session, local, network, world, told, history
  <2>1. TypeOK'
    BY <1>2 DEF IInv, TypeOK
  <2>2. /\ UNCHANGED <<zones, zone, pause, events, batch, lzone, paused, debug, here, newcomers, owned>>
        /\ UNCHANGED <<strayed, mislaid>>
        /\ UNCHANGED <<clients, lost, toldNames, unread>>
        /\ pc' = pc \/ (pc = "read" /\ pc' = "idle")
    BY <1>2
  <2> QED
    BY <2>1, <2>2, QueuesStayIInv
<1> QED
  BY <1>1, <1>2, BeginIInv, FinishIInv, AcceptIInv, LookIInv, OwnerIInv DEF Next, UpdateStep

----------------------------------------------------------------------------
(* The theorems                                                            *)

LEMMA Invariant == Spec => []IInv
<1> QED
  BY InitIInv, NextIInv, PTL DEF Spec

\* What a debugger sees of the session is what is so: in every state in which no
\* event waits the pause state of the session is that of the AIs of the debugged
\* zone (AIPauseMessage.h:13), and the zone is one that was added.
THEOREM SessionAlwaysAgrees == Spec => []SessionAgrees
<1>1. IInv => SessionAgrees
  <2> SUFFICES ASSUME IInv PROVE SessionAgrees
    OBVIOUS
  <2>1. PauseAgrees
    <3>1. Settled => Waiting = {}
      BY NoEvents DEF Settled, Idle, IInv, QueueInv, Waiting
    <3> QED
      BY <3>1 DEF IInv, PauseInv, PauseAgrees
  <2> QED
    BY <2>1 DEF IInv, SessionAgrees
<1> QED
  BY <1>1, Invariant, PTL

\* Every client that is there knows all the zones there are, and the greeting of a
\* new one (ServerImpl.h:258) never reaches one that is gone.
THEOREM ClientsAreAlwaysTold == Spec => []ClientsAreTold
<1>1. IInv => ClientsAreTold
  <2> SUFFICES ASSUME IInv PROVE ClientsAreTold
    OBVIOUS
  <2>1. NamesAreTold
    <3>1. Settled => Waiting = {}
      BY NoEvents DEF Settled, Idle, IInv, QueueInv, Waiting
    <3> QED
      BY <3>1 DEF IInv, TellInv, NamesAreTold
  <2>2. GreetsTheLiving
    <3>1. ASSUME Handling("connect")
          PROVE  Arg \in Clients /\ Event("connect", Arg) \in Elems(batch)
      <4>1. Head(batch) \in Events /\ Head(batch) \in Elems(batch)
        BY <3>1, TailEvents DEF Handling, IInv, TypeOK, QueueInv
      <4> QED
        BY <3>1, <4>1, EventArgs DEF Handling, Arg
    <3> QED
      BY <3>1 DEF IInv, TellInv, GreetsTheLiving
  <2> QED
    BY <2>1, <2>2 DEF ClientsAreTold
<1> QED
  BY <1>1, Invariant, PTL
=============================================================================
