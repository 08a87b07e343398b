------------------------------- MODULE Server -------------------------------
(***************************************************************************)
(* The debug session of the remote debugger (src/ai/server/ServerImpl.h).  *)
(* Handlers of the network, and the owners of the zones, put events into a *)
(* queue; Server::update, on one thread, takes the debugged zone and the   *)
(* pause state, then handles the queue, broadcasts, and lets the network   *)
(* accept a client and read one message from each (NetworkImpl.h).  Zones  *)
(* are reduced to who is in them and which AIs are paused: the flag is the *)
(* AI's own, and it keeps it when it changes zones.                        *)
(***************************************************************************)
EXTENDS Naturals, Sequences, FiniteSets

CONSTANTS Zones, Clients, Chars,
          NoZone, Nobody,  \* nullptr and AI_NOTHING_SELECTED
          Commands,        \* what clients and owners of zones do
          MaxEvents        \* bound: how long a queue others add to

ASSUME ServerAssumption ==
  /\ NoZone \notin Zones /\ Nobody \notin Chars
  /\ IsFiniteSet(Clients)
  /\ Commands \subseteq {"setDebug", "pause", "resume", "step", "reset", "select", "edit",
                         "leave", "addZone", "removeZone"}
  /\ MaxEvents \in Nat

VARIABLES zones,     \* _zones; _names holds their names
          zone,      \* _zone, the zone that is debugged
          pause,     \* _pause
          selected,  \* _selectedCharacterId
          events,    \* _events
          pc, batch, \* where update is, and the events it has taken
          lzone, lpause, lclients,  \* its local variables zone, pauseState, clients
          unread,    \* the clients the network has not looked at in this update
          clients,   \* the network's client sockets
          paused,    \* the characters whose AI is paused
          debug,     \* the zones whose _debug is set
          here,      \* the characters of each zone
          newcomers, \* history: the characters that came into a zone with another pause state than it had
          toldPause, \* the last AIPauseMessage sent to each client
          toldNames, \* the last AINamesMessage sent to each client
          owned,     \* history: what the owners have done with their zones
          lost,      \* history: the clients whose connection was in the rest of a dropped batch
          strayed,   \* history: the zones that were left paused, or whose pause met a choice of zone
          mislaid    \* history: the zones that were erased when another one was removed

session == <<zones, zone, pause, selected>>
local == <<batch, lzone, lpause, lclients>>
network == <<clients, unread>>
world == <<paused, debug, here, newcomers>>
told == <<toldPause, toldNames>>
history == <<owned, lost, strayed, mislaid>>
vars == <<session, local, network, world, told, events, pc, history>>

Event(type, arg) == [type |-> type, arg |-> arg]
Idle == pc = "idle"

\* A character is in one zone at a time (Zone.tla has those that are in two).
Apart(h) == \A y, z \in Zones : y # z => h[y] \intersect h[z] = {}

Init ==
  /\ zones = {} /\ zone = NoZone /\ pause = FALSE /\ selected = Nobody
  /\ events = <<>>
  /\ pc = "idle" /\ batch = <<>>
  /\ lzone = NoZone /\ lpause = FALSE /\ lclients = 0
  /\ clients = {} /\ unread = {}
  /\ paused = {} /\ debug = {}
  /\ here \in {h \in [Zones -> SUBSET Chars] : Apart(h)}
  /\ newcomers = {}
  /\ toldPause = [c \in Clients |-> "none"]
  /\ toldNames = [c \in Clients |-> {}]
  /\ owned = [z \in Zones |-> "new"] /\ lost = {} /\ strayed = {} /\ mislaid = {}

----------------------------------------------------------------------------
(* Threads other than that of the server                                   *)

Enqueue(e) == events' = Append(events, e)

AddZone(z) ==
  /\ "addZone" \in Commands /\ owned[z] = "new"
  /\ Len(events) < MaxEvents
  /\ Enqueue(Event("zoneAdd", z))
  /\ owned' = [owned EXCEPT ![z] = "added"]
  /\ UNCHANGED <<session, local, network, world, told, pc, lost, strayed, mislaid>>

RemoveZone(z) ==
  /\ "removeZone" \in Commands /\ owned[z] = "added"
  /\ Len(events) < MaxEvents
  /\ Enqueue(Event("zoneRemove", z))
  /\ owned' = [owned EXCEPT ![z] = "removed"]
  /\ UNCHANGED <<session, local, network, world, told, pc, lost, strayed, mislaid>>

\* A character enters a zone, and nobody asks whether that is paused, or leaves it
\* as it is (Zone.tla has the details).
Enter(z, x) ==
  /\ \A y \in Zones : x \notin here[y]
  /\ here' = [here EXCEPT ![z] = @ \union {x}]
  /\ newcomers' = IF x \in paused <=> pause /\ zone = z THEN newcomers ELSE newcomers \union {x}

Leave(z, x) ==
  /\ x \in here[z]
  /\ here' = [here EXCEPT ![z] = @ \ {x}]
  /\ newcomers' = newcomers \ {x}

Move(z, x) ==
  /\ "leave" \in Commands
  /\ Enter(z, x) \/ Leave(z, x)
  /\ UNCHANGED <<session, local, network, paused, debug, told, events, pc, history>>

----------------------------------------------------------------------------
(* update: the debugged zone and the pause state are read once.            *)

Begin ==
  /\ pc = "idle"
  /\ lzone' = zone /\ lpause' = pause /\ lclients' = Cardinality(clients)
  /\ batch' = events
  /\ events' = <<>>
  /\ pc' = "handle"
  /\ UNCHANGED <<session, network, world, told, history>>

Rest(left) == batch' = left /\ UNCHANGED <<lzone, lpause, lclients, pc, network, owned>>
NextEvent == Rest(Tail(batch)) /\ UNCHANGED lost
\* A return in the middle of the loop: the rest of the events is gone.
DropRest == Rest(<<>>) /\ lost' = lost \union {batch[i].arg : i \in {i \in DOMAIN batch : batch[i].type = "connect"}}

Handling(type) == pc = "handle" /\ batch # <<>> /\ Head(batch).type = type
Arg == Head(batch).arg

\* Fault: a character that left stays selected.
StillThereAlways(z, x) == x

\* broadcast... finds the selected character gone.
StillThere(z, x) == IF x # Nobody /\ x \notin here[z] THEN Nobody ELSE x

State(b) == IF b THEN "paused" ELSE "running"
SendPause(b) == toldPause' = [c \in Clients |-> IF c \in clients THEN State(b) ELSE toldPause[c]]
SendNames(ns) == toldNames' = [c \in Clients |-> IF c \in clients THEN ns ELSE toldNames[c]]

HandleSelection ==
  /\ Handling("selection")
  /\ selected' = IF lzone = NoZone THEN Nobody ELSE StillThere(lzone, Arg)
  /\ NextEvent
  /\ UNCHANGED <<zones, zone, pause, world, told, events, strayed, mislaid>>

\* Without a zone the null pointer is dereferenced.
HandleStep ==
  /\ Handling("step")
  /\ IF lzone = NoZone
     THEN pc' = "crashed" /\ UNCHANGED <<selected, local, network, owned, lost>>
     ELSE selected' = StillThere(lzone, selected) /\ NextEvent
  /\ UNCHANGED <<zones, zone, pause, world, told, events, strayed, mislaid>>

\* ZoneTick has what the AIs do.
HandleReset == Handling("reset") /\ NextEvent /\ UNCHANGED <<session, world, told, events, strayed, mislaid>>

\* Fault: the state is taken down and the AIs are not.
PausingNot(b) == paused

\* The AIs that are in the zone now.
Pausing(b) == IF b THEN paused \union here[lzone] ELSE paused \ here[lzone]

HandlePause ==
  /\ Handling("pause")
  /\ pause' = Arg
  /\ IF lzone = NoZone
     THEN UNCHANGED <<selected, paused, newcomers, told>>
     ELSE /\ paused' = Pausing(Arg)
          /\ newcomers' = newcomers \ here[lzone]
          /\ SendPause(Arg)
          /\ selected' = IF Arg THEN StillThere(lzone, selected) ELSE selected
          /\ UNCHANGED toldNames
  /\ strayed' = IF lzone = zone THEN strayed \ {zone} ELSE strayed \union ({lzone, zone} \ {NoZone})
  /\ NextEvent
  /\ UNCHANGED <<zones, zone, debug, here, events, mislaid>>

HandleStatic ==
  /\ Handling("static")
  /\ selected' = StillThere(Arg, selected)
  /\ NextEvent
  /\ UNCHANGED <<zones, zone, pause, world, told, events, strayed, mislaid>>

\* Fault: a new client is not told what can be debugged.
GreetingEmpty == {}

Greeting == zones

Greet ==
  /\ Handling("connect")
  /\ toldPause' = [toldPause EXCEPT ![Arg] = State(lpause)]
  /\ toldNames' = [toldNames EXCEPT ![Arg] = Greeting]
  /\ NextEvent
  /\ UNCHANGED <<session, world, events, strayed, mislaid>>

HandleZoneAdd ==
  /\ Handling("zoneAdd")
  /\ IF Arg \in zones
     THEN DropRest /\ UNCHANGED <<zones, told>>
     ELSE /\ zones' = zones \union {Arg}
          /\ SendNames(zones')
          /\ NextEvent
          /\ UNCHANGED toldPause
  /\ UNCHANGED <<zone, pause, selected, world, events, strayed, mislaid>>

\* compare_exchange_strong writes the debugged zone, or nullptr, over the zone of
\* the event when the two are different: that is what is erased.
HandleZoneRemove ==
  /\ Handling("zoneRemove")
  /\ zone' = IF zone = Arg THEN NoZone ELSE zone
  /\ LET gone == IF zone = Arg THEN Arg ELSE zone
     IN  IF gone \notin zones
         THEN DropRest /\ UNCHANGED <<zones, told>>
         ELSE /\ zones' = zones \ {gone}
              /\ SendNames(zones')
              /\ NextEvent
              /\ UNCHANGED toldPause
  /\ mislaid' = mislaid \union ({zone} \ {Arg, NoZone})
  /\ UNCHANGED <<pause, selected, world, events, strayed>>

HandleSetDebug ==
  /\ Handling("setDebug")
  /\ IF pause THEN Enqueue(Event("pause", FALSE)) ELSE UNCHANGED events
  /\ zone' = IF Arg \in zones THEN Arg ELSE NoZone
  /\ debug' = debug \union ({Arg} \intersect zones)
  /\ selected' = Nobody
  /\ NextEvent
  /\ strayed' = IF pause THEN strayed \union ({zone} \ {NoZone}) ELSE strayed
  /\ UNCHANGED <<zones, pause, paused, here, newcomers, told, mislaid>>

\* Fault: a paused zone is left alone.
ResumeNot == UNCHANGED events /\ selected' = Nobody

Resume == Enqueue(Event("pause", FALSE)) /\ selected' = Nobody

\* The rest of update: broadcast, or end a pause nobody can end any more.
Finish ==
  /\ pc = "handle" /\ batch = <<>>
  /\ IF lclients > 0 /\ lzone # NoZone
     THEN selected' = (IF lpause THEN selected ELSE StillThere(lzone, selected)) /\ UNCHANGED events
     ELSE IF lpause
          THEN Resume
          ELSE UNCHANGED <<selected, events>>
  /\ pc' = "accept"
  /\ UNCHANGED <<zones, zone, pause, local, network, world, told, history>>

----------------------------------------------------------------------------
(* The network: one client may be accepted, then each of the others is     *)
(* looked at once; select has not seen the new socket yet.                 *)

Accept ==
  /\ pc = "accept"
  /\ \/ UNCHANGED <<clients, events>>
     \/ \E c \in Clients \ clients :
          /\ clients' = clients \union {c}
          /\ Enqueue(Event("connect", c))
  /\ unread' = clients
  /\ pc' = "read"
  /\ UNCHANGED <<session, local, world, told, history>>

Look(c) == pc = "read" /\ c \in unread /\ unread' = unread \ {c}

Quiet(c) == Look(c) /\ UNCHANGED <<session, local, clients, world, told, events, pc, history>>

\* closeClient tells the server before it erases the client, so onDisconnect
\* counts the client that goes and never finds the last one gone.
Close(c) ==
  /\ Look(c)
  /\ clients' = clients \ {c}
  /\ toldPause' = [toldPause EXCEPT ![c] = "none"]
  /\ toldNames' = [toldNames EXCEPT ![c] = {}]
  /\ lost' = lost \ {c}
  /\ UNCHANGED <<session, local, world, events, pc, owned, strayed, mislaid>>

\* A client knows the zones by the names it was told.
Message(c) ==
  {Event("setDebug", z) : z \in IF "setDebug" \in Commands THEN toldNames[c] ELSE {}} \union
  {Event("selection", x) : x \in IF "select" \in Commands THEN Chars \union {Nobody} ELSE {}} \union
  {Event("pause", b) : b \in {k = "pause" : k \in {"pause", "resume"} \intersect Commands}} \union
  {Event("step", 1) : k \in {"step"} \intersect Commands} \union
  {Event("reset", zone) : k \in IF zone = NoZone THEN {} ELSE {"reset"} \intersect Commands}

Receive(c) ==
  /\ Look(c)
  /\ \E e \in Message(c) : Enqueue(e)
  /\ UNCHANGED <<session, local, clients, world, told, pc, history>>

\* updateNode, addNode, deleteNode: the AI is looked up and not tested.
Edit(c, x) ==
  /\ Look(c)
  /\ "edit" \in Commands /\ zone # NoZone
  /\ IF x \in here[zone]
     THEN Enqueue(Event("static", zone)) /\ UNCHANGED pc
     ELSE pc' = "crashed" /\ UNCHANGED events
  /\ UNCHANGED <<session, local, clients, world, told, history>>

EndUpdate ==
  /\ pc = "read" /\ unread = {}
  /\ pc' = "idle"
  /\ UNCHANGED <<session, local, network, world, told, events, history>>

----------------------------------------------------------------------------
Handle ==
  \/ HandleSelection \/ HandleStep \/ HandleReset \/ HandlePause \/ HandleStatic \/ Greet
  \/ HandleZoneAdd \/ HandleZoneRemove \/ HandleSetDebug

UpdateStep ==
  \/ Begin \/ Handle \/ Finish \/ Accept \/ EndUpdate
  \/ \E c \in Clients : Quiet(c) \/ Close(c) \/ Receive(c) \/ \E x \in Chars : Edit(c, x)

Next ==
  \/ UpdateStep
  \/ \E z \in Zones : AddZone(z) \/ RemoveZone(z) \/ \E x \in Chars : Move(z, x)

Spec == Init /\ [][Next]_vars

\* The game calls update in its tick, again and again (Server.h:213).
FairSpec == Spec /\ WF_vars(UpdateStep)

----------------------------------------------------------------------------
(* Properties                                                              *)

Events ==
  [type : {"zoneAdd", "zoneRemove", "setDebug", "static", "reset"}, arg : Zones] \union
  [type : {"selection"}, arg : Chars \union {Nobody}] \union
  [type : {"pause"}, arg : BOOLEAN] \union
  [type : {"step"}, arg : {1}] \union
  [type : {"connect"}, arg : Clients]

TypeOK ==
  /\ zones \subseteq Zones /\ zone \in Zones \union {NoZone}
  /\ pause \in BOOLEAN /\ selected \in Chars \union {Nobody}
  /\ events \in Seq(Events) /\ batch \in Seq(Events)
  /\ pc \in {"idle", "handle", "accept", "read", "crashed"}
  /\ lzone \in Zones \union {NoZone} /\ lpause \in BOOLEAN /\ lclients \in 0 .. Cardinality(Clients)
  /\ clients \subseteq Clients /\ unread \subseteq clients
  /\ paused \subseteq Chars /\ debug \subseteq Zones
  /\ here \in [Zones -> SUBSET Chars] /\ Apart(here) /\ newcomers \subseteq Chars
  /\ toldPause \in [Clients -> {"paused", "running", "none"}]
  /\ toldNames \in [Clients -> SUBSET Zones]
  /\ owned \in [Zones -> {"new", "added", "removed"}]
  /\ lost \subseteq Clients /\ strayed \subseteq Zones /\ mislaid \subseteq Zones

\* Nothing is left to handle.
Settled == Idle /\ events = <<>>

\* The pause state of the session is that of the AIs: AIPauseMessage.h:13, "it will
\* pause the execution of the behaviour tree for all ai controlled entities".  It is
\* for those that are there (ServerImpl.h:240): an AI that has come since with
\* another state than the zone's is not among "all" until the next pause there.  A
\* zone left while it is paused (l. 288), and a pause that met a choice of
\* zone in its batch (l. 481), are set apart until the next pause of that zone, and
\* so is a zone that was erased (l. 275): the removal after it drops the pause that
\* a choice of zone has posted.
PauseAgrees ==
  Settled /\ zone \in zones \ strayed =>
    \A x \in here[zone] \ newcomers : pause <=> x \in paused

\* Every client knows the zones that can be debugged, those that were added
\* before it connected and those that were added since, unless an event that
\* failed has taken its greeting with it (ServerImpl.h:276).
NamesAreTold == Settled => \A c \in clients \ lost : toldNames[c] = zones

\* The greeting goes to a client that is still there: the event holds a pointer
\* into the list of sockets (ServerImpl.h:258).
GreetsTheLiving == Handling("connect") => Arg \in clients

\* The clients that are there, and no others, are told what they have to know.
ClientsAreTold == NamesAreTold /\ GreetsTheLiving

\* The debugged zone is one the server knows, unless the removal of another zone has
\* erased it (ServerImpl.h:275), and its AIs know that they are debugged.
DebugsKnownZone == zone # NoZone => zone \in zones \union mislaid /\ zone \in debug

\* The session is about a zone there is, and its state is that of the zone's AIs,
\* those that came with another one excepted.
SessionAgrees == TypeOK /\ PauseAgrees /\ DebugsKnownZone

\* Nobody is left to resume the AIs: the pause of those in a zone the server knows
\* ends by itself, unless the debuggers had left the zone while it was paused, or
\* the AI came with its pause from another zone.
PauseEnds ==
  clients = {} ~>
    \/ \A z \in zones \ strayed : here[z] \intersect paused \subseteq newcomers
    \/ clients # {}
    \/ pc = "crashed"

\* A character that has left the debugged zone, whichever that is meanwhile, is not
\* selected for good, as long as the session runs and somebody watches.
SelectionFollows ==
  LET Gone(x) == selected = x /\ zone # NoZone /\ x \notin here[zone]
  IN  \A x \in Chars : Gone(x) ~> ~Gone(x) \/ pause \/ clients = {} \/ pc = "crashed"

============================================================================
