------------------------------- MODULE Remote -------------------------------
(***************************************************************************)
(* The wire of the remote debugger: the server's Network                   *)
(* (src/ai/server/NetworkImpl.h), TCP, and the Qt debugger                 *)
(* (src/debug/src/AIDebugger.cpp).  A message is framed by its length and  *)
(* travels as two units; every buffer on the way may be cut between them.  *)
(* Of the messages, the pause state and the ping are kept; of a session    *)
(* (Server.tla), the pause and whether a zone is debugged.                 *)
(***************************************************************************)
EXTENDS Naturals, Sequences, SequencesExt, FiniteSets

CONSTANTS Debuggers,   \* the remote debuggers
          MaxLinks,    \* bound: how often the debuggers connect
          MaxOrders,   \* bound: how often pause is pressed, or a zone chosen or removed
          Window,      \* how many units TCP holds for a receiver
          PingAfter,   \* how many updates the server is silent
          MaxOwed      \* bound: units owed to a debugger that does not read

ASSUME RemoteAssumption ==
  {MaxLinks, MaxOrders, MaxOwed} \subseteq Nat /\ {Window, PingAfter} \subseteq Nat \ {0}

Links == Debuggers \X (1..MaxLinks)
States == {"paused", "running"}
Messages == States \union {"ping"}

VARIABLES clients,   \* _clientSockets: the links the server has accepted
          backlog,   \* the links that wait for accept
          out, in,   \* Client::out, Client::in
          pc, turn,  \* where Server::update is, the clients it has still to look at
          readable, writable,  \* what select has found
          events,    \* Server::_events, behind those that update has taken
          batch,     \* how many of the events update has taken and not handled
          pause, lpause,  \* Server::_pause, and what it was when update began
          zone, lzone,    \* whether Server::_zone is a zone, and was when update began
          time,      \* Network::_time, in updates
          down, up,  \* TCP: the units under way to the debugger, to the server
          reset,     \* TCP: the links whose peer has answered with a reset
          link,      \* the number of the debugger's last link, 0 before the first
          open,      \* the debuggers whose socket is connected
          stream,    \* AIDebugger::_stream
          view,      \* AIDebugger::_pause
          orders,    \* bound: how often pause was pressed, or a zone chosen or removed
          torn,      \* history: the debuggers whose _stream kept a part of a message
          stale      \* history: the links that were told another state than the server's

sockets == <<clients, backlog, in, turn, readable, writable>>
session == <<pause, lpause, zone, lzone, stale>>
queue == <<events, batch>>
tcp == <<down, up, reset>>
debugger == <<link, open, stream, view, orders, torn>>
vars == <<sockets, session, out, pc, queue, time, tcp, debugger>>

Init ==
  /\ clients = <<>> /\ backlog = <<>> /\ turn = <<>> /\ readable = {} /\ writable = {}
  /\ out = [c \in Links |-> <<>>] /\ in = [c \in Links |-> <<>>]
  /\ pc = "events" /\ events = <<>> /\ batch = 0 /\ time = 0
  /\ pause = "running" /\ lpause = "running" /\ zone \in BOOLEAN /\ lzone = zone
  /\ down = [c \in Links |-> <<>>] /\ up = [c \in Links |-> <<>>] /\ reset = {}
  /\ link = [d \in Debuggers |-> 0] /\ open = {}
  /\ stream = [d \in Debuggers |-> <<>>]
  /\ view = [d \in Debuggers |-> "running"]
  /\ orders = 0
  /\ torn = {} /\ stale = {}

Live(c) == c[1] \in open /\ link[c[1]] = c[2]

----------------------------------------------------------------------------
(* Framing                                                                 *)

\* Fault: the length is not sent along.
FrameBare(m) == <<<<m, 2>>>>
Frame(m) == <<<<m, 1>>, <<m, 2>>>>

\* Fault: the length alone is taken for a message.
AvailableEarly(s) == Len(s) >= 1
\* isNewMessageAvailable
Available(s) == Len(s) >= 2

\* create: units that are not those of one message give any message, or none.
Created(s) == IF IsPrefix(Frame(s[1][1]), s) THEN {s[1][1]} ELSE Messages \union {"unknown"}

Rest(s) == SubSeq(s, 3, Len(s))

----------------------------------------------------------------------------
(* Server::update: the events ...                                          *)

Connected == Range(clients)
Resumed(queued) == Append(queued, <<"pause", "running">>)
Send(to, m) == out' = [c \in Links |-> IF c \in to THEN out[c] \o Frame(m) ELSE out[c]]

Handling(type) == pc = "events" /\ batch > 0 /\ Head(events)[1] = type

\* A new client is told the pause state update has begun with.
Greet ==
  /\ Handling("connect")
  /\ LET c == Head(events)[2]
     IN  /\ Send({c}, lpause)
         /\ stale' = IF lpause = pause THEN stale \ {c} ELSE stale \union {c}
  /\ events' = Tail(events) /\ batch' = batch - 1
  /\ UNCHANGED <<sockets, pc, time, pause, lpause, zone, lzone, tcp, debugger>>

Told == IF lzone THEN Connected ELSE {}

\* Everybody is told a pause, which counts as a sign of life; but without a zone
\* _pause is set and nobody is told.
HandlePause ==
  /\ Handling("pause")
  /\ pause' = Head(events)[2]
  /\ Send(Told, pause')
  /\ time' = IF Told = {} THEN time ELSE 0
  /\ stale' = IF lzone THEN {} ELSE IF pause' = pause THEN stale ELSE Connected \ stale
  /\ events' = Tail(events) /\ batch' = batch - 1
  /\ UNCHANGED <<sockets, pc, lpause, zone, lzone, tcp, debugger>>

\* EV_SETDEBUG ends a pause and takes the zone of that name, if there is one;
\* EV_ZONEREMOVE may take the debugged zone away, and ends no pause.  Other threads
\* have put these events anywhere between those of this queue (the ones that fail and
\* take the rest of the batch with them, l. 265 and 276, are in Server.tla).
HandleZone ==
  /\ pc = "events" /\ orders < MaxOrders
  /\ orders' = orders + 1
  /\ \/ /\ zone' \in BOOLEAN
        /\ events' = IF pause = "paused" THEN Resumed(events) ELSE events
     \/ zone' = FALSE /\ UNCHANGED events
  /\ UNCHANGED <<sockets, out, pc, batch, time, pause, lpause, lzone, stale, tcp,
                 link, open, stream, view, torn>>

\* ... then Network::update: the time and the ping, select, accept.

\* Fault: the ping is forgotten.
PingedNobody == {}
Pinged == IF time + 1 > PingAfter THEN Connected ELSE {}

Select ==
  /\ pc = "events" /\ batch = 0
  /\ \A c \in Connected : Len(down[c]) < Window \/ Len(out[c]) <= MaxOwed
  /\ time' = IF time + 1 > PingAfter THEN 0 ELSE time + 1
  /\ Send(Pinged, "ping")
  /\ readable' = {c \in Connected : up[c] # <<>> \/ c \in reset}
  /\ writable' = {c \in Connected : Len(down[c]) < Window \/ c \in reset}
  /\ LET resume == IF (clients = <<>> \/ ~lzone) /\ lpause = "paused" THEN Resumed(events) ELSE events
     IN  \/ /\ backlog = <<>>
            /\ events' = resume
            /\ UNCHANGED <<clients, backlog>>
         \/ /\ backlog # <<>>
            /\ clients' = Append(clients, Head(backlog))
            /\ backlog' = Tail(backlog)
            /\ events' = Append(resume, <<"connect", Head(backlog)>>)
  /\ turn' = clients'
  /\ pc' = "send"
  /\ UNCHANGED <<in, batch, session, tcp, debugger>>

\* closeClient, where the loop is.
Close(c) ==
  /\ clients' = RemoveAt(clients, Len(clients) - Len(turn) + 1)
  /\ turn' = Tail(turn)
  /\ pc' = "send"
  /\ out' = [out EXCEPT ![c] = <<>>]
  /\ in' = [in EXCEPT ![c] = <<>>]
  /\ down' = [down EXCEPT ![c] = <<>>]
  /\ up' = [up EXCEPT ![c] = <<>>]
  /\ reset' = reset \ {c}

\* sendMessage: a client that may be written gets all it is owed.  The accepted
\* socket blocks: the server waits for a debugger that does not read.
SendMessage ==
  /\ pc = "send" /\ turn # <<>>
  /\ LET c == Head(turn)
         sent == Min({Len(out[c]), Window - Len(down[c])})
     IN  \/ /\ c \notin writable \/ out[c] = <<>>
            /\ pc' = "recv"
            /\ UNCHANGED <<out, clients, turn, in, tcp>>
         \/ /\ c \in writable /\ out[c] # <<>> /\ c \in reset
            /\ Close(c)
         \/ /\ c \in writable /\ out[c] # <<>> /\ c \notin reset /\ sent > 0
            /\ down' = [down EXCEPT ![c] = @ \o SubSeq(out[c], 1, sent)]
            /\ out' = [out EXCEPT ![c] = SubSeq(@, sent + 1, Len(@))]
            /\ UNCHANGED <<pc, clients, turn, in, up, reset>>
  /\ UNCHANGED <<backlog, readable, writable, queue, time, session, debugger>>

\* recv takes what there is, then at most one message is handled: the others wait
\* for the next update.  The end of the stream is n = 0, and no reason to close.
Take(c, n) ==
  LET s == in[c] \o SubSeq(up[c], 1, n)
      Keep(rest) == /\ in' = [in EXCEPT ![c] = rest]
                    /\ up' = [up EXCEPT ![c] = SubSeq(@, n + 1, Len(@))]
                    /\ turn' = Tail(turn)
                    /\ pc' = "send"
                    /\ UNCHANGED <<clients, out, down, reset>>
  IN  IF Available(s)
      THEN \E m \in Created(s) :
             IF m = "unknown"
             THEN Close(c) /\ UNCHANGED events
             ELSE /\ Keep(Rest(s))
                  /\ events' = IF m \in States THEN Append(events, <<"pause", m>>) ELSE events
      ELSE Keep(s) /\ UNCHANGED events

Receive ==
  /\ pc = "recv"
  /\ LET c == Head(turn)
         sizes == IF c \in readable /\ up[c] # <<>> THEN 1 .. Len(up[c]) ELSE {0}
     IN  IF c \in readable /\ c \in reset /\ up[c] = <<>>
         THEN Close(c) /\ UNCHANGED events
         ELSE \E n \in sizes : Take(c, n)
  /\ UNCHANGED <<backlog, readable, writable, batch, time, session, debugger>>

\* The end of an update, and the beginning of the next: what it works with, and the
\* events it takes.
EndUpdate ==
  /\ pc = "send" /\ turn = <<>>
  /\ pc' = "events"
  /\ lpause' = pause /\ lzone' = zone
  /\ batch' = Len(events)
  /\ readable' = {} /\ writable' = {}
  /\ UNCHANGED <<clients, backlog, in, turn, pause, zone, stale, out, events, time, tcp, debugger>>

----------------------------------------------------------------------------
(* The debugger.  It has no part in what a link it has left still carries. *)

Used == {c \in Links : c[2] <= link[c[1]]}

Connect(d) ==
  /\ d \notin open /\ link[d] < MaxLinks /\ Cardinality(Used) < MaxLinks
  /\ link' = [link EXCEPT ![d] = @ + 1]
  /\ open' = open \union {d}
  /\ backlog' = Append(backlog, <<d, link'[d]>>)
  /\ UNCHANGED <<clients, in, turn, readable, writable, session, out, pc, queue, time, tcp,
                 stream, view, orders, torn>>

\* onDisconnect clears all but _stream.
Left(d) ==
  /\ open' = open \ {d}
  /\ view' = [view EXCEPT ![d] = "running"]

Disconnect(d) ==
  /\ d \in open
  /\ Left(d)
  /\ torn' = IF stream[d] = <<>> THEN torn ELSE torn \union {d}
  /\ UNCHANGED <<sockets, session, out, pc, queue, time, tcp, link, stream, orders>>

\* Fault: what was asked for is shown before the server has said so.
ShownAtOnce(d) == view' = [view EXCEPT ![d] = IF @ = "paused" THEN "running" ELSE "paused"]
Shown(d) == UNCHANGED view

TogglePause(d) ==
  /\ d \in open /\ orders < MaxOrders
  /\ orders' = orders + 1
  /\ up' = [up EXCEPT ![<<d, link[d]>>] = @ \o Frame(IF view[d] = "paused" THEN "running" ELSE "paused")]
  /\ Shown(d)
  /\ UNCHANGED <<sockets, session, out, pc, queue, time, down, reset, link, open, stream, torn>>

\* After the messages ms the debugger shows v: the last state among them.
LastState(v, ms, old) ==
  \/ v = old /\ \A i \in DOMAIN ms : ms[i] \notin States
  \/ \E i \in DOMAIN ms : v = ms[i] /\ \A j \in DOMAIN ms : ms[j] \in States => j <= i

\* readTcpData takes a piece of what is there and handles every whole message.
\* After a torn message it may show anything, or find a message unknown and leave.
ReadTcpData(d) ==
  /\ d \in open
  /\ LET c == <<d, link[d]>>
     IN  \E n \in 1 .. Len(down[c]) :
           LET s == stream[d] \o SubSeq(down[c], 1, n)
               k == IF Available(s) THEN Len(s) \div 2 ELSE 0
               sound == \A i \in 1 .. k : Created(SubSeq(s, 2 * i - 1, 2 * i)) = {s[2 * i][1]}
           IN  /\ down' = [down EXCEPT ![c] = SubSeq(@, n + 1, Len(@))]
               /\ stream' = [stream EXCEPT ![d] = SubSeq(s, 2 * k + 1, Len(s))]
               /\ \/ /\ \E v \in States :
                          /\ sound => LastState(v, [i \in 1 .. k |-> s[2 * i][1]], view[d])
                          /\ view' = [view EXCEPT ![d] = v]
                     /\ UNCHANGED open
                  \/ ~sound /\ Left(d)
  /\ UNCHANGED <<sockets, session, out, pc, queue, time, up, reset, link, orders, torn>>

\* TCP answers units for a socket that is closed with a reset; of what the
\* debugger had still to send, only a first part may arrive.
Refuse(c) ==
  /\ ~Live(c) /\ down[c] # <<>>
  /\ down' = [down EXCEPT ![c] = <<>>]
  /\ reset' = reset \union {c}
  /\ \E n \in 0 .. Len(up[c]) : up' = [up EXCEPT ![c] = SubSeq(@, 1, n)]
  /\ UNCHANGED <<sockets, session, out, pc, queue, time, debugger>>

----------------------------------------------------------------------------
Update == Greet \/ HandlePause \/ Select \/ SendMessage \/ Receive \/ EndUpdate

Next ==
  \/ Update \/ HandleZone
  \/ \E d \in Debuggers : Connect(d) \/ Disconnect(d) \/ TogglePause(d) \/ ReadTcpData(d)
  \/ \E c \in Links : Refuse(c)

Spec == Init /\ [][Next]_vars

\* The game updates its server for ever, Qt runs the slot that reads while there
\* is something to read, and a peer that is gone is found out by TCP.
FairSpec ==
  /\ Spec
  /\ WF_vars(Update)
  /\ \A d \in Debuggers : WF_vars(ReadTcpData(d))
  /\ \A c \in Links : WF_vars(Refuse(c))

----------------------------------------------------------------------------
(* Properties                                                              *)

Units == Seq(Messages \X {1, 2})
Events == ({"connect"} \X Links) \union ({"pause"} \X States)

TypeOK ==
  /\ {clients, backlog, turn} \subseteq Seq(Links)
  /\ Len(turn) <= Len(clients)
  /\ turn = SubSeq(clients, Len(clients) - Len(turn) + 1, Len(clients))
  /\ readable \subseteq Links /\ writable \subseteq Links
  /\ {out, in, down, up} \subseteq [Links -> Units]
  /\ \A c \in Links : Len(down[c]) <= Window
  /\ pc \in {"events", "send", "recv"} /\ (pc = "recv" => turn # <<>>)
  /\ events \in Seq(Events) /\ batch \in 0 .. Len(events)
  /\ {pause, lpause} \subseteq States /\ {zone, lzone} \subseteq BOOLEAN
  /\ time \in 0 .. PingAfter
  /\ reset \subseteq Links /\ stale \subseteq Links
  /\ link \in [Debuggers -> 0 .. MaxLinks] /\ open \subseteq Debuggers
  /\ stream \in [Debuggers -> Units]
  /\ view \in [Debuggers -> States]
  /\ orders \in 0 .. MaxOrders /\ torn \subseteq Debuggers

Greeted(c) == c \in Connected /\ \A i \in DOMAIN events : events[i] # <<"connect", c>>

\* What is under way to the debugger, the oldest first.
Path(c) == stream[c[1]] \o down[c] \o out[c]

ViewAgrees ==
  \A c \in Links :
    Live(c) /\ Greeted(c) /\ Path(c) = <<>>
            /\ c[1] \notin torn
      => (view[c[1]] = pause <=> c \notin stale)

\* A debugger that has read all it was sent shows the pause state of the server
\* (AIDebugger.cpp:79), however the bytes were cut, whoever pressed pause and
\* whatever an earlier connection left behind.  Set apart is the debugger whose
\* buffer kept a part of a message when it left (AIDebugger.cpp:248).  The others show
\* another state than the server's in two cases, and in these only: the link was
\* greeted with a state that was over (ServerImpl.h:258), or the state has changed
\* while no zone was debugged, which nobody is told (l. 239), and no pause was
\* broadcast since.
ViewsAgree == TypeOK /\ ViewAgrees

\* The server closes the sockets of debuggers that are gone and of no other one:
\* half a message, a full socket or the end of another client is no error
\* (NetworkImpl.h:207, 217).
ClosesOnlyTheGone == [][\A c \in Connected \ Connected' : ~Live(c)]_vars

\* When the users have pressed pause for the last time, what they asked for gets
\* to the server, and what it answers to every debugger that is still there.  The
\* server finds out all that are gone, also when nothing happens that anyone would
\* be told: the ping (NetworkImpl.h:158) is for that.
AnswersArrive ==
  /\ <>[](\A c \in Links : Live(c) /\ c[1] \notin torn /\ c \notin stale =>
            up[c] \o in[c] = <<>> /\ view[c[1]] = pause)
  /\ []<>(\A c \in Connected \union Range(backlog) : Live(c))

\* Each direction of a connection is a queue of whole messages: nothing is lost,
\* doubled or reordered before the connection ends (DebugLink).
Whole(s) == [i \in 1 .. Len(s) \div 2 |-> s[2 * i][1]]

News(c) == IF Live(c) /\ c[1] \notin torn THEN Whole(Path(c)) ELSE <<>>
Wishes(c) == Whole(in[c] \o up[c])
Shows(d) == IF d \in torn THEN "running" ELSE view[d]

Queues == INSTANCE DebugLink WITH
  news <- [c \in Links |-> News(c)],
  wishes <- [c \in Links |-> Wishes(c)],
  view <- [d \in Debuggers |-> Shows(d)]

QueuesSpec == Queues!Spec

============================================================================
