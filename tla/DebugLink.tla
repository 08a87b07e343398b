------------------------------ MODULE DebugLink ------------------------------
(***************************************************************************)
(* What the wire between the server and its remote debuggers promises:     *)
(* whole messages, in the order they were sent, until the connection is    *)
(* cut.  A debugger shows the pause state of the last message it got.      *)
(***************************************************************************)
EXTENDS Naturals, Sequences

CONSTANTS Debuggers,
          Links      \* the connections, <<debugger, number>>

States == {"paused", "running"}

VARIABLES news,    \* news[c]: the messages to the debugger, not yet read
          wishes,  \* wishes[c]: the messages to the server, not yet handled
          view     \* view[d]: what debugger d shows

vars == <<news, wishes, view>>

Init ==
  /\ news = [c \in Links |-> <<>>]
  /\ wishes = [c \in Links |-> <<>>]
  /\ view = [d \in Debuggers |-> "running"]

Tell(to, m) ==
  /\ news' = [c \in Links |-> IF c \in to THEN Append(news[c], m) ELSE news[c]]
  /\ UNCHANGED <<wishes, view>>

\* v is the last state among the messages ms, or the old one if there is none.
LastState(v, ms, old) ==
  \/ v = old /\ \A i \in DOMAIN ms : ms[i] \notin States
  \/ \E i \in DOMAIN ms : v = ms[i] /\ \A j \in DOMAIN ms : ms[j] \in States => j <= i

\* The debugger reads some messages and shows the last state among them.
Learn(c, n) ==
  /\ news' = [news EXCEPT ![c] = SubSeq(@, n + 1, Len(@))]
  /\ \E v \in States : /\ LastState(v, SubSeq(news[c], 1, n), view[c[1]])
                       /\ view' = [view EXCEPT ![c[1]] = v]
  /\ UNCHANGED wishes

Ask(c, m) ==
  /\ wishes' = [wishes EXCEPT ![c] = Append(@, m)]
  /\ UNCHANGED <<news, view>>

Hear(c) ==
  /\ wishes[c] # <<>>
  /\ wishes' = [wishes EXCEPT ![c] = Tail(@)]
  /\ UNCHANGED <<news, view>>

\* The debugger leaves, or the connection breaks: of what was under way, the news
\* are lost and so may be the last of the wishes.
Cut(c) ==
  /\ news' = [news EXCEPT ![c] = <<>>]
  /\ \E n \in 0 .. Len(wishes[c]) : wishes' = [wishes EXCEPT ![c] = SubSeq(@, 1, n)]
  /\ \/ view' = [view EXCEPT ![c[1]] = "running"]
     \/ UNCHANGED view

Next ==
  \/ \E m \in States \union {"ping"} : \E to \in SUBSET Links : Tell(to, m)
  \/ \E c \in Links :
       \/ Hear(c) \/ Cut(c) \/ \E m \in States : Ask(c, m)
       \/ \E n \in 1 .. Len(news[c]) : Learn(c, n)

Spec == Init /\ [][Next]_vars
============================================================================
