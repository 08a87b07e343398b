---------------------------- MODULE ZoneService ----------------------------
(***************************************************************************)
(* What a zone (src/ai/zone/Zone.h) promises its callers: everything that  *)
(* was scheduled when an update begins takes effect at once, the additions *)
(* first, the removals next, the destructions last; whoever looks an AI up *)
(* sees all of it or nothing.  There are no locks and no half applied      *)
(* lists.                                                                  *)
(***************************************************************************)
EXTENDS Naturals, Sequences, SequencesExt

CONSTANTS Zones, AIs, CharIds,
          CharOf,   \* the character of an AI instance
          NoAI

VARIABLES present,   \* who getAI finds under a character id
          waiting    \* what is scheduled: lists of additions, removals and ids

vars == <<present, waiting>>

Empty == [add |-> <<>>, remove |-> <<>>, destroy |-> <<>>]
NoOne == [c \in CharIds |-> NoAI]

\* Whose addition is the first for an id; nobody's when there is none.
First(list, c) ==
  {a \in AIs : \E i \in DOMAIN list :
     list[i] = a /\ CharOf[a] = c /\ \A j \in 1 .. (i - 1) : CharOf[list[j]] # c}
Taker(list, c) == IF First(list, c) = {} THEN NoAI ELSE CHOOSE a \in First(list, c) : TRUE

\* An id that is taken is not taken over, and the first to come takes a free one; a
\* removal or a destruction clears the id, whoever has it.
Added(map, list) == [c \in CharIds |-> IF map[c] # NoAI THEN map[c] ELSE Taker(list, c)]
Cleared(map, ids) == [c \in CharIds |-> IF c \in ids THEN NoAI ELSE map[c]]
Removed(map, list) == Cleared(map, {CharOf[a] : a \in ToSet(list)})

Applied(map, lists) ==
  Cleared(Removed(Added(map, lists.add), lists.remove), ToSet(lists.destroy))

Init ==
  /\ present = [z \in Zones |-> NoOne]
  /\ waiting = [z \in Zones |-> Empty]

\* One AI, or two with a single call.
Items == {<<a>> : a \in AIs} \union {s \in AIs \X AIs : s[1] # s[2]}

Schedule(z, list, items) ==
  /\ waiting' = [waiting EXCEPT ![z][list] = @ \o items]
  /\ UNCHANGED present

Update(z) ==
  /\ present' = [present EXCEPT ![z] = Applied(@, waiting[z])]
  /\ waiting' = [waiting EXCEPT ![z] = Empty]

Next ==
  \E z \in Zones :
    \/ Update(z)
    \/ \E s \in Items : Schedule(z, "add", s) \/ Schedule(z, "remove", s)
    \/ \E c \in CharIds : Schedule(z, "destroy", <<c>>)

Spec == Init /\ [][Next]_vars
============================================================================
