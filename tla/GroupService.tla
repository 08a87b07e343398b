---------------------------- MODULE GroupService ----------------------------
(***************************************************************************)
(* What the group manager of a zone (src/ai/group/GroupMgr.h) promises the *)
(* threads that call it: every call takes effect at one instant between    *)
(* its start and its return, on one relation "ai is in group g".  There is *)
(* no lock, no index and no half-made group here; GroupMgr implements it.  *)
(***************************************************************************)
EXTENDS Integers, FiniteSets

CONSTANTS Threads,   \* the threads that call the manager
          Methods,   \* the methods they call
          AIs,       \* the AI instances
          GroupIds,  \* the group ids that are used
          NoAI,      \* the null AIPtr
          NoGroup,   \* no group: of a call about all groups
          NoCall,    \* a thread that is outside the manager
          Origin,    \* the position of a group no update has averaged yet
          Infinite   \* VEC3_INFINITE, the position of no group

Reads == {"getLeader", "isGroupLeader", "getGroupSize", "getPosition", "isInGroup", "isInAnyGroup"}
Writes == {"add", "remove", "removeFromAllGroups", "update"}
OfMember == {"add", "remove", "isGroupLeader", "isInGroup"}
OfGroup == {"getLeader", "getGroupSize", "getPosition", "visit"}
OfAI == {"removeFromAllGroups", "isInAnyGroup"}
Calls ==
  [op : OfMember \intersect Methods, id : GroupIds, ai : AIs] \union
  [op : OfGroup \intersect Methods, id : GroupIds, ai : {NoAI}] \union
  [op : OfAI \intersect Methods, id : {NoGroup}, ai : AIs] \union
  [op : {"update"} \intersect Methods, id : {NoGroup}, ai : {NoAI}]

VARIABLES members,   \* members[g]: the AIs in group g
          leader,    \* leader[g]: its leader, NoAI when there is no such group
          position,  \* position[g]: the members whose average it is
          call,      \* call[t]: the call thread t is in, or NoCall
          todo,      \* todo[t]: the groups removeFromAllGroups still has to leave
          answer     \* answer[t]: what the call computed, <<>> before that

groupVars == <<members, leader, position>>
vars == <<groupVars, call, todo, answer>>

Init ==
  /\ members = [g \in GroupIds |-> {}]
  /\ leader = [g \in GroupIds |-> NoAI]
  /\ position = [g \in GroupIds |-> Infinite]
  /\ call = [t \in Threads |-> NoCall]
  /\ todo = [t \in Threads |-> {}]
  /\ answer = [t \in Threads |-> <<>>]

\* Thread t is in a call of this operation that has not had its effect yet.
Pending(t, op) == call[t] # NoCall /\ answer[t] = <<>> /\ call[t].op = op

Answer(t, v) == answer' = [answer EXCEPT ![t] = <<call[t].op, v>>]

GroupsOf(a) == {g \in GroupIds : a \in members[g]}

----------------------------------------------------------------------------
Invoke(t, c) ==
  /\ call[t] = NoCall
  /\ call' = [call EXCEPT ![t] = c]
  /\ UNCHANGED <<groupVars, todo, answer>>

\* The first member of a group is its leader.
Join(t) ==
  /\ Pending(t, "add")
  /\ LET g == call[t].id
         a == call[t].ai
     IN  /\ members' = [members EXCEPT ![g] = @ \union {a}]
         /\ leader' = [leader EXCEPT ![g] = IF members[g] = {} THEN a ELSE @]
         /\ position' = [position EXCEPT ![g] = IF members[g] = {} THEN Origin ELSE @]
         /\ Answer(t, a \notin members[g])
  /\ UNCHANGED <<call, todo>>

\* a leaves g: the last member takes the group with it, a leader is followed
\* by any one of the others.
Leave(g, a) ==
  LET rest == members[g] \ {a}
  IN  /\ members' = [members EXCEPT ![g] = rest]
      /\ \E b \in rest \union {NoAI} :
           /\ leader' = [leader EXCEPT ![g] = b]
           /\ (b = NoAI) <=> (rest = {})
           /\ leader[g] \in rest => b = leader[g]
      /\ position' = [position EXCEPT ![g] = IF rest = {} THEN Infinite ELSE @]

Quit(t) ==
  /\ Pending(t, "remove")
  /\ Leave(call[t].id, call[t].ai)
  /\ Answer(t, call[t].ai \in members[call[t].id])
  /\ UNCHANGED <<call, todo>>

\* removeFromAllGroups fixes the groups to leave ...
Plan(t) ==
  /\ Pending(t, "removeFromAllGroups")
  /\ todo' = [todo EXCEPT ![t] = GroupsOf(call[t].ai)]
  /\ Answer(t, TRUE)
  /\ UNCHANGED <<groupVars, call>>

\* ... and leaves them one by one, in any order.
Evict(t, g) ==
  /\ g \in todo[t]
  /\ todo' = [todo EXCEPT ![t] = @ \ {g}]
  /\ Leave(g, call[t].ai)
  /\ UNCHANGED <<call, answer>>

\* Every group gets the average position of its present members.
Average(t) ==
  /\ Pending(t, "update")
  /\ position' = [g \in GroupIds |-> IF members[g] = {} THEN Infinite ELSE members[g]]
  /\ Answer(t, TRUE)
  /\ UNCHANGED <<members, leader, call, todo>>

\* What a query of the relation answers.
Query(op, g, a) ==
  CASE op = "getLeader"     -> leader[g]
    [] op = "isGroupLeader" -> leader[g] = a
    [] op = "getGroupSize"  -> Cardinality(members[g])
    [] op = "getPosition"   -> position[g]
    [] op = "isInGroup"     -> a \in members[g]
    [] op = "isInAnyGroup"  -> GroupsOf(a) # {}

Ask(t) ==
  /\ \/ \E op \in Reads : /\ Pending(t, op)
                          /\ Answer(t, Query(op, call[t].id, call[t].ai))
     \/ /\ Pending(t, "visit")
        /\ \E seen \in SUBSET members[call[t].id] : Answer(t, seen)
  /\ UNCHANGED <<groupVars, call, todo>>

Return(t) ==
  /\ answer[t] # <<>>
  /\ todo[t] = {}
  /\ call' = [call EXCEPT ![t] = NoCall]
  /\ answer' = [answer EXCEPT ![t] = <<>>]
  /\ UNCHANGED <<groupVars, todo>>

Next ==
  \E t \in Threads :
    \/ \E c \in Calls : Invoke(t, c)
    \/ Join(t) \/ Quit(t) \/ Plan(t) \/ Average(t) \/ Ask(t) \/ Return(t)
    \/ \E g \in GroupIds : Evict(t, g)

Spec == Init /\ [][Next]_vars
============================================================================
