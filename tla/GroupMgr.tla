------------------------------ MODULE GroupMgr ------------------------------
(***************************************************************************)
(* The group manager of a zone (src/ai/group/GroupMgr.h), called by any    *)
(* number of threads.  The membership is kept twice: the groups themselves *)
(* (_groups: leader, members, position) and the index _groupMembers, a     *)
(* multimap from an AI to its groups.  Every method runs under one lock    *)
(* (ReadWriteLock, an exclusive spin lock), but removeFromAllGroups takes  *)
(* it anew for every group it leaves.                                      *)
(***************************************************************************)
EXTENDS Integers, FiniteSets

CONSTANTS Threads,   \* the threads that call the manager
          Methods,   \* the methods they call
          AIs,       \* the AI instances
          GroupIds,  \* the group ids that are used
          NoAI,      \* the null AIPtr
          NoCall,    \* a thread that is outside the manager
          NoThread,  \* the owner of a free lock
          NoGroup,   \* no group: of an idle thread, of a call about all groups
          Origin,    \* glm::vec3(0), the position of a group not yet averaged
          Infinite   \* VEC3_INFINITE, the position of no group

ASSUME ConstantsAssumption ==
  /\ NoAI \notin AIs
  /\ NoThread \notin Threads
  /\ NoGroup \notin GroupIds
  /\ Origin # {} /\ Infinite # {}
  /\ IsFiniteSet(AIs)

Reads == {"getLeader", "isGroupLeader", "getGroupSize", "getPosition", "isInGroup", "isInAnyGroup"}
Writes == {"add", "remove", "removeFromAllGroups", "update"}
OfMember == {"add", "remove", "isGroupLeader", "isInGroup"}
OfGroup == {"getLeader", "getGroupSize", "getPosition", "visit"}
OfAI == {"removeFromAllGroups", "isInAnyGroup"}
Calls ==
  [op : OfMember \intersect Methods, id : GroupIds, ai : AIs] \union
  [op : OfGroup \intersect Methods, id : GroupIds, ai : {NoAI}] \union
  [op : OfAI \intersect Methods, id : {NoGroup}, ai : AIs] \union
  [op : {"update"} \intersect Methods, id : {NoGroup}, ai : {NoAI}]

ASSUME CallsAssumption ==
  /\ Methods \subseteq Writes \union Reads \union {"visit"}
  /\ NoCall \notin Calls

VARIABLES members,   \* Group::members
          leader,    \* Group::leader, NoAI when _groups has no such group
          position,  \* Group::position: the members averaged, {} for 0/0
          index,     \* _groupMembers: how many entries (ai, id) it holds
          lock,      \* _lock: the thread that holds it
          pc,        \* where each thread is
          call,      \* the call it is in
          id,        \* the group it works on
          todo,      \* the list "groups" of removeFromAllGroups
          answer,    \* what the call returns, <<>> until it is known
          joined     \* history: groups the AI was added to since the snapshot

groupVars == <<members, leader, position, index>>
threadVars == <<lock, pc, call, id, todo, answer, joined>>
vars == <<groupVars, threadVars>>

Exists(g) == leader[g] # NoAI

Init ==
  /\ members = [g \in GroupIds |-> {}]
  /\ leader = [g \in GroupIds |-> NoAI]
  /\ position = [g \in GroupIds |-> Infinite]
  /\ index = [a \in AIs |-> [g \in GroupIds |-> 0]]
  /\ lock = NoThread
  /\ pc = [t \in Threads |-> "idle"]
  /\ call = [t \in Threads |-> NoCall]
  /\ id = [t \in Threads |-> NoGroup]
  /\ todo = [t \in Threads |-> {}]
  /\ answer = [t \in Threads |-> <<>>]
  /\ joined = [t \in Threads |-> {}]

----------------------------------------------------------------------------
(* Calling, locking, returning.                                            *)

Goto(t, label) == pc' = [pc EXCEPT ![t] = label]

\* The whole critical section is over; v is what the call returns.
Done(t, v) ==
  /\ lock' = NoThread
  /\ Goto(t, "return")
  /\ answer' = [answer EXCEPT ![t] = <<call[t].op, v>>]

Invoke(t, c) ==
  /\ pc[t] = "idle"
  /\ call' = [call EXCEPT ![t] = c]
  /\ id' = [id EXCEPT ![t] = c.id]
  /\ Goto(t, "lock")
  /\ UNCHANGED <<groupVars, lock, todo, answer, joined>>

\* lockWrite and lockRead are the same test-and-set.
Acquire(t) ==
  /\ pc[t] = "lock"
  /\ lock = NoThread
  /\ lock' = t
  /\ Goto(t, CASE call[t].op = "add" -> "create"
               [] call[t].op = "remove" -> "erase"
               [] call[t].op = "removeFromAllGroups" ->
                    IF answer[t] = <<>> THEN "snapshot" ELSE "erase"
               [] OTHER -> "read")
  /\ UNCHANGED <<groupVars, call, id, todo, answer, joined>>

Return(t) ==
  /\ pc[t] = "return"
  /\ todo[t] = {}
  /\ call' = [call EXCEPT ![t] = NoCall]
  /\ id' = [id EXCEPT ![t] = NoGroup]
  /\ answer' = [answer EXCEPT ![t] = <<>>]
  /\ joined' = [joined EXCEPT ![t] = {}]
  /\ Goto(t, "idle")
  /\ UNCHANGED <<groupVars, lock, todo>>

----------------------------------------------------------------------------
(* add                                                                     *)

AddGroup(t) ==
  /\ pc[t] = "create"
  /\ IF Exists(id[t])
     THEN UNCHANGED <<leader, position>>
     ELSE /\ leader' = [leader EXCEPT ![id[t]] = call[t].ai]
          /\ position' = [position EXCEPT ![id[t]] = Origin]
  /\ Goto(t, "insert")
  /\ UNCHANGED <<members, index, lock, call, id, todo, answer, joined>>

\* The threads that are leaving all groups of a see it join g behind them.
Rejoins(g, a) ==
  joined' = [u \in Threads |->
               IF call[u] # NoCall /\ call[u].op = "removeFromAllGroups" /\ call[u].ai = a
               THEN joined[u] \union {g} ELSE joined[u]]

\* Fault: what the insertion says is not looked at.
FreshIgnored(g, a) == TRUE
Fresh(g, a) == a \notin members[g]

AddMember(t) ==
  /\ pc[t] = "insert"
  /\ LET g == id[t]
         a == call[t].ai
     IN  IF Fresh(g, a)
         THEN /\ members' = [members EXCEPT ![g] = @ \union {a}]
              /\ Rejoins(g, a)
              /\ Goto(t, "index")
              /\ UNCHANGED <<lock, answer>>
         ELSE Done(t, FALSE) /\ UNCHANGED <<members, joined>>
  /\ UNCHANGED <<leader, position, index, call, id, todo>>

AddIndex(t) ==
  /\ pc[t] = "index"
  /\ index' = [index EXCEPT ![call[t].ai][id[t]] = @ + 1]
  /\ Done(t, TRUE)
  /\ UNCHANGED <<members, leader, position, call, id, todo, joined>>

----------------------------------------------------------------------------
(* remove and removeFromAllGroups                                          *)

\* Who may lead g after a has left: the last member takes the group with it, a
\* leader is followed by whoever the hash set has first.
Heirs(g, a) ==
  LET rest == members[g] \ {a}
  IN  IF rest = {} THEN {NoAI} ELSE IF leader[g] = a THEN rest ELSE {leader[g]}

RemoveMember(t) ==
  /\ pc[t] = "erase"
  /\ LET g == id[t]
         a == call[t].ai
     IN  IF Exists(g) /\ a \in members[g]
         THEN /\ members' = [members EXCEPT ![g] = @ \ {a}]
              /\ \E b \in Heirs(g, a) : leader' = [leader EXCEPT ![g] = b]
              /\ position' = [position EXCEPT ![g] = IF members[g] \subseteq {a} THEN Infinite ELSE @]
              /\ Goto(t, "unindex")
              /\ UNCHANGED <<lock, answer>>
         ELSE Done(t, call[t].op # "remove") /\ UNCHANGED <<members, leader, position>>
  /\ UNCHANGED <<index, call, id, todo, joined>>

RemoveIndex(t) ==
  /\ pc[t] = "unindex"
  /\ index' = [index EXCEPT ![call[t].ai][id[t]] = IF @ > 0 THEN @ - 1 ELSE @]
  /\ Done(t, TRUE)
  /\ UNCHANGED <<members, leader, position, call, id, todo, joined>>

\* Fault: only the first entry of the range is looked at.
GroupsOfFirst(a) ==
  LET mine == {g \in GroupIds : index[a][g] > 0}
  IN  IF mine = {} THEN {} ELSE {CHOOSE g \in mine : TRUE}
GroupsOf(a) == {g \in GroupIds : index[a][g] > 0}

Snapshot(t) ==
  /\ pc[t] = "snapshot"
  /\ todo' = [todo EXCEPT ![t] = GroupsOf(call[t].ai)]
  /\ joined' = [joined EXCEPT ![t] = {}]
  /\ Done(t, TRUE)
  /\ UNCHANGED <<groupVars, call, id>>

\* The lock is free between the removals.
NextGroup(t) ==
  /\ pc[t] = "return"
  /\ \E g \in todo[t] :
       /\ id' = [id EXCEPT ![t] = g]
       /\ todo' = [todo EXCEPT ![t] = @ \ {g}]
  /\ Goto(t, "lock")
  /\ UNCHANGED <<groupVars, lock, call, answer, joined>>

----------------------------------------------------------------------------
(* update and the queries                                                  *)

\* Fault: the sum is only ever the last position that was added.
AverageLast(g) == IF Exists(g) THEN {CHOOSE a \in members[g] : TRUE} ELSE position[g]
Average(g) == IF Exists(g) THEN members[g] ELSE position[g]

Update(t) ==
  /\ pc[t] = "read" /\ call[t].op = "update"
  /\ position' = [g \in GroupIds |-> Average(g)]
  /\ Done(t, TRUE)
  /\ UNCHANGED <<members, leader, index, call, id, todo, joined>>

Query(op, g, a) ==
  CASE op = "getLeader"     -> leader[g]
    [] op = "isGroupLeader" -> Exists(g) /\ leader[g] = a
    [] op = "getGroupSize"  -> IF Exists(g) THEN Cardinality(members[g]) ELSE 0
    [] op = "getPosition"   -> IF Exists(g) THEN position[g] ELSE Infinite
    [] op = "isInGroup"     -> index[a][g] > 0
    [] op = "isInAnyGroup"  -> GroupsOf(a) # {}

\* visit stops when its functor says so.
Read(t) ==
  /\ pc[t] = "read"
  /\ \/ /\ call[t].op \in Reads
        /\ Done(t, Query(call[t].op, id[t], call[t].ai))
     \/ /\ call[t].op = "visit"
        /\ \E seen \in SUBSET members[id[t]] : Done(t, seen)
  /\ UNCHANGED <<groupVars, call, id, todo, joined>>

----------------------------------------------------------------------------
Step(t) ==
  \/ Acquire(t) \/ Return(t)
  \/ AddGroup(t) \/ AddMember(t) \/ AddIndex(t)
  \/ RemoveMember(t) \/ RemoveIndex(t) \/ Snapshot(t) \/ NextGroup(t)
  \/ Update(t) \/ Read(t)

Next == \E t \in Threads : Step(t) \/ \E c \in Calls : Invoke(t, c)

Spec == Init /\ [][Next]_vars

----------------------------------------------------------------------------
(* Properties                                                              *)

Labels == {"idle", "lock", "create", "insert", "index", "erase", "unindex", "snapshot", "read", "return"}

TypeOK ==
  /\ members \in [GroupIds -> SUBSET AIs]
  /\ leader \in [GroupIds -> AIs \union {NoAI}]
  /\ position \in [GroupIds -> {Origin, Infinite} \union SUBSET AIs]
  /\ index \in [AIs -> [GroupIds -> Nat]]
  /\ lock \in Threads \union {NoThread}
  /\ pc \in [Threads -> Labels]
  /\ call \in [Threads -> Calls \union {NoCall}]
  /\ id \in [Threads -> GroupIds \union {NoGroup}]
  /\ todo \in [Threads -> SUBSET GroupIds]
  /\ joined \in [Threads -> SUBSET GroupIds]
  /\ DOMAIN answer = Threads

\* Whoever enters the manager finds the two copies of the membership equal:
\* the multimap _groupMembers (GroupMgr.h:54) holds one entry for a member of a
\* group and none for anyone else, whatever add and remove calls came before.
IndexAgrees ==
  lock = NoThread =>
    \A a \in AIs, g \in GroupIds : index[a][g] = IF a \in members[g] THEN 1 ELSE 0

\* Whoever enters the manager finds every group led by one of its members, and
\* no group without members: the leader that leaves is replaced in the same
\* critical section, the last member takes the group with it (GroupMgr.h:213).
LeaderIsMember ==
  lock = NoThread =>
    \A g \in GroupIds : IF Exists(g) THEN leader[g] \in members[g] ELSE members[g] = {}

\* update (GroupMgr.h:172) divides by the number of members: it never meets the
\* group that add has created and not yet filled, so no position is 0/0.
NoEmptyAverage == \A g \in GroupIds : position[g] # {}

\* The spin lock (GroupMgr.h:21) is not recursive and knows no owner: the thread
\* that holds it is in the middle of a method, on no way out does one keep it.
Inside == {"create", "insert", "index", "erase", "unindex", "snapshot", "read"}
LockedInside == \A t \in Threads : lock = t <=> pc[t] \in Inside

\* The groups are consistent for whoever enters the manager: the two copies of the
\* membership, the leaders and the averages fit together, and nobody keeps it locked.
Consistent == TypeOK /\ IndexAgrees /\ LeaderIsMember /\ NoEmptyAverage /\ LockedInside

\* When removeFromAllGroups returns, the AI is in no group but those another
\* thread added it to after the snapshot of its groups (GroupMgr.h:236) was
\* taken: the lock is free between the removals, nothing else may be missed.
LeavesAllGroups ==
  \A t \in Threads :
    (pc[t] = "return" /\ call[t].op = "removeFromAllGroups" /\ todo[t] = {}) =>
      {g \in GroupIds : call[t].ai \in members[g]} \subseteq joined[t]

\* Every call takes effect at one instant, on one consistent membership:
\* GroupMgr implements GroupService.  A group without members is one that add
\* is about to fill; an add or remove that has changed the members and not yet
\* the index has had its effect.
Evicting(t) == pc[t] \in {"lock", "erase"} /\ answer[t] # <<>>

LeaderSeen == [g \in GroupIds |-> IF members[g] = {} THEN NoAI ELSE leader[g]]
PositionSeen == [g \in GroupIds |-> IF members[g] = {} THEN Infinite ELSE position[g]]
ToLeave == [t \in Threads |-> IF Evicting(t) THEN todo[t] \union {id[t]} ELSE todo[t]]
Answered == [t \in Threads |-> IF pc[t] \in {"index", "unindex"} THEN <<call[t].op, TRUE>> ELSE answer[t]]

Service == INSTANCE GroupService WITH
  leader <- LeaderSeen, position <- PositionSeen, todo <- ToLeave, answer <- Answered

ServiceSpec == Service!Spec

============================================================================
