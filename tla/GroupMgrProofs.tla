--------------------------- MODULE GroupMgrProofs ---------------------------
(***************************************************************************)
(* What GroupMgr guarantees for any number of threads, AIs and groups.     *)
(* IndexAgrees and LeaderIsMember are only true while the lock is free;    *)
(* the inductive invariant says what they become while one thread is in    *)
(* the middle of add or remove.  From it follows that GroupMgr implements  *)
(* GroupService.                                                           *)
(***************************************************************************)
EXTENDS GroupMgr, FiniteSetTheorems, TLAPS

Adding == {"create", "insert", "index"}
Removing == {"erase", "unindex"}

LockInv ==
  /\ \A t \in Threads : pc[t] \in Inside <=> lock = t
  /\ \A t \in Threads : pc[t] # "idle" => call[t] \in Calls

\* A thread that changes the groups has a group and an AI to work on.
WorkInv ==
  \A t \in Threads :
    /\ pc[t] \in Adding => call[t].op = "add"
    /\ pc[t] \in Removing => call[t].op \in {"remove", "removeFromAllGroups"}
    /\ pc[t] = "snapshot" => call[t].op = "removeFromAllGroups"
    /\ pc[t] \in Adding \union Removing => id[t] \in GroupIds
    /\ pc[t] = "lock" =>
         \/ call[t].op \in {"add", "remove"} /\ id[t] \in GroupIds
         \/ call[t].op = "removeFromAllGroups" /\ (answer[t] # <<>> => id[t] \in GroupIds)
         \/ call[t].op \notin {"add", "remove", "removeFromAllGroups"}

\* One entry per member, but for the pair an add or a remove is working on.
IndexInv ==
  /\ \A a \in AIs, g \in GroupIds :
       \/ index[a][g] = IF a \in members[g] THEN 1 ELSE 0
       \/ \E t \in Threads : pc[t] \in {"index", "unindex"} /\ id[t] = g /\ call[t].ai = a
  /\ \A t \in Threads :
       /\ pc[t] = "index" => call[t].ai \in members[id[t]] /\ index[call[t].ai][id[t]] = 0
       /\ pc[t] = "unindex" => call[t].ai \notin members[id[t]] /\ index[call[t].ai][id[t]] = 1

\* A group without members is one that an add has just created.
LeaderInv ==
  /\ \A g \in GroupIds : members[g] # {} => leader[g] \in members[g]
  /\ \A g \in GroupIds :
       members[g] = {} /\ Exists(g) => \E t \in Threads : pc[t] = "insert" /\ id[t] = g
  /\ \A t \in Threads :
       pc[t] = "insert" => Exists(id[t]) /\ (members[id[t]] = {} => leader[id[t]] = call[t].ai)

PositionInv == \A g \in GroupIds : position[g] # {}

\* The groups a thread that runs removeFromAllGroups has still to leave.
Ahead(t) == IF pc[t] \in {"lock", "erase"} THEN todo[t] \union {id[t]} ELSE todo[t]

LeavingInv ==
  \A t \in Threads :
    /\ pc[t] \in {"snapshot", "idle"} => answer[t] = <<>>
    /\ pc[t] = "return" => answer[t] # <<>>
    /\ pc[t] \in {"erase", "unindex"} /\ call[t].op = "removeFromAllGroups" => answer[t] # <<>>
    /\ pc[t] # "idle" /\ call[t].op = "removeFromAllGroups" /\ answer[t] # <<>> =>
         \A g \in GroupIds : call[t].ai \in members[g] => g \in joined[t] \union Ahead(t)

IInv == TypeOK /\ LockInv /\ WorkInv /\ IndexInv /\ LeaderInv /\ PositionInv /\ LeavingInv

----------------------------------------------------------------------------
LEMMA InitIInv == Init => IInv
<1> SUFFICES ASSUME Init PROVE IInv
  OBVIOUS
<1>1. TypeOK
  BY DEF Init, TypeOK, Labels
<1>2. LockInv
  BY ConstantsAssumption DEF Init, LockInv, Inside
<1>3. IndexInv
  BY DEF Init, IndexInv
<1>4. LeaderInv /\ PositionInv
  BY ConstantsAssumption DEF Init, LeaderInv, PositionInv, Exists
<1>5. WorkInv /\ LeavingInv
  BY DEF Init, WorkInv, LeavingInv, Adding, Removing
<1> QED
  BY <1>1, <1>2, <1>3, <1>4, <1>5 DEF IInv

\* What a thread in the middle of a write works on; it is alone in there.
LEMMA AtWork ==
  ASSUME IInv, NEW t \in Threads, pc[t] \in Adding \union Removing \union {"snapshot"}
  PROVE  /\ call[t] \in Calls /\ call[t].ai \in AIs /\ lock = t
         /\ pc[t] # "snapshot" => id[t] \in GroupIds
         /\ \A u \in Threads : u # t => pc[u] \notin Inside
<1>1. call[t] \in Calls /\ lock = t /\ \A u \in Threads : u # t => pc[u] \notin Inside
  BY DEF IInv, LockInv, Inside, Adding, Removing
<1>2. call[t].op \in {"add", "remove", "removeFromAllGroups"}
  BY DEF IInv, WorkInv
<1>3. call[t].ai \in AIs
  BY <1>1, <1>2 DEF Calls, OfMember, OfGroup, OfAI
<1>4. pc[t] # "snapshot" => id[t] \in GroupIds
  BY DEF IInv, WorkInv
<1> QED
  BY <1>1, <1>3, <1>4

LEMMA InvokeIInv == ASSUME IInv, NEW t \in Threads, NEW c \in Calls, Invoke(t, c) PROVE IInv'
<1> USE ConstantsAssumption, CallsAssumption DEF IInv, Invoke, groupVars, Goto
<1>0. /\ pc[t] \notin {"index", "unindex", "insert"} /\ pc'[t] \notin {"index", "unindex", "insert"}
      /\ \A u \in Threads : u # t => pc'[u] = pc[u] /\ id'[u] = id[u] /\ call'[u] = call[u]
  BY DEF TypeOK
<1>1. TypeOK'
  BY DEF TypeOK, Labels, Calls
<1>2. LockInv'
  BY DEF TypeOK, LockInv, Inside, Calls
<1>7. WorkInv'
  BY DEF TypeOK, LockInv, WorkInv, LeavingInv, Inside, Adding, Removing, Calls, OfMember, OfGroup, OfAI
<1>3. IndexInv'
  BY <1>0 DEF IndexInv
<1>4. LeaderInv'
  BY <1>0 DEF LeaderInv, Exists
<1>5. PositionInv'
  BY DEF TypeOK, LockInv, LeaderInv, PositionInv, Inside, Exists
<1>6. LeavingInv'
  BY DEF TypeOK, LockInv, IndexInv, LeavingInv, Inside, Adding, Ahead
<1> QED
  BY <1>1, <1>2, <1>3, <1>4, <1>5, <1>6, <1>7

LEMMA AcquireIInv == ASSUME IInv, NEW t \in Threads, Acquire(t) PROVE IInv'
<1> USE ConstantsAssumption, CallsAssumption DEF IInv, Acquire, groupVars, Goto
<1>0. /\ pc[t] \notin {"index", "unindex", "insert"} /\ pc'[t] \notin {"index", "unindex", "insert"}
      /\ \A u \in Threads : u # t => pc'[u] = pc[u] /\ id'[u] = id[u] /\ call'[u] = call[u]
  BY DEF TypeOK
<1>1. TypeOK'
  BY DEF TypeOK, Labels, Calls
<1>2. LockInv'
  BY DEF TypeOK, LockInv, Inside, Calls
<1>7. WorkInv'
  BY DEF TypeOK, LockInv, WorkInv, LeavingInv, Inside, Adding, Removing, Calls, OfMember, OfGroup, OfAI
<1>3. IndexInv'
  BY <1>0 DEF IndexInv
<1>4. LeaderInv'
  BY <1>0 DEF LeaderInv, Exists
<1>5. PositionInv'
  BY DEF TypeOK, LockInv, LeaderInv, PositionInv, Inside, Exists
<1>6. LeavingInv'
  BY DEF TypeOK, LockInv, IndexInv, LeavingInv, Inside, Adding, Ahead
<1> QED
  BY <1>1, <1>2, <1>3, <1>4, <1>5, <1>6, <1>7

LEMMA ReturnIInv == ASSUME IInv, NEW t \in Threads, Return(t) PROVE IInv'
<1> USE ConstantsAssumption, CallsAssumption DEF IInv, Return, groupVars, Goto
<1>0. /\ pc[t] \notin {"index", "unindex", "insert"} /\ pc'[t] \notin {"index", "unindex", "insert"}
      /\ \A u \in Threads : u # t => pc'[u] = pc[u] /\ id'[u] = id[u] /\ call'[u] = call[u]
  BY DEF TypeOK
<1>1. TypeOK'
  BY DEF TypeOK, Labels, Calls
<1>2. LockInv'
  BY DEF TypeOK, LockInv, Inside, Calls
<1>7. WorkInv'
  BY DEF TypeOK, LockInv, WorkInv, LeavingInv, Inside, Adding, Removing, Calls, OfMember, OfGroup, OfAI
<1>3. IndexInv'
  BY <1>0 DEF IndexInv
<1>4. LeaderInv'
  BY <1>0 DEF LeaderInv, Exists
<1>5. PositionInv'
  BY DEF TypeOK, LockInv, LeaderInv, PositionInv, Inside, Exists
<1>6. LeavingInv'
  BY DEF TypeOK, LockInv, IndexInv, LeavingInv, Inside, Adding, Ahead
<1> QED
  BY <1>1, <1>2, <1>3, <1>4, <1>5, <1>6, <1>7

LEMMA AddGroupIInv == ASSUME IInv, NEW t \in Threads, AddGroup(t) PROVE IInv'
<1> DEFINE g == id[t]
           a == call[t].ai
<1> USE ConstantsAssumption DEF IInv
<1>0. /\ g \in GroupIds /\ a \in AIs /\ lock = t /\ pc[t] = "create" /\ call[t].op = "add"
      /\ \A u \in Threads : u # t => pc[u] \notin Inside
  BY AtWork DEF AddGroup, WorkInv, Adding
<1>1. /\ pc' = [pc EXCEPT ![t] = "insert"]
      /\ UNCHANGED <<members, index, lock, call, id, todo, answer, joined>>
  BY DEF AddGroup, Goto
<1>2. \/ Exists(g) /\ UNCHANGED <<leader, position>>
      \/ /\ ~Exists(g)
         /\ leader' = [leader EXCEPT ![g] = a]
         /\ position' = [position EXCEPT ![g] = Origin]
  BY DEF AddGroup
<1>3. TypeOK'
  BY <1>0, <1>1, <1>2 DEF TypeOK, Labels
<1>4. LockInv'
  BY <1>0, <1>1 DEF TypeOK, LockInv, Inside
<1>9. WorkInv'
  BY <1>0, <1>1 DEF TypeOK, WorkInv, Adding, Removing
<1>5. IndexInv'
  BY <1>0, <1>1 DEF TypeOK, IndexInv, Inside
<1>6. LeaderInv'
  <2>1. \A h \in GroupIds : members'[h] # {} => leader'[h] \in members'[h]
    BY <1>0, <1>1, <1>2 DEF TypeOK, LeaderInv, Exists
  <2>2. \A h \in GroupIds : h # g /\ members'[h] = {} /\ Exists(h)' => FALSE
    BY <1>0, <1>1, <1>2 DEF TypeOK, LeaderInv, Exists, Inside
  <2>3. pc'[t] = "insert" /\ id'[t] = g /\ \A u \in Threads : u # t => pc'[u] # "insert"
    BY <1>0, <1>1 DEF TypeOK, Inside
  <2>4. Exists(g)' /\ (members'[g] = {} => leader'[g] = call'[t].ai)
    BY <1>0, <1>1, <1>2 DEF TypeOK, LeaderInv, Exists, Inside
  <2> QED
    BY <2>1, <2>2, <2>3, <2>4 DEF LeaderInv
<1>7. PositionInv'
  BY <1>0, <1>2 DEF TypeOK, PositionInv
<1>8. LeavingInv'
  BY <1>0, <1>1 DEF TypeOK, LeavingInv, Adding, Ahead
<1> QED
  BY <1>3, <1>4, <1>5, <1>6, <1>7, <1>8, <1>9

LEMMA AddMemberIInv == ASSUME IInv, NEW t \in Threads, AddMember(t) PROVE IInv'
<1> DEFINE g == id[t]
           a == call[t].ai
<1> USE ConstantsAssumption, CallsAssumption DEF IInv
<1>0. /\ g \in GroupIds /\ call[t] \in Calls /\ a \in AIs /\ lock = t /\ pc[t] = "insert"
      /\ call[t].op = "add" /\ leader[g] # NoAI
      /\ \A u \in Threads : u # t => pc[u] \notin Inside
  BY AtWork DEF AddMember, WorkInv, LeaderInv, Adding, Exists
<1>1. CASE a \in members[g]
  <2>1. /\ pc' = [pc EXCEPT ![t] = "return"] /\ lock' = NoThread
        /\ answer' = [answer EXCEPT ![t] = <<call[t].op, FALSE>>]
        /\ UNCHANGED <<members, leader, position, index, call, id, todo, joined>>
    BY <1>1 DEF AddMember, Fresh, Done, Goto
  <2>2. TypeOK'
    BY <2>1 DEF TypeOK, Labels
  <2>3. LockInv'
    BY <2>1, <1>0 DEF LockInv, Inside, TypeOK
  <2>9. WorkInv'
    BY <2>1, <1>0 DEF WorkInv, Adding, Removing, TypeOK
  <2>4. IndexInv'
    BY <2>1, <1>0 DEF IndexInv, TypeOK, Inside
  <2>5. LeaderInv' /\ PositionInv'
    BY <2>1, <1>0, <1>1 DEF LeaderInv, PositionInv, TypeOK, Exists, Inside
  <2>6. LeavingInv'
    BY <2>1, <1>0 DEF LeavingInv, Adding, Ahead, TypeOK, Inside
  <2> QED
    BY <2>2, <2>3, <2>4, <2>5, <2>6, <2>9
<1>2. CASE a \notin members[g]
  <2>1. /\ pc' = [pc EXCEPT ![t] = "index"]
        /\ members' = [members EXCEPT ![g] = @ \union {a}]
        /\ Rejoins(g, a)
        /\ UNCHANGED <<lock, answer, leader, position, index, call, id, todo>>
    BY <1>2 DEF AddMember, Fresh, Goto
  <2>2. TypeOK'
    BY <2>1, <1>0 DEF TypeOK, Labels, Rejoins
  <2>3. LockInv'
    BY <2>1, <1>0 DEF LockInv, Inside, TypeOK
  <2>9. WorkInv'
    BY <2>1, <1>0 DEF WorkInv, Adding, Removing, TypeOK
  <2>4. index[a][g] = 0
    BY <1>0, <1>2 DEF IndexInv, Inside
  <2>5. IndexInv'
    BY <2>1, <1>0, <2>4 DEF IndexInv, TypeOK, Inside
  <2>6. LeaderInv'
    <3>1. \A h \in GroupIds : members'[h] # {} => leader'[h] \in members'[h]
      BY <2>1, <1>0 DEF LeaderInv, TypeOK
    <3>2. ASSUME NEW h \in GroupIds, members'[h] = {}, Exists(h)' PROVE FALSE
      BY <3>2, <2>1, <1>0 DEF LeaderInv, TypeOK, Exists, Inside
    <3>3. \A u \in Threads : pc'[u] # "insert"
      BY <2>1, <1>0 DEF TypeOK, Inside
    <3> QED
      BY <3>1, <3>2, <3>3 DEF LeaderInv
  <2>8. PositionInv'
    BY <2>1 DEF PositionInv
  <2>7. LeavingInv'
    <3>1. /\ pc'[t] = "index" /\ call'[t].op = "add"
          /\ \A u \in Threads : u # t => pc'[u] = pc[u]
          /\ \A u \in Threads : call'[u] = call[u] /\ answer'[u] = answer[u]
          /\ \A u \in Threads : u # t => Ahead(u)' = Ahead(u)
      BY <2>1, <1>0 DEF TypeOK, Ahead
    <3>2. ASSUME NEW u \in Threads, u # t, pc[u] # "idle", call[u].op = "removeFromAllGroups",
                 answer[u] # <<>>, NEW h \in GroupIds, call[u].ai \in members'[h]
          PROVE h \in joined'[u] \union Ahead(u)
      <4>1. CASE call[u].ai \in members[h]
        <5>1. h \in joined[u] \union Ahead(u)
          BY <4>1, <3>2 DEF LeavingInv
        <5>2. joined[u] \subseteq joined'[u]
          BY <2>1 DEF Rejoins
        <5> QED
          BY <5>1, <5>2
      <4>2. CASE call[u].ai \notin members[h]
        <5>1. h = g /\ call[u].ai = a
          BY <4>2, <3>2, <2>1, <1>0 DEF TypeOK
        <5>2. call[u] # NoCall
          BY <3>2 DEF LockInv
        <5>3. h \in joined'[u]
          BY <5>1, <5>2, <3>2, <2>1 DEF Rejoins
        <5> QED
          BY <5>3
      <4> QED
        BY <4>1, <4>2
    <3> QED
      BY <3>1, <3>2 DEF LeavingInv, Adding
  <2> QED
    BY <2>2, <2>3, <2>5, <2>6, <2>7, <2>8, <2>9
<1> QED
  BY <1>1, <1>2

LEMMA AddIndexIInv == ASSUME IInv, NEW t \in Threads, AddIndex(t) PROVE IInv'
<1> DEFINE g == id[t]
           a == call[t].ai
<1> USE ConstantsAssumption, CallsAssumption DEF IInv, AddIndex, Done, Goto
<1>0. /\ call[t] \in Calls /\ call[t].ai \in AIs /\ lock = t
      /\ pc[t] # "snapshot" => id[t] \in GroupIds
      /\ \A u \in Threads : u # t => pc[u] \notin Inside
  BY AtWork DEF Adding, Removing
<1>1. TypeOK'
  BY <1>0 DEF TypeOK, LockInv, Labels, Inside
<1>2. LockInv'
  BY <1>0 DEF TypeOK, LockInv, Inside
<1>7. WorkInv'
  BY <1>0 DEF TypeOK, LockInv, WorkInv, LeavingInv, Inside, Adding, Removing, Calls, OfMember, OfGroup, OfAI
<1>3. IndexInv'
  <2>1. g \in GroupIds /\ a \in AIs /\ pc[t] = "index" /\ a \in members[g] /\ index[a][g] = 0
    BY <1>0 DEF IndexInv
  <2>2. /\ \A u \in Threads : pc'[u] \notin {"index", "unindex"}
        /\ \A u \in Threads : u # t => pc[u] \notin {"index", "unindex"}
    BY <1>0 DEF TypeOK, Inside
  <2>3. \A b \in AIs, h \in GroupIds : (b = a /\ h = g) \/ index[b][h] = IF b \in members[h] THEN 1 ELSE 0
    BY <2>1, <2>2 DEF IndexInv
  <2>4. index'[a][g] = IF a \in members[g] THEN 1 ELSE 0
    BY <2>1 DEF TypeOK
  <2>5. \A b \in AIs, h \in GroupIds : (b = a /\ h = g) \/ index'[b][h] = index[b][h]
    BY <2>1 DEF TypeOK
  <2>6. \A b \in AIs, h \in GroupIds : index'[b][h] = IF b \in members'[h] THEN 1 ELSE 0
    BY <2>3, <2>4, <2>5
  <2> QED
    BY <2>2, <2>6 DEF IndexInv
<1>4. LeaderInv'
  BY <1>0 DEF TypeOK, LockInv, LeaderInv, Inside, Calls, Exists
<1>5. PositionInv'
  BY <1>0 DEF TypeOK, LockInv, LeaderInv, PositionInv, Inside, Calls, Exists
<1>6. LeavingInv'
  <2>1. /\ pc[t] = "index" /\ pc' = [pc EXCEPT ![t] = "return"]
        /\ answer' = [answer EXCEPT ![t] = <<call[t].op, TRUE>>]
        /\ UNCHANGED <<members, call, id, todo, joined>>
    OBVIOUS
  <2> QED
    BY <2>1, <1>0 DEF TypeOK, LeavingInv, WorkInv, Adding, Ahead
<1> QED
  BY <1>1, <1>2, <1>3, <1>4, <1>5, <1>6, <1>7

LEMMA RemoveMemberIInv == ASSUME IInv, NEW t \in Threads, RemoveMember(t) PROVE IInv'
<1> DEFINE g == id[t]
           a == call[t].ai
<1> USE ConstantsAssumption, CallsAssumption DEF IInv
<1>0. /\ g \in GroupIds /\ call[t] \in Calls /\ a \in AIs /\ lock = t /\ pc[t] = "erase"
      /\ \A u \in Threads : u # t => pc[u] \notin Inside
  BY AtWork DEF RemoveMember, Removing
<1>1. CASE ~(Exists(g) /\ a \in members[g])
  <2>1. /\ pc' = [pc EXCEPT ![t] = "return"] /\ lock' = NoThread
        /\ answer' = [answer EXCEPT ![t] = <<call[t].op, call[t].op # "remove">>]
        /\ UNCHANGED <<members, leader, position, index, call, id, todo, joined>>
    BY <1>1 DEF RemoveMember, Done, Goto
  <2>2. a \notin members[g]
    BY <1>0, <1>1 DEF LeaderInv, Exists, TypeOK
  <2>3. TypeOK'
    BY <2>1 DEF TypeOK, Labels
  <2>4. LockInv'
    BY <2>1, <1>0 DEF LockInv, Inside, TypeOK
  <2>9. WorkInv'
    BY <2>1, <1>0 DEF WorkInv, Adding, Removing, TypeOK
  <2>5. IndexInv'
    BY <2>1, <1>0 DEF IndexInv, TypeOK, Inside
  <2>6. LeaderInv' /\ PositionInv'
    <3>1. \A u \in Threads : pc[u] # "insert" /\ pc'[u] # "insert"
      BY <2>1, <1>0 DEF TypeOK, Inside
    <3> QED
      BY <2>1, <3>1 DEF LeaderInv, PositionInv, Exists
  <2>7. LeavingInv'
    BY <2>1, <2>2, <1>0 DEF LeavingInv, Adding, Ahead, TypeOK, Inside
  <2> QED
    BY <2>3, <2>4, <2>5, <2>6, <2>7, <2>9
<1>2. CASE Exists(g) /\ a \in members[g]
  <2>1. /\ pc' = [pc EXCEPT ![t] = "unindex"]
        /\ members' = [members EXCEPT ![g] = @ \ {a}]
        /\ \E b \in AIs \union {NoAI} :
             /\ leader' = [leader EXCEPT ![g] = b]
             /\ members[g] \ {a} = {} => b = NoAI
             /\ members[g] \ {a} # {} => b \in members[g] \ {a}
        /\ \E p \in {position[g], Infinite} : position' = [position EXCEPT ![g] = p]
        /\ UNCHANGED <<lock, answer, index, call, id, todo, joined>>
    <3>1. leader[g] \in members[g] /\ members[g] \subseteq AIs
      BY <1>0, <1>2 DEF LeaderInv, TypeOK
    <3>2. PICK b \in Heirs(g, a) : leader' = [leader EXCEPT ![g] = b]
      BY <1>2 DEF RemoveMember
    <3>3. /\ b \in AIs \union {NoAI}
          /\ members[g] \ {a} = {} => b = NoAI
          /\ members[g] \ {a} # {} => b \in members[g] \ {a}
      BY <3>1, <3>2, <1>2 DEF Heirs
    <3>4. \E p \in {position[g], Infinite} : position' = [position EXCEPT ![g] = p]
      BY <1>2 DEF RemoveMember
    <3> QED
      BY <3>2, <3>3, <3>4, <1>2 DEF RemoveMember, Goto
  <2>2. TypeOK'
    BY <2>1, <1>0 DEF TypeOK, Labels
  <2>3. LockInv'
    BY <2>1, <1>0 DEF LockInv, Inside, TypeOK
  <2>9. WorkInv'
    BY <2>1, <1>0 DEF WorkInv, Adding, Removing, TypeOK
  <2>4. index[a][g] = 1
    BY <1>0, <1>2 DEF IndexInv, Inside
  <2>5. IndexInv'
    BY <2>1, <1>0, <2>4 DEF IndexInv, TypeOK, Inside
  <2>6. LeaderInv'
    <3>1. \A h \in GroupIds : members'[h] # {} => leader'[h] \in members'[h]
      BY <2>1, <1>0 DEF LeaderInv, TypeOK
    <3>2. ASSUME NEW h \in GroupIds, members'[h] = {}, Exists(h)' PROVE FALSE
      BY <3>2, <2>1, <1>0 DEF LeaderInv, TypeOK, Exists, Inside
    <3>3. \A u \in Threads : pc'[u] # "insert"
      BY <2>1, <1>0 DEF TypeOK, Inside
    <3> QED
      BY <3>1, <3>2, <3>3 DEF LeaderInv
  <2>8. PositionInv'
    BY <2>1, <1>0 DEF PositionInv, TypeOK
  <2>7. LeavingInv'
    BY <2>1, <1>0 DEF LeavingInv, Adding, Ahead, TypeOK, Inside
  <2> QED
    BY <2>2, <2>3, <2>5, <2>6, <2>7, <2>8, <2>9
<1> QED
  BY <1>1, <1>2

LEMMA RemoveIndexIInv == ASSUME IInv, NEW t \in Threads, RemoveIndex(t) PROVE IInv'
<1> DEFINE g == id[t]
           a == call[t].ai
<1> USE ConstantsAssumption, CallsAssumption DEF IInv, RemoveIndex, Done, Goto
<1>0. /\ call[t] \in Calls /\ call[t].ai \in AIs /\ lock = t
      /\ pc[t] # "snapshot" => id[t] \in GroupIds
      /\ \A u \in Threads : u # t => pc[u] \notin Inside
  BY AtWork DEF Adding, Removing
<1>1. TypeOK'
  BY <1>0 DEF TypeOK, LockInv, Labels, Inside
<1>2. LockInv'
  BY <1>0 DEF TypeOK, LockInv, Inside
<1>7. WorkInv'
  BY <1>0 DEF TypeOK, LockInv, WorkInv, LeavingInv, Inside, Adding, Removing, Calls, OfMember, OfGroup, OfAI
<1>3. IndexInv'
  <2>1. g \in GroupIds /\ a \in AIs /\ pc[t] = "unindex" /\ a \notin members[g] /\ index[a][g] = 1
    BY <1>0 DEF IndexInv
  <2>2. /\ \A u \in Threads : pc'[u] \notin {"index", "unindex"}
        /\ \A u \in Threads : u # t => pc[u] \notin {"index", "unindex"}
    BY <1>0 DEF TypeOK, Inside
  <2>3. \A b \in AIs, h \in GroupIds : (b = a /\ h = g) \/ index[b][h] = IF b \in members[h] THEN 1 ELSE 0
    BY <2>1, <2>2 DEF IndexInv
  <2>4. index'[a][g] = IF a \in members[g] THEN 1 ELSE 0
    BY <2>1 DEF TypeOK
  <2>5. \A b \in AIs, h \in GroupIds : (b = a /\ h = g) \/ index'[b][h] = index[b][h]
    BY <2>1 DEF TypeOK
  <2>6. \A b \in AIs, h \in GroupIds : index'[b][h] = IF b \in members'[h] THEN 1 ELSE 0
    BY <2>3, <2>4, <2>5
  <2> QED
    BY <2>2, <2>6 DEF IndexInv
<1>4. LeaderInv'
  BY <1>0 DEF TypeOK, LockInv, LeaderInv, Inside, Calls, Exists
<1>5. PositionInv'
  BY <1>0 DEF TypeOK, LockInv, LeaderInv, PositionInv, Inside, Calls, Exists
<1>6. LeavingInv'
  <2>1. /\ pc[t] = "unindex" /\ pc' = [pc EXCEPT ![t] = "return"]
        /\ answer' = [answer EXCEPT ![t] = <<call[t].op, TRUE>>]
        /\ UNCHANGED <<members, call, id, todo, joined>>
    OBVIOUS
  <2> QED
    BY <2>1, <1>0 DEF TypeOK, LeavingInv, WorkInv, Adding, Ahead
<1> QED
  BY <1>1, <1>2, <1>3, <1>4, <1>5, <1>6, <1>7

LEMMA SnapshotIInv == ASSUME IInv, NEW t \in Threads, Snapshot(t) PROVE IInv'
<1> USE ConstantsAssumption, CallsAssumption DEF IInv, Snapshot, groupVars, Done, Goto
<1>0. /\ call[t] \in Calls /\ call[t].ai \in AIs /\ lock = t
      /\ pc[t] # "snapshot" => id[t] \in GroupIds
      /\ \A u \in Threads : u # t => pc[u] \notin Inside
  BY AtWork DEF Adding, Removing
<1>1. TypeOK'
  BY <1>0 DEF TypeOK, GroupsOf, Labels
<1>2. LockInv'
  BY <1>0 DEF TypeOK, LockInv, Inside
<1>7. WorkInv'
  BY <1>0 DEF TypeOK, LockInv, WorkInv, LeavingInv, Inside, Adding, Removing, Calls, OfMember, OfGroup, OfAI
<1>3. IndexInv'
  BY <1>0 DEF TypeOK, LockInv, IndexInv, Inside
<1>4. LeaderInv'
  BY <1>0 DEF TypeOK, LockInv, LeaderInv, Inside, Calls, Exists
<1>5. PositionInv'
  BY <1>0 DEF TypeOK, LockInv, LeaderInv, PositionInv, Inside, Calls, Exists
<1>6. LeavingInv'
  <2>1. /\ call[t] \in Calls /\ lock = t
        /\ \A u \in Threads : u # t => pc[u] \notin Inside
    BY DEF LockInv, Inside
  <2>2. \A u \in Threads : pc[u] \notin {"index", "unindex"}
    BY <2>1 DEF Inside
  <2>3. \A g \in GroupIds : call[t].ai \in members[g] => index[call[t].ai][g] = 1
    BY <1>0, <2>2 DEF IndexInv
  <2>4. \A g \in GroupIds : call[t].ai \in members[g] => g \in todo'[t]
    BY <2>3 DEF TypeOK, GroupsOf
  <2> QED
    BY <2>1, <2>4 DEF TypeOK, LeavingInv, Inside, Adding, Ahead
<1> QED
  BY <1>1, <1>2, <1>3, <1>4, <1>5, <1>6, <1>7

LEMMA NextGroupIInv == ASSUME IInv, NEW t \in Threads, NextGroup(t) PROVE IInv'
<1> USE ConstantsAssumption, CallsAssumption DEF IInv, NextGroup, groupVars, Goto
<1>1. TypeOK'
  BY DEF TypeOK, Labels, Calls
<1>2. LockInv'
  BY DEF TypeOK, LockInv, Inside, Calls
<1>7. WorkInv'
  BY DEF TypeOK, LockInv, WorkInv, LeavingInv, Inside, Adding, Removing, Calls, OfMember, OfGroup, OfAI
<1>3. IndexInv'
  BY DEF TypeOK, LockInv, IndexInv, Inside
<1>4. LeaderInv'
  <2>1. \A u \in Threads : u # t => pc'[u] = pc[u] /\ id'[u] = id[u]
    BY DEF TypeOK
  <2>2. pc'[t] = "lock" /\ pc[t] = "return"
    BY DEF TypeOK
  <2> QED
    BY <2>1, <2>2 DEF LeaderInv, Exists
<1>5. PositionInv'
  BY DEF TypeOK, LockInv, LeaderInv, PositionInv, Inside, Exists
<1>6. LeavingInv'
  BY DEF TypeOK, LockInv, IndexInv, LeavingInv, Inside, Adding, Ahead
<1> QED
  BY <1>1, <1>2, <1>3, <1>4, <1>5, <1>6, <1>7

LEMMA UpdateIInv == ASSUME IInv, NEW t \in Threads, Update(t) PROVE IInv'
<1> USE ConstantsAssumption, CallsAssumption DEF IInv, Update, Average, Done, Goto, Exists
<1>1. TypeOK'
  BY DEF TypeOK, Labels, Calls
<1>2. LockInv'
  BY DEF TypeOK, LockInv, Inside, Calls
<1>7. WorkInv'
  BY DEF TypeOK, LockInv, WorkInv, LeavingInv, Inside, Adding, Removing, Calls, OfMember, OfGroup, OfAI
<1>3. IndexInv'
  BY DEF TypeOK, LockInv, IndexInv, Inside
<1>4. LeaderInv'
  BY DEF TypeOK, LockInv, LeaderInv, Inside
<1>5. PositionInv'
  BY DEF TypeOK, LockInv, LeaderInv, PositionInv, Inside
<1>6. LeavingInv'
  BY DEF TypeOK, LockInv, IndexInv, LeavingInv, Inside, Adding, Ahead
<1> QED
  BY <1>1, <1>2, <1>3, <1>4, <1>5, <1>6, <1>7

LEMMA ReadIInv == ASSUME IInv, NEW t \in Threads, Read(t) PROVE IInv'
<1> USE ConstantsAssumption DEF IInv
<1>0. PICK v : answer' = [answer EXCEPT ![t] = <<call[t].op, v>>]
  BY DEF Read, Done
<1>1. /\ pc[t] = "read" /\ pc' = [pc EXCEPT ![t] = "return"] /\ lock' = NoThread
      /\ UNCHANGED <<members, leader, position, index, call, id, todo, joined>>
      /\ call[t].op # "removeFromAllGroups"
  BY DEF Read, Reads, groupVars, Done, Goto
<1>2. TypeOK'
  BY <1>0, <1>1 DEF TypeOK, Labels
<1>3. LockInv'
  BY <1>0, <1>1 DEF TypeOK, LockInv, Inside
<1>7. WorkInv'
  BY <1>0, <1>1 DEF TypeOK, WorkInv, Adding, Removing
<1>4. IndexInv'
  BY <1>1 DEF TypeOK, IndexInv
<1>5. LeaderInv' /\ PositionInv'
  BY <1>1 DEF TypeOK, LeaderInv, PositionInv, Exists
<1>6. LeavingInv'
  BY <1>0, <1>1 DEF TypeOK, LeavingInv, Adding, Ahead
<1> QED
  BY <1>2, <1>3, <1>4, <1>5, <1>6, <1>7

LEMMA StutterIInv == IInv /\ UNCHANGED vars => IInv'
<1> SUFFICES ASSUME IInv, UNCHANGED vars PROVE IInv'
  OBVIOUS
<1> USE DEF IInv, vars, groupVars, threadVars
<1>1. TypeOK' /\ LockInv' /\ WorkInv'
  BY DEF TypeOK, LockInv, WorkInv
<1>2. IndexInv'
  BY DEF IndexInv
<1>3. LeaderInv' /\ PositionInv'
  BY DEF LeaderInv, PositionInv, Exists
<1>4. LeavingInv'
  BY DEF LeavingInv, Ahead
<1> QED
  BY <1>1, <1>2, <1>3, <1>4

LEMMA InductiveIInv == IInv /\ [Next]_vars => IInv'
<1> SUFFICES ASSUME IInv, [Next]_vars PROVE IInv'
  OBVIOUS
<1>1. ASSUME NEW t \in Threads, Step(t) PROVE IInv'
  BY <1>1, AcquireIInv, ReturnIInv, AddGroupIInv, AddMemberIInv, AddIndexIInv, RemoveMemberIInv,
     RemoveIndexIInv, SnapshotIInv, NextGroupIInv, UpdateIInv, ReadIInv DEF Step
<1>2. ASSUME NEW t \in Threads, NEW c \in Calls, Invoke(t, c) PROVE IInv'
  BY <1>2, InvokeIInv
<1> QED
  BY <1>1, <1>2, StutterIInv DEF Next

LEMMA Invariance == Spec => []IInv
BY InitIInv, InductiveIInv, PTL DEF Spec

----------------------------------------------------------------------------
\* No value of a wrong kind ever gets into the manager.
THEOREM TypeCorrect == Spec => []TypeOK
<1>1. IInv => TypeOK
  BY DEF IInv
<1> QED
  BY <1>1, Invariance, PTL

\* The index of memberships never disagrees with the groups when the lock is free.
THEOREM IndexCorrect == Spec => []IndexAgrees
<1>1. IInv => IndexAgrees
  BY ConstantsAssumption DEF IInv, LockInv, IndexInv, IndexAgrees, Inside
<1> QED
  BY <1>1, Invariance, PTL

\* Every group is led by one of its members when the lock is free.
THEOREM LeaderCorrect == Spec => []LeaderIsMember
<1>1. IInv => LeaderIsMember
  BY ConstantsAssumption DEF IInv, TypeOK, LockInv, LeaderInv, LeaderIsMember, Exists, Inside
<1> QED
  BY <1>1, Invariance, PTL

\* The average position is never taken over an empty group.
THEOREM AverageDefined == Spec => []NoEmptyAverage
<1>1. IInv => NoEmptyAverage
  BY DEF IInv, PositionInv, NoEmptyAverage
<1> QED
  BY <1>1, Invariance, PTL

\* removeFromAllGroups leaves the AI in no group it was not added to meanwhile.
THEOREM AllGroupsLeft == Spec => []LeavesAllGroups
<1>1. IInv => LeavesAllGroups
  BY DEF IInv, TypeOK, LeavingInv, LeavesAllGroups, Ahead
<1> QED
  BY <1>1, Invariance, PTL

\* The spin lock is held by a thread in the middle of a method, never kept.
THEOREM LockCorrect == Spec => []LockedInside
<1>1. IInv => LockedInside
  BY DEF IInv, LockInv, LockedInside
<1> QED
  BY <1>1, Invariance, PTL

\* The groups are consistent for whoever enters the manager, in every interleaving
\* of any number of threads.
THEOREM ConsistentAlways == Spec => []Consistent
<1> QED
  BY TypeCorrect, IndexCorrect, LeaderCorrect, AverageDefined, LockCorrect, PTL DEF Consistent

----------------------------------------------------------------------------
(* GroupMgr implements GroupService                                        *)

\* Only removeFromAllGroups goes on when it has its answer, and leaves each group
\* of its list once; the other methods work on the group they are called for.
AnswerInv ==
  \A t \in Threads :
    /\ pc[t] = "idle" => call[t] = NoCall
    /\ answer[t] # <<>> =>
         pc[t] = "return" \/ (call[t].op = "removeFromAllGroups" /\ pc[t] \in {"lock", "erase", "unindex"})
    /\ answer[t] # <<>> /\ call[t].op = "removeFromAllGroups" => answer[t] = <<call[t].op, TRUE>>
    /\ todo[t] # {} => pc[t] # "idle" /\ call[t].op = "removeFromAllGroups"
    /\ Evicting(t) => id[t] \notin todo[t]
    /\ pc[t] # "idle" /\ call[t].op # "removeFromAllGroups" => id[t] = call[t].id

\* A group that add is about to fill has not been averaged.
NewGroupInv == \A t \in Threads : pc[t] = "insert" /\ members[id[t]] = {} => position[id[t]] = Origin

RefInv == IInv /\ AnswerInv /\ NewGroupInv

LEMMA InitRefInv == Init => RefInv
<1> SUFFICES ASSUME Init PROVE AnswerInv /\ NewGroupInv
  BY InitIInv DEF RefInv
<1> QED
  BY DEF Init, AnswerInv, NewGroupInv, Evicting

\* What the step of a thread may do to the others.
LEMMA AloneInside ==
  ASSUME IInv, NEW t \in Threads, pc[t] \in Inside
  PROVE  lock = t /\ \A u \in Threads : u # t => pc[u] \notin Inside
BY DEF IInv, LockInv

LEMMA AnswerStep ==
  ASSUME RefInv, NEW t \in Threads, Step(t) \/ \E c \in Calls : Invoke(t, c)
  PROVE  AnswerInv'
<1> USE DEF RefInv
<1>0. TypeOK /\ call[t] \in Calls \union {NoCall}
  BY DEF IInv, TypeOK
<1>1. ASSUME NEW c \in Calls, Invoke(t, c) PROVE AnswerInv'
  <2>1. answer[t] = <<>>
    BY <1>1 DEF Invoke, IInv, LeavingInv
  <2> QED
    BY <1>1, <1>0, <2>1 DEF Invoke, Goto, AnswerInv, Evicting, TypeOK
<1>2. CASE Acquire(t)
  BY <1>2, <1>0 DEF Acquire, Goto, AnswerInv, Evicting, TypeOK
<1>3. CASE Return(t)
  BY <1>3, <1>0 DEF Return, Goto, AnswerInv, Evicting, TypeOK
<1>4. CASE AddGroup(t)
  BY <1>4, <1>0 DEF AddGroup, Goto, AnswerInv, Evicting, TypeOK
<1>5. CASE AddMember(t)
  <2>1. call[t].op = "add" /\ UNCHANGED <<call, id, todo>>
    BY <1>5 DEF AddMember, IInv, WorkInv, Adding
  <2>2. /\ \A u \in Threads \ {t} : pc'[u] = pc[u] /\ answer'[u] = answer[u]
        /\ pc'[t] = "return" \/ (pc'[t] = "index" /\ answer'[t] = answer[t])
    BY <1>5, <1>0 DEF AddMember, Done, Goto, TypeOK
  <2>3. pc[t] = "insert"
    BY <1>5 DEF AddMember
  <2> QED
    BY <2>1, <2>2, <2>3 DEF AnswerInv, Evicting
<1>6. CASE AddIndex(t)
  BY <1>6, <1>0 DEF AddIndex, Goto, Done, AnswerInv, Evicting, TypeOK, IInv, WorkInv, Adding
<1>7. CASE RemoveMember(t)
  <2>1. /\ pc[t] = "erase" /\ call[t].op \in {"remove", "removeFromAllGroups"}
        /\ UNCHANGED <<call, id, todo>>
    BY <1>7 DEF RemoveMember, IInv, WorkInv, Removing
  <2>2. \/ pc' = [pc EXCEPT ![t] = "unindex"] /\ UNCHANGED answer
        \/ /\ pc' = [pc EXCEPT ![t] = "return"]
           /\ answer' = [answer EXCEPT ![t] = <<call[t].op, call[t].op # "remove">>]
    BY <1>7 DEF RemoveMember, Goto, Done
  <2>3. call[t].op = "removeFromAllGroups" => <<call[t].op, call[t].op # "remove">> = <<call[t].op, TRUE>>
    <3>1. call[t].op = "removeFromAllGroups" => (call[t].op # "remove") = TRUE
      OBVIOUS
    <3> QED
      BY <3>1
  <2>4. \A u \in Threads \ {t} : pc'[u] = pc[u] /\ answer'[u] = answer[u]
    BY <2>2, <1>0 DEF TypeOK
  <2>5. /\ pc'[t] # "idle" /\ ~Evicting(t)'
        /\ pc'[t] = "return" \/ (pc'[t] = "unindex" /\ answer'[t] = answer[t])
        /\ answer'[t] = answer[t] \/ answer'[t] = <<call[t].op, call[t].op # "remove">>
    BY <2>2, <1>0 DEF TypeOK, Evicting
  <2>6. answer'[t] # <<>> /\ call[t].op = "removeFromAllGroups" => answer'[t] = <<call[t].op, TRUE>>
    BY <2>1, <2>3, <2>5 DEF AnswerInv
  <2>7. /\ answer'[t] # <<>> => pc'[t] = "return" \/ (call[t].op = "removeFromAllGroups" /\ pc'[t] = "unindex")
        /\ todo[t] # {} => call[t].op = "removeFromAllGroups"
    BY <2>1, <2>5 DEF AnswerInv
  <2> QED
    BY <2>1, <2>4, <2>5, <2>6, <2>7 DEF AnswerInv, Evicting
<1>8. CASE RemoveIndex(t)
  BY <1>8, <1>0 DEF RemoveIndex, Goto, Done, AnswerInv, Evicting, TypeOK, IInv, WorkInv, Removing
<1>9. CASE Snapshot(t)
  BY <1>9, <1>0 DEF Snapshot, Goto, Done, AnswerInv, Evicting, TypeOK, IInv, WorkInv
<1>10. CASE NextGroup(t)
  <2>1. PICK g \in todo[t] :
             /\ id' = [id EXCEPT ![t] = g] /\ todo' = [todo EXCEPT ![t] = @ \ {g}]
             /\ pc[t] = "return" /\ pc' = [pc EXCEPT ![t] = "lock"] /\ UNCHANGED <<call, answer>>
    BY <1>10 DEF NextGroup, Goto
  <2>2. /\ id'[t] = g /\ todo'[t] = todo[t] \ {g} /\ pc'[t] = "lock"
        /\ \A u \in Threads \ {t} : id'[u] = id[u] /\ todo'[u] = todo[u] /\ pc'[u] = pc[u]
    BY <2>1, <1>0 DEF TypeOK
  <2>3. call[t].op = "removeFromAllGroups"
    BY <2>1 DEF AnswerInv
  <2> QED
    BY <2>1, <2>2, <2>3, ZenonT(60) DEF AnswerInv, Evicting
<1>11. CASE Update(t)
  BY <1>11, <1>0 DEF Update, Goto, Done, AnswerInv, Evicting, TypeOK
<1>12. CASE Read(t)
  <2>1. PICK v : Done(t, v) /\ UNCHANGED <<call, id, todo>>
    BY <1>12 DEF Read
  <2>2. pc[t] = "read" /\ call[t].op # "removeFromAllGroups"
    BY <1>12 DEF Read, Reads
  <2> QED
    BY <2>1, <2>2, <1>0 DEF Goto, Done, AnswerInv, Evicting, TypeOK
<1> QED
  BY <1>1, <1>2, <1>3, <1>4, <1>5, <1>6, <1>7, <1>8, <1>9, <1>10, <1>11, <1>12 DEF Step

LEMMA NewGroupStep ==
  ASSUME RefInv, NEW t \in Threads, Step(t) \/ \E c \in Calls : Invoke(t, c)
  PROVE  NewGroupInv'
<1> USE DEF RefInv
<1>0. TypeOK
  BY DEF IInv
<1>1. ASSUME NEW u \in Threads, pc'[u] = "insert", members'[id'[u]] = {}
      PROVE  position'[id'[u]] = Origin
  <2>1. CASE u = t
    <3>1. AddGroup(t)
      BY <1>0, <1>1, <2>1 DEF Step, Invoke, Acquire, Return, AddMember, AddIndex, RemoveMember,
         RemoveIndex, Snapshot, NextGroup, Update, Read, Done, Goto, TypeOK
    <3>2. id'[t] = id[t] /\ id[t] \in GroupIds /\ members' = members
      BY <3>1 DEF AddGroup, IInv, WorkInv, Adding
    <3>3. ~Exists(id[t])
      BY <3>1, <3>2, <1>1, <2>1, AloneInside DEF AddGroup, IInv, LeaderInv, Inside
    <3> QED
      BY <3>1, <3>2, <3>3, <1>0, <2>1 DEF AddGroup, TypeOK
  <2>2. CASE u # t
    <3>1. pc[u] = "insert" /\ id'[u] = id[u]
      BY <1>0, <1>1, <2>2 DEF Step, Invoke, Acquire, Return, AddGroup, AddMember, AddIndex, RemoveMember,
         RemoveIndex, Snapshot, NextGroup, Update, Read, Done, Goto, TypeOK
    <3>2. lock = u /\ pc[t] \notin Inside
      BY <3>1, <2>2, AloneInside DEF Inside
    <3>3. UNCHANGED <<members, position>>
      BY <3>2, <1>0, <2>2 DEF Step, Invoke, Acquire, Return, AddGroup, AddMember, AddIndex, RemoveMember,
         RemoveIndex, Snapshot, NextGroup, Update, Read, Inside, groupVars
    <3> QED
      BY <3>1, <3>3, <1>1 DEF NewGroupInv
  <2> QED
    BY <2>1, <2>2
<1> QED
  BY <1>1 DEF NewGroupInv

LEMMA InductiveRefInv == RefInv /\ [Next]_vars => RefInv'
<1>1. ASSUME RefInv, Next PROVE RefInv'
  BY <1>1, InductiveIInv, AnswerStep, NewGroupStep DEF Next, RefInv
<1>2. ASSUME RefInv, UNCHANGED vars PROVE RefInv'
  <2>1. IInv'
    BY <1>2, InductiveIInv DEF RefInv
  <2>2. AnswerInv' /\ NewGroupInv'
    BY <1>2 DEF RefInv, AnswerInv, NewGroupInv, Evicting, vars, groupVars, threadVars
  <2> QED
    BY <2>1, <2>2 DEF RefInv
<1> QED
  BY <1>1, <1>2

\* What a thread sees of its call that is outside a call of this kind, or before the
\* step that has its effect.
LEMMA NotYet ==
  ASSUME RefInv, NEW t \in Threads,
         pc[t] \in {"create", "insert", "snapshot", "read"} \/ (pc[t] = "erase" /\ call[t].op = "remove")
  PROVE  answer[t] = <<>> /\ Answered[t] = <<>> /\ call[t] \in Calls /\ call[t] # NoCall
BY CallsAssumption DEF RefInv, AnswerInv, IInv, LockInv, Answered

\* A step of the thread that leaves its answer and its list as they are seen.
LEMMA SameAnswer ==
  ASSUME TypeOK, NEW t \in Threads,
         \A u \in Threads \ {t} : pc'[u] = pc[u] /\ call'[u] = call[u] /\ answer'[u] = answer[u],
         Answered'[t] = Answered[t]
  PROVE  Answered' = Answered
BY DEF Answered

LEMMA SameToLeave ==
  ASSUME TypeOK, NEW t \in Threads,
         \A u \in Threads \ {t} :
           pc'[u] = pc[u] /\ answer'[u] = answer[u] /\ todo'[u] = todo[u] /\ id'[u] = id[u],
         ToLeave'[t] = ToLeave[t]
  PROVE  ToLeave' = ToLeave
BY DEF ToLeave, Evicting

LEMMA SameGroups ==
  ASSUME UNCHANGED <<members, leader, position>>
  PROVE  Service!groupVars' = Service!groupVars
BY DEF Service!groupVars, LeaderSeen, PositionSeen

LEMMA InvokeRefines ==
  ASSUME RefInv, NEW t \in Threads, NEW c \in Calls, Invoke(t, c) PROVE Service!Invoke(t, c)
<1>0. TypeOK /\ answer[t] = <<>> /\ call[t] = NoCall
  BY DEF RefInv, IInv, LeavingInv, AnswerInv, Invoke
<1>1. Service!groupVars' = Service!groupVars
  BY SameGroups DEF Invoke, groupVars
<1>2. Answered' = Answered
  BY <1>0, SameAnswer DEF Invoke, Goto, Answered, TypeOK
<1>3. ToLeave' = ToLeave
  BY <1>0, SameToLeave DEF Invoke, Goto, ToLeave, Evicting, TypeOK
<1> QED
  BY <1>0, <1>1, <1>2, <1>3 DEF Invoke, Service!Invoke

LEMMA AcquireRefines ==
  ASSUME RefInv, NEW t \in Threads, Acquire(t) PROVE UNCHANGED Service!vars
<1>0. TypeOK /\ (answer[t] # <<>> => call[t].op = "removeFromAllGroups")
  BY DEF RefInv, IInv, AnswerInv, Acquire
<1>1. Service!groupVars' = Service!groupVars
  BY SameGroups DEF Acquire, groupVars
<1>2. Answered' = Answered
  BY <1>0, SameAnswer DEF Acquire, Goto, Answered, TypeOK
<1>3. ToLeave' = ToLeave
  BY <1>0, SameToLeave DEF Acquire, Goto, ToLeave, Evicting, TypeOK
<1> QED
  BY <1>1, <1>2, <1>3 DEF Acquire, Service!vars

LEMMA ReturnRefines ==
  ASSUME RefInv, NEW t \in Threads, Return(t) PROVE Service!Return(t)
<1>0. TypeOK /\ answer[t] # <<>>
  BY DEF RefInv, IInv, LeavingInv, Return
<1>1. Service!groupVars' = Service!groupVars
  BY SameGroups DEF Return, groupVars
<1>2. Answered[t] # <<>> /\ Answered' = [Answered EXCEPT ![t] = <<>>]
  BY <1>0 DEF Return, Goto, Answered, TypeOK
<1>3. ToLeave[t] = {} /\ ToLeave' = ToLeave
  BY <1>0, SameToLeave DEF Return, Goto, ToLeave, Evicting, TypeOK
<1> QED
  BY <1>1, <1>2, <1>3 DEF Return, Service!Return

LEMMA AddGroupRefines ==
  ASSUME RefInv, NEW t \in Threads, AddGroup(t) PROVE UNCHANGED Service!vars
<1>0. TypeOK /\ id[t] \in GroupIds
  BY AtWork DEF RefInv, IInv, AddGroup, Adding
<1>1. ~Exists(id[t]) => members[id[t]] = {}
  BY <1>0, ConstantsAssumption DEF RefInv, IInv, LeaderInv, TypeOK, Exists
<1>2. LeaderSeen' = LeaderSeen /\ PositionSeen' = PositionSeen
  BY <1>0, <1>1 DEF AddGroup, LeaderSeen, PositionSeen, TypeOK
<1>3. Answered' = Answered
  BY <1>0, SameAnswer DEF AddGroup, Goto, Answered, TypeOK
<1>4. ToLeave' = ToLeave
  BY <1>0, SameToLeave DEF AddGroup, Goto, ToLeave, Evicting, TypeOK
<1> QED
  BY <1>2, <1>3, <1>4 DEF AddGroup, Service!vars, Service!groupVars

LEMMA AddMemberRefines ==
  ASSUME RefInv, NEW t \in Threads, AddMember(t) PROVE Service!Join(t)
<1> DEFINE g == id[t]
           a == call[t].ai
<1>0. /\ TypeOK /\ g \in GroupIds /\ a \in AIs /\ call[t].op = "add" /\ call[t] # NoCall
      /\ Answered[t] = <<>> /\ pc[t] = "insert" /\ call[t].op # "removeFromAllGroups"
  BY AtWork, NotYet DEF RefInv, IInv, AddMember, WorkInv, Adding
<1>1. g = call[t].id
  BY <1>0 DEF RefInv, AnswerInv
<1>2. /\ members[g] = {} => leader[g] = a /\ position[g] = Origin
      /\ members[g] # {} => leader[g] \in members[g]
  BY <1>0 DEF RefInv, IInv, LeaderInv, NewGroupInv
<1>3. /\ members' = [members EXCEPT ![g] = @ \union {a}]
      /\ UNCHANGED <<leader, position, call>>
  BY <1>0 DEF AddMember, Fresh, TypeOK
<1>4. LeaderSeen' = [LeaderSeen EXCEPT ![g] = IF members[g] = {} THEN a ELSE @]
  BY <1>0, <1>2, <1>3 DEF LeaderSeen, TypeOK
<1>5. PositionSeen' = [PositionSeen EXCEPT ![g] = IF members[g] = {} THEN Origin ELSE @]
  BY <1>0, <1>2, <1>3 DEF PositionSeen, TypeOK
<1>6. Answered' = [Answered EXCEPT ![t] = <<call[t].op, a \notin members[g]>>]
  <2>1. CASE a \in members[g]
    <3>1. (a \notin members[g]) = FALSE
      BY <2>1
    <3>2. answer'[t] = <<call[t].op, FALSE>> /\ pc'[t] = "return"
      BY <1>0, <2>1 DEF AddMember, Fresh, Done, Goto, TypeOK
    <3>3. \A u \in Threads \ {t} : answer'[u] = answer[u] /\ pc'[u] = pc[u]
      BY <1>0, <2>1 DEF AddMember, Fresh, Done, Goto, TypeOK
    <3> QED
      BY <3>1, <3>2, <3>3, <1>3 DEF Answered
  <2>2. CASE a \notin members[g]
    <3>1. (a \notin members[g]) = TRUE
      BY <2>2
    <3>2. pc' = [pc EXCEPT ![t] = "index"] /\ answer' = answer
      BY <2>2 DEF AddMember, Fresh, Goto
    <3> QED
      BY <3>1, <3>2, <1>0, <1>3 DEF Answered, TypeOK
  <2> QED
    BY <2>1, <2>2
<1>7. ToLeave' = ToLeave
  <2>1. /\ todo' = todo /\ id' = id /\ ~Evicting(t) /\ ~Evicting(t)'
        /\ \A u \in Threads \ {t} : answer'[u] = answer[u] /\ pc'[u] = pc[u]
    BY <1>0 DEF AddMember, Fresh, Done, Goto, TypeOK, Evicting
  <2> QED
    BY <1>0, <2>1, SameToLeave DEF ToLeave
<1> QED
  BY <1>0, <1>1, <1>3, <1>4, <1>5, <1>6, <1>7 DEF Service!Join, Service!Pending, Service!Answer

LEMMA AddIndexRefines ==
  ASSUME RefInv, NEW t \in Threads, AddIndex(t) PROVE UNCHANGED Service!vars
<1>0. TypeOK
  BY DEF RefInv, IInv
<1>1. Service!groupVars' = Service!groupVars
  BY SameGroups DEF AddIndex
<1>2. Answered' = Answered
  BY <1>0, SameAnswer DEF AddIndex, Done, Goto, Answered, TypeOK
<1>3. ToLeave' = ToLeave
  BY <1>0, SameToLeave DEF AddIndex, Done, Goto, ToLeave, Evicting, TypeOK
<1> QED
  BY <1>1, <1>2, <1>3 DEF AddIndex, Service!vars

LEMMA RemoveIndexRefines ==
  ASSUME RefInv, NEW t \in Threads, RemoveIndex(t) PROVE UNCHANGED Service!vars
<1>0. TypeOK
  BY DEF RefInv, IInv
<1>1. Service!groupVars' = Service!groupVars
  BY SameGroups DEF RemoveIndex
<1>2. Answered' = Answered
  BY <1>0, SameAnswer DEF RemoveIndex, Done, Goto, Answered, TypeOK
<1>3. ToLeave' = ToLeave
  BY <1>0, SameToLeave DEF RemoveIndex, Done, Goto, ToLeave, Evicting, TypeOK
<1> QED
  BY <1>1, <1>2, <1>3 DEF RemoveIndex, Service!vars

\* Whatever is removed from a group, its leader and its position are right again.
LEMMA RemoveMemberLeaves ==
  ASSUME RefInv, NEW t \in Threads, RemoveMember(t)
  PROVE  Service!Leave(id[t], call[t].ai)
<1> DEFINE g == id[t]
           a == call[t].ai
           rest == members[g] \ {a}
<1>0. TypeOK /\ g \in GroupIds /\ a \in AIs
  BY AtWork DEF RefInv, IInv, RemoveMember, Removing
<1>1. members[g] # {} => leader[g] \in members[g] /\ leader[g] # NoAI
  BY <1>0, ConstantsAssumption DEF RefInv, IInv, LeaderInv, TypeOK
<1>2. CASE a \in members[g]
  <2>1. PICK b \in Heirs(g, a) :
             /\ members' = [members EXCEPT ![g] = @ \ {a}]
             /\ leader' = [leader EXCEPT ![g] = b]
             /\ position' = [position EXCEPT ![g] = IF members[g] \subseteq {a} THEN Infinite ELSE @]
    BY <1>1, <1>2 DEF RemoveMember, Exists
  <2>2. /\ b \in rest \union {NoAI}
        /\ (b = NoAI) <=> (rest = {})
        /\ LeaderSeen[g] \in rest => b = LeaderSeen[g]
    BY <1>0, <1>1, <1>2, ConstantsAssumption DEF Heirs, LeaderSeen, TypeOK
  <2>3. LeaderSeen' = [LeaderSeen EXCEPT ![g] = b]
    BY <2>1, <2>2, <1>0 DEF LeaderSeen, TypeOK
  <2>4. PositionSeen' = [PositionSeen EXCEPT ![g] = IF rest = {} THEN Infinite ELSE @]
    BY <2>1, <1>0, <1>2 DEF PositionSeen, TypeOK
  <2> QED
    BY <2>1, <2>2, <2>3, <2>4, <1>0 DEF Service!Leave, TypeOK
<1>3. CASE a \notin members[g]
  <2>1. UNCHANGED <<members, leader, position>>
    BY <1>3 DEF RemoveMember
  <2>2. LeaderSeen' = LeaderSeen /\ PositionSeen' = PositionSeen
    BY <2>1 DEF LeaderSeen, PositionSeen
  <2>3. /\ LeaderSeen[g] \in rest \union {NoAI} /\ (LeaderSeen[g] = NoAI <=> rest = {})
        /\ rest = members[g]
    BY <1>0, <1>1, <1>3 DEF LeaderSeen
  <2>4. members' = [members EXCEPT ![g] = rest]
    BY <2>1, <2>3, <1>0 DEF TypeOK
  <2>5. LeaderSeen' = [LeaderSeen EXCEPT ![g] = LeaderSeen[g]]
    BY <2>2, <1>0 DEF LeaderSeen
  <2>6. PositionSeen' = [PositionSeen EXCEPT ![g] = IF rest = {} THEN Infinite ELSE @]
    BY <2>2, <2>3, <1>0 DEF PositionSeen
  <2> QED
    BY <2>3, <2>4, <2>5, <2>6 DEF Service!Leave
<1> QED
  BY <1>2, <1>3

LEMMA RemoveMemberRefines ==
  ASSUME RefInv, NEW t \in Threads, RemoveMember(t)
  PROVE  Service!Quit(t) \/ \E g \in GroupIds : Service!Evict(t, g)
<1> DEFINE g == id[t]
           a == call[t].ai
<1>0. /\ TypeOK /\ g \in GroupIds /\ a \in AIs /\ pc[t] = "erase" /\ call' = call
      /\ call[t].op \in {"remove", "removeFromAllGroups"} /\ todo' = todo /\ id' = id
  BY AtWork DEF RefInv, IInv, WorkInv, RemoveMember, Removing
<1>1. Service!Leave(g, a)
  BY RemoveMemberLeaves
<1>2. /\ a \in members[g] => pc' = [pc EXCEPT ![t] = "unindex"] /\ answer' = answer
      /\ a \notin members[g] =>
           /\ pc' = [pc EXCEPT ![t] = "return"]
           /\ answer' = [answer EXCEPT ![t] = <<call[t].op, call[t].op # "remove">>]
  <2>1. a \in members[g] => Exists(g)
    BY <1>0, ConstantsAssumption DEF RefInv, IInv, LeaderInv, TypeOK, Exists
  <2> QED
    BY <2>1 DEF RemoveMember, Done, Goto
<1>3. \A u \in Threads \ {t} : pc'[u] = pc[u] /\ answer'[u] = answer[u]
  BY <1>0, <1>2 DEF TypeOK
<1>4. /\ a \in members[g] => Answered'[t] = <<call[t].op, TRUE>>
      /\ a \notin members[g] => Answered'[t] = <<call[t].op, call[t].op # "remove">>
  BY <1>0, <1>2 DEF Answered, TypeOK
<1>5. pc'[t] \in {"unindex", "return"}
  BY <1>0, <1>2 DEF TypeOK
<1>6. CASE call[t].op = "remove"
  <2>1. answer[t] = <<>> /\ Answered[t] = <<>> /\ call[t] # NoCall /\ g = call[t].id
    BY <1>0, <1>6, NotYet DEF RefInv, AnswerInv
  <2>2. Answered'[t] = <<call[t].op, a \in members[g]>>
    <3>1. (call[t].op # "remove") = FALSE
      BY <1>6
    <3>2. CASE a \in members[g]
      <4>1. (a \in members[g]) = TRUE
        BY <3>2
      <4> QED
        BY <4>1, <3>2, <1>4
    <3>3. CASE a \notin members[g]
      <4>1. (a \in members[g]) = FALSE
        BY <3>3
      <4> QED
        BY <4>1, <3>1, <3>3, <1>4
    <3> QED
      BY <3>2, <3>3
  <2>3. Answered' = [Answered EXCEPT ![t] = <<call[t].op, a \in members[g]>>]
    BY <2>2, <1>0, <1>3 DEF Answered
  <2>4. ToLeave' = ToLeave
    BY <2>1, <1>0, <1>3, <1>5, SameToLeave DEF ToLeave, Evicting
  <2> QED
    BY <2>1, <2>3, <2>4, <1>0, <1>1, <1>6 DEF Service!Quit, Service!Pending, Service!Answer
<1>7. CASE call[t].op = "removeFromAllGroups"
  <2>1. /\ answer[t] = <<call[t].op, TRUE>> /\ Evicting(t) /\ g \notin todo[t]
    BY <1>0, <1>7 DEF RefInv, IInv, LeavingInv, AnswerInv, Evicting
  <2>2. Answered' = Answered
    <3>1. (call[t].op # "remove") = TRUE
      BY <1>7
    <3> QED
      BY <3>1, <2>1, <1>0, <1>3, <1>4, SameAnswer DEF Answered
  <2>3. g \in ToLeave[t] /\ ToLeave' = [ToLeave EXCEPT ![t] = @ \ {g}]
    <3>1. ToLeave[t] = todo[t] \union {g} /\ ToLeave'[t] = todo[t]
      BY <2>1, <1>0, <1>5 DEF ToLeave, Evicting
    <3>2. \A u \in Threads \ {t} : ToLeave'[u] = ToLeave[u]
      BY <1>0, <1>3 DEF ToLeave, Evicting
    <3>3. ToLeave' = [u \in Threads |-> ToLeave'[u]] /\ ToLeave = [u \in Threads |-> ToLeave[u]]
      BY DEF ToLeave
    <3> QED
      BY <2>1, <3>1, <3>2, <3>3
  <2> QED
    BY <2>2, <2>3, <1>0, <1>1 DEF Service!Evict
<1> QED
  BY <1>0, <1>6, <1>7

LEMMA SnapshotRefines ==
  ASSUME RefInv, NEW t \in Threads, Snapshot(t) PROVE Service!Plan(t)
<1> DEFINE a == call[t].ai
<1>0. /\ TypeOK /\ a \in AIs /\ call[t].op = "removeFromAllGroups" /\ call[t] # NoCall
      /\ Answered[t] = <<>> /\ answer[t] = <<>> /\ pc[t] = "snapshot"
  BY AtWork, NotYet DEF RefInv, IInv, WorkInv, Snapshot
<1>1. Service!groupVars' = Service!groupVars
  BY SameGroups DEF Snapshot, groupVars
<1>2. GroupsOf(a) = Service!GroupsOf(a)
  <2>1. \A u \in Threads : pc[u] \notin {"index", "unindex"}
    BY <1>0, AloneInside DEF RefInv, Inside
  <2>2. \A g \in GroupIds : index[a][g] = IF a \in members[g] THEN 1 ELSE 0
    BY <1>0, <2>1 DEF RefInv, IInv, IndexInv
  <2> QED
    BY <2>2 DEF GroupsOf, Service!GroupsOf
<1>3. Answered' = [Answered EXCEPT ![t] = <<call[t].op, TRUE>>]
  BY <1>0 DEF Snapshot, Done, Goto, Answered, TypeOK
<1>4. ToLeave' = [ToLeave EXCEPT ![t] = GroupsOf(a)]
  BY <1>0 DEF Snapshot, Done, Goto, ToLeave, Evicting, TypeOK
<1> QED
  BY <1>0, <1>1, <1>2, <1>3, <1>4 DEF Snapshot, Service!Plan, Service!Pending, Service!Answer

LEMMA NextGroupRefines ==
  ASSUME RefInv, NEW t \in Threads, NextGroup(t) PROVE UNCHANGED Service!vars
<1>0. TypeOK /\ answer[t] # <<>>
  BY DEF RefInv, IInv, LeavingInv, NextGroup
<1>1. Service!groupVars' = Service!groupVars
  BY SameGroups DEF NextGroup, groupVars
<1>2. Answered' = Answered
  BY <1>0, SameAnswer DEF NextGroup, Goto, Answered, TypeOK
<1>3. ToLeave' = ToLeave
  <2>1. PICK g \in todo[t] :
             /\ id' = [id EXCEPT ![t] = g] /\ todo' = [todo EXCEPT ![t] = @ \ {g}]
             /\ pc[t] = "return" /\ pc' = [pc EXCEPT ![t] = "lock"] /\ UNCHANGED <<call, answer>>
    BY DEF NextGroup, Goto
  <2>2. /\ id'[t] = g /\ todo'[t] = todo[t] \ {g} /\ pc'[t] = "lock"
        /\ \A u \in Threads \ {t} : id'[u] = id[u] /\ todo'[u] = todo[u] /\ pc'[u] = pc[u]
    BY <2>1, <1>0 DEF TypeOK
  <2>3. Evicting(t)' /\ ~Evicting(t)
    BY <2>1, <2>2, <1>0 DEF Evicting
  <2>4. ToLeave'[t] = todo'[t] \union {id'[t]} /\ ToLeave[t] = todo[t]
    BY <2>3 DEF ToLeave
  <2>5. ToLeave'[t] = ToLeave[t]
    BY <2>1, <2>2, <2>4
  <2> QED
    BY <2>1, <2>2, <2>5, <1>0, SameToLeave
<1> QED
  BY <1>1, <1>2, <1>3 DEF NextGroup, Service!vars

LEMMA UpdateRefines ==
  ASSUME RefInv, NEW t \in Threads, Update(t) PROVE Service!Average(t)
<1>0. /\ TypeOK /\ call[t].op = "update" /\ call[t] # NoCall
      /\ Answered[t] = <<>> /\ answer[t] = <<>> /\ pc[t] = "read"
  BY NotYet DEF RefInv, IInv, Update
<1>1. \A g \in GroupIds : members[g] # {} => Exists(g)
  BY <1>0, ConstantsAssumption DEF RefInv, IInv, LeaderInv, TypeOK, Exists
<1>2. LeaderSeen' = LeaderSeen /\ members' = members
  BY DEF Update, LeaderSeen
<1>3. PositionSeen' = [g \in GroupIds |-> IF members[g] = {} THEN Infinite ELSE members[g]]
  BY <1>1 DEF Update, Average, PositionSeen
<1>4. Answered' = [Answered EXCEPT ![t] = <<call[t].op, TRUE>>]
  BY <1>0 DEF Update, Done, Goto, Answered, TypeOK
<1>5. ToLeave' = ToLeave
  BY <1>0, SameToLeave DEF Update, Done, Goto, ToLeave, Evicting, TypeOK
<1> QED
  BY <1>0, <1>2, <1>3, <1>4, <1>5 DEF Update, Service!Average, Service!Pending, Service!Answer

\* While the lock is held by a reader, the groups and the index answer alike.
LEMMA QueriesAgree ==
  ASSUME RefInv, NEW t \in Threads, pc[t] = "read", NEW op \in Reads, call[t].op = op
  PROVE  Query(op, id[t], call[t].ai) = Service!Query(op, id[t], call[t].ai)
<1> DEFINE g == id[t]
           a == call[t].ai
<1>1. TypeOK /\ call[t] \in Calls /\ g = call[t].id
  BY DEF RefInv, IInv, LockInv, AnswerInv, Reads
<1>2. \A u \in Threads : pc[u] \notin {"insert", "index", "unindex"}
  BY AloneInside DEF RefInv, Inside
<1>3. /\ \A h \in GroupIds : members[h] = {} <=> ~Exists(h)
      /\ \A h \in GroupIds : members[h] # {} => leader[h] \in members[h]
  BY <1>1, <1>2, ConstantsAssumption DEF RefInv, IInv, LeaderInv, TypeOK, Exists
<1>4. \A b \in AIs, h \in GroupIds : index[b][h] = IF b \in members[h] THEN 1 ELSE 0
  BY <1>2 DEF RefInv, IInv, IndexInv
<1>5. CASE op = "getLeader"
  BY <1>1, <1>3, <1>5 DEF Query, Service!Query, LeaderSeen, Exists, Calls, OfMember, OfGroup, OfAI
<1>6. CASE op = "isGroupLeader"
  <2>1. g \in GroupIds /\ a \in AIs
    BY <1>1, <1>6 DEF Calls, OfMember, OfGroup, OfAI
  <2>2. (Exists(g) /\ leader[g] = a) <=> (LeaderSeen[g] = a)
    BY <2>1, <1>3, ConstantsAssumption DEF LeaderSeen
  <2>3. (Exists(g) /\ leader[g] = a) = (LeaderSeen[g] = a)
    BY <2>2, Zenon
  <2>4. Query(op, g, a) = (Exists(g) /\ leader[g] = a)
    BY <1>6 DEF Query
  <2>5. Service!Query(op, g, a) = (LeaderSeen[g] = a)
    BY <1>6 DEF Service!Query
  <2> QED
    BY <2>3, <2>4, <2>5
<1>7. CASE op = "getGroupSize"
  <2>1. g \in GroupIds
    BY <1>1, <1>7 DEF Calls, OfMember, OfGroup, OfAI
  <2>2. Cardinality({}) = 0
    BY FS_EmptySet
  <2>3. Cardinality(members[g]) = IF Exists(g) THEN Cardinality(members[g]) ELSE 0
    BY <2>1, <2>2, <1>3
  <2>4. Query(op, g, a) = IF Exists(g) THEN Cardinality(members[g]) ELSE 0
    BY <1>7 DEF Query
  <2>5. Service!Query(op, g, a) = Cardinality(members[g])
    BY <1>7 DEF Service!Query, Service!Cardinality, Cardinality
  <2> QED
    BY <2>3, <2>4, <2>5
<1>8. CASE op = "getPosition"
  BY <1>1, <1>3, <1>8 DEF Query, Service!Query, PositionSeen, Calls, OfMember, OfGroup, OfAI
<1>9. CASE op = "isInGroup"
  BY <1>1, <1>4, <1>9 DEF Query, Service!Query, Calls, OfMember, OfGroup, OfAI
<1>10. CASE op = "isInAnyGroup"
  <2>1. a \in AIs
    BY <1>1, <1>10 DEF Calls, OfMember, OfGroup, OfAI
  <2>2. GroupsOf(a) = Service!GroupsOf(a)
    BY <2>1, <1>4 DEF GroupsOf, Service!GroupsOf
  <2> QED
    BY <2>2, <1>10 DEF Query, Service!Query
<1> QED
  BY <1>5, <1>6, <1>7, <1>8, <1>9, <1>10 DEF Reads

LEMMA ReadRefines ==
  ASSUME RefInv, NEW t \in Threads, Read(t) PROVE Service!Ask(t)
<1>0. /\ TypeOK /\ call[t] # NoCall /\ Answered[t] = <<>> /\ answer[t] = <<>> /\ pc[t] = "read"
  BY NotYet DEF RefInv, IInv, Read
<1>1. Service!groupVars' = Service!groupVars
  BY SameGroups DEF Read, groupVars
<1>2. ToLeave' = ToLeave
  BY <1>0, SameToLeave DEF Read, Done, Goto, ToLeave, Evicting, TypeOK
<1>3. call[t].op # "removeFromAllGroups" /\ id[t] = call[t].id
  BY <1>0 DEF Read, Reads, RefInv, AnswerInv
<1>4. ASSUME NEW v, Done(t, v) PROVE Service!Answer(t, v)
  BY <1>0, <1>4 DEF Read, Done, Goto, Answered, TypeOK, Service!Answer
<1>5. CASE call[t].op \in Reads /\ Done(t, Query(call[t].op, id[t], call[t].ai))
  BY <1>0, <1>1, <1>2, <1>3, <1>4, <1>5, QueriesAgree
     DEF Read, Service!Ask, Service!Pending, Service!Reads, Reads
<1>6. CASE call[t].op = "visit" /\ \E seen \in SUBSET members[id[t]] : Done(t, seen)
  BY <1>0, <1>1, <1>2, <1>3, <1>4, <1>6 DEF Read, Service!Ask, Service!Pending
<1> QED
  BY <1>5, <1>6 DEF Read

LEMMA StepRefines == RefInv /\ [Next]_vars => [Service!Next]_(Service!vars)
<1>1. ASSUME RefInv, NEW t \in Threads, NEW c \in Calls, Invoke(t, c) PROVE Service!Next
  <2>1. Service!Calls = Calls
    BY DEF Service!Calls, Calls, Service!OfMember, OfMember, Service!OfGroup, OfGroup, Service!OfAI, OfAI
  <2> QED
    BY <1>1, <2>1, InvokeRefines DEF Service!Next
<1>2. ASSUME RefInv, NEW t \in Threads, Step(t) PROVE Service!Next \/ UNCHANGED Service!vars
  BY <1>2, AcquireRefines, ReturnRefines, AddGroupRefines, AddMemberRefines, AddIndexRefines,
     RemoveMemberRefines, RemoveIndexRefines, SnapshotRefines, NextGroupRefines, UpdateRefines,
     ReadRefines DEF Step, Service!Next
<1>3. ASSUME UNCHANGED vars PROVE UNCHANGED Service!vars
  BY <1>3 DEF vars, groupVars, threadVars, Service!vars, Service!groupVars, LeaderSeen, PositionSeen,
     ToLeave, Answered, Evicting
<1> QED
  BY <1>1, <1>2, <1>3 DEF Next

LEMMA InitRefines == Init => Service!Init
BY DEF Init, Service!Init, LeaderSeen, PositionSeen, ToLeave, Answered, Evicting

\* Every call of the manager takes effect at one instant between its start and its
\* return, on one consistent membership, and answers what that instant shows, however
\* the calls of any number of threads interleave (GroupMgr.h:103-249).
THEOREM CallsAreAtomic == Spec => ServiceSpec
<1>1. Spec => []RefInv
  BY InitRefInv, InductiveRefInv, PTL DEF Spec
<1> QED
  BY <1>1, InitRefines, StepRefines, PTL DEF Spec, ServiceSpec, Service!Spec
============================================================================
