------------------------------ MODULE TreeEdit ------------------------------
(***************************************************************************)
(* What a debugger makes of behaviour trees (Server::updateNode, addNode,  *)
(* deleteNode): several AIs begin with one tree, and every AI's tree may   *)
(* be edited, also in the parts the others still have.  Nodes are known by *)
(* their ids, which count up; name, type and condition of a node change    *)
(* with its id.  A task takes no children (ITask::addChild): nothing is    *)
(* added below it, and a node that becomes one loses its own.  An edit     *)
(* that is refused, or cannot be parsed, changes no tree.                  *)
(***************************************************************************)
EXTENDS Naturals, Sequences, SequencesExt, FiniteSetsExt

CONSTANTS Owners,   \* the AIs
          Ids,      \* the nodes there may be
          Planted,  \* the children of the nodes in the beginning, 1 is the root
          PlantedTasks,  \* those of them that are tasks
          MaxEdits  \* bound: how many edits follow each other

NoParent == 0

\* _children of every node, the nodes that are tasks, the behaviour of every AI,
\* TreeNode::getNextId.
Beginning ==
  [kids |-> [n \in Ids |-> IF n \in DOMAIN Planted THEN Planted[n] ELSE <<>>],
   tasks |-> PlantedTasks,
   root |-> [a \in Owners |-> 1],
   next |-> Len(Planted) + 1]

Under(w, n) ==
  LET under[m \in Ids] == ToSet(w.kids[m]) \union UNION {under[c] : c \in ToSet(w.kids[m])}
  IN  under[n]
GetChild(w, a, id) == id \in {w.root[a]} \union Under(w, w.root[a])

GetParent(w, a, id) ==
  LET parent[m \in Ids] ==
        LET ways == {i \in DOMAIN w.kids[m] : w.kids[m][i] = id \/ parent[w.kids[m][i]] # NoParent}
            c == w.kids[m][Min(ways)]
        IN  IF ways = {} THEN NoParent ELSE IF c = id THEN m ELSE parent[c]
  IN  parent[w.root[a]]

\* Fault: the new node comes in front of the old one.
ReplaceChildBefore(w, p, id, by) ==
  LET i == CHOOSE j \in DOMAIN w.kids[p] : w.kids[p][j] = id
  IN  [w EXCEPT !.kids[p] = SubSeq(@, 1, i - 1) \o by \o SubSeq(@, i, Len(@))]

\* By one node, or by none.
ReplaceChild(w, p, id, by) ==
  LET i == CHOOSE j \in DOMAIN w.kids[p] : w.kids[p][j] = id
  IN  [w EXCEPT !.kids[p] = SubSeq(@, 1, i - 1) \o by \o SubSeq(@, i + 1, Len(@))]

\* TreeNodeParser::getTreeNode
Made(w, task) == [w EXCEPT !.next = @ + 1, !.tasks = IF task THEN @ \union {w.next} ELSE @]

\* The children of the old node are added to the new one, and nobody asks whether
\* it takes them; the root is a behaviour of this AI only (AI::setBehaviour).
UpdateNode(w, a, id, task) ==
  LET made == [Made(w, task) EXCEPT !.kids[w.next] = IF task THEN <<>> ELSE w.kids[id]]
  IN  IF id = w.root[a] THEN [made EXCEPT !.root[a] = w.next]
                        ELSE ReplaceChild(made, GetParent(w, a, id), id, <<w.next>>)

AddNode(w, a, id, task) ==
  [Made(w, task) EXCEPT !.kids[id] = IF id \in w.tasks THEN @ ELSE Append(@, w.next)]

DeleteNode(w, a, id) == ReplaceChild(w, GetParent(w, a, id), id, <<>>)

Edits ==
  [op : {"update", "add"}, ai : Owners, id : Ids, task : BOOLEAN] \union
  [op : {"delete"}, ai : Owners, id : Ids]

NotFound(w, e) == ~GetChild(w, e.ai, e.id) \/ (e.op = "delete" /\ e.id = w.root[e.ai])
Refused(w, e) == NotFound(w, e) \/ (e.op = "add" /\ e.id \in w.tasks)

Edited(w, e) ==
  CASE NotFound(w, e) -> w
    [] ~NotFound(w, e) /\ e.op = "update" -> UpdateNode(w, e.ai, e.id, e.task)
    [] ~NotFound(w, e) /\ e.op = "add" -> AddNode(w, e.ai, e.id, e.task)
    [] ~NotFound(w, e) /\ e.op = "delete" -> DeleteNode(w, e.ai, e.id)

----------------------------------------------------------------------------
(* What the edits mean: on the paths from the root of a tree to its nodes, *)
(* in the order they are executed.                                         *)

Paths(w, a) ==
  LET from[n \in Ids] ==
        <<<<n>>>> \o FlattenSeq([i \in DOMAIN w.kids[n] |->
                       [j \in DOMAIN from[w.kids[n][i]] |-> <<n>> \o from[w.kids[n][i]][j]]])
  IN  from[w.root[a]]

Meant(e, paths, new) ==
  CASE e.op = "update" ->
         LET kept == SelectSeq(paths, LAMBDA p : e.task => e.id \notin ToSet(Front(p)))
         IN  [j \in DOMAIN kept |-> [k \in DOMAIN kept[j] |-> IF kept[j][k] = e.id THEN new ELSE kept[j][k]]]
    [] e.op = "delete" -> SelectSeq(paths, LAMBDA p : e.id \notin ToSet(p))
    [] e.op = "add" ->
         LET to == CHOOSE p \in ToSet(paths) : Last(p) = e.id
             end == Max({j \in DOMAIN paths : e.id \in ToSet(paths[j])})
         IN  SubSeq(paths, 1, end) \o <<Append(to, new)>> \o SubSeq(paths, end + 1, Len(paths))

Ends(paths) == [j \in DOMAIN paths |-> Last(paths[j])]

\* The node whose own fields an edit changes: for a new root there is none.
Touched(w, e) == IF e.op = "add" THEN e.id ELSE GetParent(w, e.ai, e.id)

Worlds[n \in Nat] ==
  IF n = 0 THEN {Beginning}
  ELSE Worlds[n - 1] \union {Edited(w, e) : w \in Worlds[n - 1], e \in Edits}

Exact(w, e) ==
  \A a \in Owners :
    LET before == Paths(w, a)
        after == Paths(Edited(w, e), a)
        reached == ~Refused(w, e) /\ (a = e.ai \/ Touched(w, e) \in ToSet(Ends(before)))
    IN  /\ after = IF reached THEN Meant(e, before, w.next) ELSE before
        /\ IsInjective(Ends(after))
=============================================================================
