-------------------------- MODULE MCBehaviourTree --------------------------
(* BehaviourTree for TLC: a tree with a node of every type.  Beside it the *)
(* edits of trees, two AIs having one of five nodes.                       *)
EXTENDS BehaviourTree, TreeEdit

(* 1 Parallel                                                              *)
(*   2 Sequence          3 Idle, 4 Limit (5 Task), 6 Task                  *)
(*   7 RandomSelector    8 Succeed (9 Task), 10 Fail (11 Task)             *)
(*   12 PrioritySelector 13 Invert (14 Task), 15 Sequence (17 Task,        *)
(*                       18 Task), 16 Sequence ()                          *)
AllTypes ==
  <<"Parallel", "Sequence", "Idle", "Limit", "Task", "Task", "RandomSelector", "Succeed",
    "Task", "Fail", "Task", "PrioritySelector", "Invert", "Task", "Sequence", "Sequence",
    "Task", "Task">>
AllChildren ==
  <<<<2, 7, 12>>, <<3, 4, 6>>, <<>>, <<5>>, <<>>, <<>>, <<8, 10>>, <<9>>, <<>>, <<11>>, <<>>,
    <<13, 15, 16>>, <<14>>, <<>>, <<17, 18>>, <<>>, <<>>, <<>>>>
Once == [n \in {4} |-> 1]
TwoTicks == [n \in {3} |-> 2]
FiveNodes == <<<<2, 5>>, <<3, 4>>, <<>>, <<>>, <<>>>>

\* An edit of the debugger changes the tree of its AI as it says and nothing else
\* of it (ServerImpl.h:317-423), a few edits after each other, in the order the
\* nodes are executed, but that a node which becomes a task loses all below it,
\* for ServerImpl.h:341 ignores that ITask::addChild refuses; it changes another
\* AI's tree in the same way if that tree has the node whose children are changed,
\* and otherwise not at all; no node comes to be at two places.  The formula is
\* about no state: once is enough.
EditsAreExact == TreeInit => \A w \in Worlds[MaxEdits - 1], e \in Edits : Exact(w, e)
============================================================================
