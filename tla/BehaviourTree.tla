---------------------------- MODULE BehaviourTree ----------------------------
(***************************************************************************)
(* Behaviour trees (src/ai/tree).  In every tick of an AI its tree is      *)
(* executed from the root: a node tests its condition, executes children   *)
(* and returns a status.  The nodes are shared by all AIs that have the    *)
(* tree; what a node remembers from tick to tick is kept in the AI, but    *)
(* for the timers.  An AI's execution is at one node, and either calls it  *)
(* or returns to it with the status of a child; what the C++ stack holds   *)
(* of the nodes above is in child, total and left.                         *)
(* Positions count from 1; 0 is AI_NOTHING_SELECTED.                       *)
(***************************************************************************)
EXTENDS Integers, Sequences, SequencesExt

CONSTANTS AIs,
          Nodes, Root,
          Type,      \* the class of a node
          Children,  \* its children, in their order
          Amount,    \* how often the child of a Limit is executed
          Millis,    \* how long an Idle lasts
          Deltas,    \* the time from tick to tick
          NoNode

Composites == {"Sequence", "PrioritySelector", "Parallel", "RandomSelector"}
Decorators == {"Invert", "Fail", "Succeed", "Limit"}
Leaves == {"Task", "Idle"}
Statuses == {"RUNNING", "FINISHED", "FAILED", "CANNOTEXECUTE", "EXCEPTION"}

OfType(types) == {n \in Nodes : Type[n] \in types}
Size(n) == Len(Children[n])
Kids(n) == ToSet(Children[n])

ASSUME TreeAssumption ==
  /\ Root \in Nodes /\ NoNode \notin Nodes
  /\ Type \in [Nodes -> Composites \union Decorators \union Leaves]
  /\ Children \in [Nodes -> Seq(Nodes)]
  /\ \A n \in OfType(Decorators) : Size(n) = 1
  /\ \A n \in OfType(Leaves) : Size(n) = 0
  /\ \A n \in Nodes \ {Root} : \E p \in Nodes : n \in Kids(p)
  /\ \A p \in Nodes : Root \notin Kids(p)
  /\ \A p, q \in Nodes : p = q \/ Kids(p) \intersect Kids(q) = {}
  /\ \A n \in Nodes : \A i, j \in 1 .. Size(n) : Children[n][i] = Children[n][j] => i = j
  /\ \A S \in SUBSET Nodes : S # {} => \E n \in S : Kids(n) \intersect S = {}
  /\ Amount \in [OfType({"Limit"}) -> Nat]
  /\ Millis \in [OfType({"Idle"}) -> Nat]
  /\ Deltas \subseteq Nat \ {0}

VARIABLES at,        \* the node an AI executes
          phase,     \* is it called, or does a child return to it?
          status,    \* the status that was returned last
          delta,     \* deltaMillis
          child,     \* the child a node executes, 0 when the node is not executed
          total,     \* overallResult of a RandomSelector, totalStatus of a Parallel
          left,      \* the children a RandomSelector has still to execute
          selector,  \* AI::_selectorStates
          limits,    \* AI::_limitStates
          reset,     \* AI::_reset
          timer,     \* ITimedNode::_timerMillis
          resume,    \* history: where a node that was running is to continue
          done,      \* history: the children a Sequence has finished since it began
          waited,    \* history: how long an AI is in an Idle, NotStarted if it is not
          busy       \* history: did a leaf return RUNNING in this tick?

stack == <<at, phase, status, delta, child, total, left>>
states == <<selector, limits, reset, timer>>
history == <<resume, done, waited, busy>>
treeVars == <<stack, states, history>>

NotStarted == -1

Parent(n) == CHOOSE p \in Nodes : n \in Kids(p)
Below[n \in Nodes] == {n} \union UNION {Below[m] : m \in Kids(n)}
BelowAll(ns) == UNION {Below[n] : n \in ns}
BelowRandom == BelowAll(OfType({"RandomSelector"}))
BelowPriority == BelowAll(OfType({"PrioritySelector"})) \ OfType({"PrioritySelector"})

TreeInit ==
  /\ at = [a \in AIs |-> NoNode] /\ phase = [a \in AIs |-> "idle"]
  /\ status = [a \in AIs |-> "FINISHED"] /\ delta = [a \in AIs |-> 0]
  /\ child = [a \in AIs |-> [n \in Nodes |-> 0]]
  /\ total = [a \in AIs |-> [n \in Nodes |-> "FINISHED"]]
  /\ left = [a \in AIs |-> [n \in Nodes |-> {}]]
  /\ selector = [a \in AIs |-> [n \in Nodes |-> 0]]
  /\ limits = [a \in AIs |-> [n \in Nodes |-> 0]]
  /\ reset = [a \in AIs |-> FALSE]
  /\ timer = [n \in Nodes |-> NotStarted]
  /\ resume = [a \in AIs |-> [n \in Nodes |-> 1]]
  /\ done = [a \in AIs |-> [n \in Nodes |-> 0]]
  /\ waited = [a \in AIs |-> [n \in Nodes |-> NotStarted]]
  /\ busy = [a \in AIs |-> FALSE]

----------------------------------------------------------------------------
(* Calling and returning                                                   *)

Calling(a, type) == phase[a] = "call" /\ Type[at[a]] = type
Returning(a, type) == phase[a] = "return" /\ Type[at[a]] = type

Call(a, i) ==
  /\ at' = [at EXCEPT ![a] = Children[at[a]][i]]
  /\ phase' = [phase EXCEPT ![a] = "call"]
  /\ child' = [child EXCEPT ![a][at[a]] = i]
  /\ UNCHANGED <<status, delta>>

Return(a, s) ==
  /\ at' = [at EXCEPT ![a] = IF @ = Root THEN NoNode ELSE Parent(@)]
  /\ phase' = [phase EXCEPT ![a] = IF at[a] = Root THEN "idle" ELSE "return"]
  /\ status' = [status EXCEPT ![a] = s]
  /\ child' = [child EXCEPT ![a][at[a]] = 0]
  /\ delta' = IF at[a] = Root THEN [delta EXCEPT ![a] = 0] ELSE delta

\* resetState of some nodes: a Sequence forgets where it was, every node passes
\* it on to its children.
Forget(a, ns) == [selector EXCEPT ![a] =
  [n \in Nodes |-> IF n \in BelowAll(ns) /\ Type[n] = "Sequence" THEN 0 ELSE @[n]]]
\* The same, and what it means: a Sequence that is reset begins anew.
Abandon(a, ns) == [resume EXCEPT ![a] =
  [n \in Nodes |-> IF n \in BelowAll(ns) /\ Type[n] = "Sequence" THEN 1 ELSE @[n]]]

NoLocals == UNCHANGED <<total, left>>
Untouched == UNCHANGED <<total, left, states, history>>

----------------------------------------------------------------------------
(* A tick, and what is done to an AI between two ticks                     *)

\* AI::update consumes the flag that setBehaviour has set, then the behaviour is
\* executed.
Tick(a) ==
  /\ phase[a] = "idle"
  /\ at' = [at EXCEPT ![a] = Root]
  /\ phase' = [phase EXCEPT ![a] = "call"]
  /\ \E d \in Deltas : delta' = [delta EXCEPT ![a] = d]
  /\ reset' = [reset EXCEPT ![a] = FALSE]
  /\ busy' = [busy EXCEPT ![a] = FALSE]
  /\ IF reset[a]
     THEN /\ selector' = [selector EXCEPT ![a] = [n \in Nodes |-> 0]]
          /\ resume' = [resume EXCEPT ![a] = [n \in Nodes |-> 1]]
     ELSE UNCHANGED <<selector, resume>>
  /\ UNCHANGED <<status, child, limits, timer, done, waited>>
  /\ NoLocals

\* The debugger resets the tree for an AI.
ResetState(a) ==
  /\ phase[a] = "idle"
  /\ selector' = Forget(a, {Root})
  /\ resume' = Abandon(a, {Root})
  /\ UNCHANGED <<stack, limits, reset, timer, done, waited, busy>>

\* The tree is given to the AI again.
SetBehaviour(a) ==
  /\ phase[a] = "idle" /\ ~reset[a]
  /\ reset' = [reset EXCEPT ![a] = TRUE]
  /\ UNCHANGED <<stack, selector, limits, timer, history>>

----------------------------------------------------------------------------
(* Every node                                                              *)

\* The condition does not hold.
CannotExecute(a) ==
  /\ phase[a] = "call"
  /\ Return(a, "CANNOTEXECUTE")
  /\ Untouched

\* A composite without children.
Childless(a) ==
  /\ phase[a] = "call" /\ Type[at[a]] \in Composites /\ Size(at[a]) = 0
  /\ Return(a, "FINISHED")
  /\ Untouched

----------------------------------------------------------------------------
(* Leaves                                                                  *)

Seen(a, s) == busy' = [busy EXCEPT ![a] = @ \/ (s = "RUNNING" /\ at[a] \notin BelowRandom)]

Task(a) ==
  /\ Calling(a, "Task")
  /\ \E s \in {"RUNNING", "FINISHED", "FAILED", "EXCEPTION"} : Return(a, s) /\ Seen(a, s)
  /\ UNCHANGED <<total, left, states, resume, done, waited>>

Lasting(a, n) ==
  waited' = [waited EXCEPT ![a][n] =
    IF @ = NotStarted THEN 0 ELSE IF @ + delta[a] > Millis[n] THEN Millis[n] ELSE @ + delta[a]]

Over(t, d) == t # NotStarted /\ t - d <= 0
\* Fault: a timer that has expired is not set back.
TimerOnce(t, d, m) == IF t = NotStarted THEN m ELSE IF Over(t, d) THEN t ELSE t - d
Timer(t, d, m) == IF t = NotStarted THEN m ELSE IF Over(t, d) THEN NotStarted ELSE t - d

Idle(a) ==
  LET n == at[a]
      s == IF Over(timer[n], delta[a]) THEN "FINISHED" ELSE "RUNNING"
  IN  /\ Calling(a, "Idle")
      /\ timer' = [timer EXCEPT ![n] = Timer(@, delta[a], Millis[n])]
      /\ Return(a, s) /\ Seen(a, s)
      /\ IF s = "RUNNING" THEN Lasting(a, n) ELSE waited' = [waited EXCEPT ![a][n] = NotStarted]
      /\ NoLocals /\ UNCHANGED <<selector, limits, reset, resume, done>>

----------------------------------------------------------------------------
(* Decorators                                                              *)

Spent(a, n) == limits[a][n] >= Amount[n]

CallLimited(a) ==
  /\ Calling(a, "Limit")
  /\ IF Spent(a, at[a]) THEN Return(a, "FINISHED") ELSE Call(a, 1)
  /\ Untouched

CallDecorated(a) ==
  /\ phase[a] = "call" /\ Type[at[a]] \in Decorators \ {"Limit"}
  /\ Call(a, 1)
  /\ Untouched

ReturnLimited(a) ==
  /\ Returning(a, "Limit")
  /\ limits' = [limits EXCEPT ![a][at[a]] = @ + 1]
  /\ Return(a, IF status[a] = "RUNNING" THEN "RUNNING" ELSE "FAILED")
  /\ NoLocals /\ UNCHANGED <<selector, reset, timer, history>>

Decorated(type, s) ==
  CASE s = "RUNNING" -> "RUNNING"
    [] s # "RUNNING" /\ type = "Fail" -> "FAILED"
    [] s # "RUNNING" /\ type = "Succeed" -> "FINISHED"
    [] s = "FINISHED" /\ type = "Invert" -> "FAILED"
    [] s \in {"FAILED", "CANNOTEXECUTE"} /\ type = "Invert" -> "FINISHED"
    [] s = "EXCEPTION" /\ type = "Invert" -> "EXCEPTION"

ReturnDecorated(a) ==
  /\ phase[a] = "return" /\ Type[at[a]] \in Decorators \ {"Limit"}
  /\ Return(a, Decorated(Type[at[a]], status[a]))
  /\ Untouched

----------------------------------------------------------------------------
(* Sequence                                                                *)

\* Faults: a child that runs is taken for finished; it is forgotten.
PositionNext(s, i) == IF s = "RUNNING" THEN i + 1 ELSE 0
PositionNever(s, i) == 0

\* What a sequence or a priority selector remembers of the child that returns.
Position(s, i) == IF s = "RUNNING" THEN i ELSE 0

Begun(a, n) == IF selector[a][n] = 0 THEN 1 ELSE selector[a][n]

CallSequence(a) ==
  LET n == at[a]
  IN  /\ Calling(a, "Sequence") /\ Size(n) > 0
      /\ Call(a, Begun(a, n))
      /\ done' = IF selector[a][n] = 0 THEN [done EXCEPT ![a][n] = 0] ELSE done
      /\ NoLocals /\ UNCHANGED <<states, resume, waited, busy>>

ReturnSequence(a) ==
  LET n == at[a]
      i == child[a][n]
      s == status[a]
      runs == s = "RUNNING"
  IN  /\ Returning(a, "Sequence")
      /\ IF s = "FINISHED" /\ i < Size(n)
         THEN /\ Call(a, i + 1)
              /\ done' = [done EXCEPT ![a][n] = i]
              /\ UNCHANGED <<selector, resume>>
         ELSE /\ Return(a, s)
              /\ selector' = [IF runs THEN selector ELSE Forget(a, {n}) EXCEPT ![a][n] = Position(s, i)]
              /\ resume' = IF runs THEN [resume EXCEPT ![a][n] = i] ELSE Abandon(a, {n})
              /\ done' = IF runs THEN done ELSE [done EXCEPT ![a][n] = 0]
      /\ NoLocals /\ UNCHANGED <<limits, reset, timer, waited, busy>>

----------------------------------------------------------------------------
(* PrioritySelector: resetState does not reach its own position.           *)

Siblings(n, is) == {Children[n][j] : j \in is \intersect (1 .. Size(n))}

CallPriority(a) ==
  LET n == at[a]
  IN  /\ Calling(a, "PrioritySelector") /\ Size(n) > 0
      /\ Call(a, Begun(a, n))
      /\ selector' = Forget(a, Siblings(n, 1 .. Begun(a, n) - 1))
      /\ resume' = Abandon(a, Siblings(n, 1 .. Begun(a, n) - 1))
      /\ NoLocals /\ UNCHANGED <<limits, reset, timer, done, waited, busy>>

\* The child that returns is reset, and those behind it when it has the last word:
\* also a child that is running.  If every child has failed, the result is FINISHED.
ReturnPriority(a) ==
  LET n == at[a]
      i == child[a][n]
      s == status[a]
      failed == s \in {"CANNOTEXECUTE", "FAILED"}
      gone == Siblings(n, i .. (IF failed THEN i ELSE Size(n)))
  IN  /\ Returning(a, "PrioritySelector")
      /\ IF failed /\ i < Size(n) THEN Call(a, i + 1)
                                  ELSE Return(a, IF failed THEN "FINISHED" ELSE s)
      /\ selector' = [Forget(a, gone) EXCEPT ![a][n] = Position(s, i)]
      /\ resume' = [Abandon(a, gone) EXCEPT ![a][n] = IF s = "RUNNING" THEN i ELSE 1]
      /\ NoLocals /\ UNCHANGED <<limits, reset, timer, done, waited, busy>>

----------------------------------------------------------------------------
(* Parallel                                                                *)

CallParallel(a) ==
  /\ Calling(a, "Parallel") /\ Size(at[a]) > 0
  /\ Call(a, 1)
  /\ UNCHANGED <<total, left, states, history>>

\* Fault: the last child decides.
TotalLast(a, s) == IF s = "RUNNING" THEN "RUNNING" ELSE "FINISHED"

Total(a, s) == IF s = "RUNNING" THEN "RUNNING" ELSE total[a][at[a]]

\* A child that is not running is reset, and all of them when none is running.
ReturnParallel(a) ==
  LET n == at[a]
      i == child[a][n]
      s == status[a]
      sum == Total(a, s)
      gone == IF i = Size(n) /\ sum # "RUNNING" THEN {n}
              ELSE IF s = "RUNNING" THEN {} ELSE {Children[n][i]}
  IN  /\ Returning(a, "Parallel")
      /\ IF i < Size(n) THEN Call(a, i + 1) ELSE Return(a, sum)
      /\ total' = [total EXCEPT ![a][n] = IF i < Size(n) THEN sum ELSE "FINISHED"]
      /\ selector' = Forget(a, gone)
      /\ resume' = Abandon(a, gone)
      /\ UNCHANGED <<left, limits, reset, timer, done, waited, busy>>

----------------------------------------------------------------------------
(* RandomSelector: all children, in random order.                          *)

CallRandom(a) ==
  LET n == at[a]
  IN  /\ Calling(a, "RandomSelector") /\ Size(n) > 0
      /\ \E i \in 1 .. Size(n) :
           /\ Call(a, i)
           /\ left' = [left EXCEPT ![a][n] = (1 .. Size(n)) \ {i}]
      /\ UNCHANGED <<total, states, history>>

\* A failure becomes the result, whatever the others return; a child that is
\* running is neither reset nor counted.
ReturnRandom(a) ==
  LET n == at[a]
      s == status[a]
      sum == IF s \in {"CANNOTEXECUTE", "FAILED"} THEN s ELSE total[a][n]
      gone == IF s = "RUNNING" THEN {} ELSE {Children[n][child[a][n]]}
  IN  /\ Returning(a, "RandomSelector")
      /\ \/ \E i \in left[a][n] :
              /\ Call(a, i)
              /\ left' = [left EXCEPT ![a][n] = @ \ {i}]
              /\ total' = [total EXCEPT ![a][n] = sum]
         \/ /\ left[a][n] = {}
            /\ Return(a, sum)
            /\ total' = [total EXCEPT ![a][n] = "FINISHED"]
            /\ UNCHANGED left
      /\ selector' = Forget(a, gone)
      /\ resume' = Abandon(a, gone)
      /\ UNCHANGED <<limits, reset, timer, done, waited, busy>>

----------------------------------------------------------------------------
Execute(a) ==
  \/ CannotExecute(a) \/ Childless(a) \/ Task(a) \/ Idle(a)
  \/ CallLimited(a) \/ CallDecorated(a) \/ ReturnLimited(a) \/ ReturnDecorated(a)
  \/ CallSequence(a) \/ ReturnSequence(a) \/ CallPriority(a) \/ ReturnPriority(a)
  \/ CallParallel(a) \/ ReturnParallel(a) \/ CallRandom(a) \/ ReturnRandom(a)

TreeNext == \E a \in AIs : Tick(a) \/ ResetState(a) \/ SetBehaviour(a) \/ Execute(a)

TreeSpec == TreeInit /\ [][TreeNext]_treeVars

\* A tick that has begun goes on: conditions and tasks return.
FairTreeSpec == TreeSpec /\ \A a \in AIs : WF_treeVars(Execute(a))

----------------------------------------------------------------------------
(* Properties                                                              *)

TreeTypeOK ==
  /\ at \in [AIs -> Nodes \union {NoNode}]
  /\ phase \in [AIs -> {"idle", "call", "return"}]
  /\ status \in [AIs -> Statuses]
  /\ delta \in [AIs -> Deltas \union {0}]
  /\ child \in [AIs -> [Nodes -> Nat]] /\ selector \in [AIs -> [Nodes -> Nat]]
  /\ \A a \in AIs, n \in Nodes : child[a][n] <= Size(n) /\ selector[a][n] <= Size(n)
  /\ total \in [AIs -> [Nodes -> Statuses]]
  /\ left \in [AIs -> [Nodes -> SUBSET Nat]]
  /\ limits \in [AIs -> [Nodes -> Nat]]
  /\ \A a \in AIs, n \in OfType({"Limit"}) : limits[a][n] <= Amount[n]
  /\ reset \in [AIs -> BOOLEAN]
  /\ timer \in [Nodes -> Nat \union {NotStarted}]

\* A sequence executes a child only when all children before it have finished,
\* one after the other, since the sequence began (Sequence.h:12).
SequenceInOrder ==
  \A a \in AIs, n \in OfType({"Sequence"}) : child[a][n] # 0 => done[a][n] = child[a][n] - 1
InOrder == TreeTypeOK /\ SequenceInOrder

\* A sequence goes on with the child that was running, unless it was reset: by a
\* parent that is through with it, by the debugger or by a new behaviour
\* (Sequence.h:13, "On the next iteration the execution is continued at the last
\* running children"); it begins with the first child when none was running.  A
\* sequence below a priority selector begins anew in every tick, since the selector
\* resets the child that runs, too (PrioritySelector.h:47).  A priority selector goes
\* on with the child that was running when it was executed last, reset or not: only a
\* new behaviour makes it forget, since it has the resetState of every node
\* (TreeNodeImpl.h:55), against TreeNode.h:176, "Reset the states in the node and also
\* in the entity", and Server.h:192.
Resumes ==
  [][\A a \in AIs, n \in OfType({"Sequence", "PrioritySelector"}) :
       child[a][n] = 0 /\ child'[a][n] # 0 =>
         child'[a][n] = IF Type[n] = "Sequence" /\ n \in BelowPriority THEN 1 ELSE resume[a][n]]_treeVars

\* The tree is running if and only if one of its leaves is, however deep; a random
\* selector is the only node that hides it (TreeNode.h:33, RandomSelector.h:13).  So
\* no node makes up a RUNNING: Invert does not either, which is to return it for
\* everything but FINISHED and FAILED by its comment (Invert.h:15), and hands on an
\* exception and takes a child that cannot be executed for one that failed (l. 36-39).
RunningIsSeen == \A a \in AIs : phase[a] = "idle" => (status[a] = "RUNNING" <=> busy[a])

\* An AI that has finished an Idle was in it for its time (Idle.h:11), and an Idle
\* that an AI executes again and again ends again and again, whatever happens to
\* the tree in between.  Its time is that of the ticks that execute it: an AI that
\* did not come to the node for some time has still to wait for the rest, where
\* ITimedNode.h:76-78 says it would get "directly into executeExpired".
IdleIsLongEnough ==
  [][\A a \in AIs, n \in OfType({"Idle"}) :
       at[a] = n /\ at'[a] # n /\ status'[a] = "FINISHED"
         => waited[a][n] # NotStarted /\ waited[a][n] + delta[a] >= Millis[n]]_treeVars
IdleTakesItsTime ==
  /\ IdleIsLongEnough
  /\ \A a \in AIs, n \in OfType({"Idle"}) :
       []<><<Idle(a) /\ at[a] = n>>_treeVars => []<>(waited[a][n] = NotStarted)
=============================================================================
