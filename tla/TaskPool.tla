------------------------------ MODULE TaskPool ------------------------------
(***************************************************************************)
(* What the thread pool (src/ai/common/ThreadPool.h) promises: a task that *)
(* was enqueued is started once, in the order of the enqueue calls, and    *)
(* finishes.  There are no workers, no mutex and no condition variable.    *)
(***************************************************************************)
EXTENDS Sequences

CONSTANT Tasks

VARIABLES queue,     \* the tasks that wait, oldest first
          running,   \* the tasks a worker is executing
          finished   \* the tasks whose future is ready

vars == <<queue, running, finished>>

Fresh(task) ==
  task \notin running \union finished /\ \A i \in DOMAIN queue : queue[i] # task

Init == queue = <<>> /\ running = {} /\ finished = {}

Enqueue(task) == Fresh(task) /\ queue' = Append(queue, task) /\ UNCHANGED <<running, finished>>

Start ==
  /\ queue # <<>>
  /\ queue' = Tail(queue)
  /\ running' = running \union {Head(queue)}
  /\ UNCHANGED finished

Finish(task) ==
  /\ task \in running
  /\ running' = running \ {task}
  /\ finished' = finished \union {task}
  /\ UNCHANGED queue

Next == Start \/ \E task \in Tasks : Enqueue(task) \/ Finish(task)

Spec == Init /\ [][Next]_vars /\ WF_vars(Start) /\ \A task \in Tasks : WF_vars(Finish(task))
============================================================================
