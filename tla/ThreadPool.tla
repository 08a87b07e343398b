----------------------------- MODULE ThreadPool -----------------------------
(***************************************************************************)
(* The pool of worker threads every zone owns (src/ai/common/ThreadPool.h) *)
(* with its mutex and condition variable: workers that sleep on the        *)
(* condition, callers (the clients, and tasks that run) that enqueue, and  *)
(* the destructor, which sets _stop without taking the mutex.              *)
(***************************************************************************)
EXTENDS Naturals, Sequences

CONSTANTS Workers,   \* the threads the constructor launches
          Clients,   \* the other threads that use the pool
          Tasks,     \* the tasks, each enqueued once at most
          NoTask,    \* a worker that has none
          NoThread   \* the owner of a free mutex

ASSUME ThreadsAssumption ==
  /\ NoThread \notin Workers \union Clients
  /\ Workers \intersect Clients = {}
  /\ NoTask \notin Tasks

Callers == Workers \union Clients

VARIABLES tasks,     \* _tasks
          stop,      \* _stop
          mutex,     \* _queueMutex: the thread that holds it
          asleep,    \* the workers blocked in _condition
          pc,        \* where each worker is
          task,      \* the local variable task of each worker
          notify,    \* the callers of enqueue that have yet to call notify_one
          fresh,     \* the tasks nobody has enqueued yet
          done,      \* the tasks whose future is ready
          destructor \* where ~ThreadPool is

poolVars == <<tasks, stop, mutex, asleep, pc, task, notify, fresh, done, destructor>>

PoolInit ==
  /\ tasks = <<>>
  /\ stop = FALSE
  /\ mutex = NoThread
  /\ asleep = {}
  /\ pc = [w \in Workers |-> "lock"]
  /\ task = [w \in Workers |-> NoTask]
  /\ notify = {}
  /\ fresh = Tasks
  /\ done = {}
  /\ destructor = "none"

MoveTo(w, label) == pc' = [pc EXCEPT ![w] = label]

----------------------------------------------------------------------------
(* A worker                                                                *)

Lock(w) ==
  /\ pc[w] = "lock"
  /\ mutex = NoThread
  /\ mutex' = w
  /\ MoveTo(w, "test")
  /\ UNCHANGED <<tasks, stop, asleep, task, notify, fresh, done, destructor>>

\* The predicate of the wait; _stop is an atomic that the mutex does not guard.
Test(w) ==
  /\ pc[w] = "test"
  /\ MoveTo(w, IF stop \/ tasks # <<>> THEN "take" ELSE "block")
  /\ UNCHANGED <<tasks, stop, mutex, asleep, task, notify, fresh, done, destructor>>

\* wait gives the mutex back and blocks in one step.
Block(w) ==
  /\ pc[w] = "block"
  /\ mutex' = NoThread
  /\ asleep' = asleep \union {w}
  /\ MoveTo(w, "asleep")
  /\ UNCHANGED <<tasks, stop, task, notify, fresh, done, destructor>>

\* Faults: the task is copied and not popped; a worker that was told to stop
\* leaves although tasks wait.
TakeNoPop(w) ==
  /\ pc[w] = "take"
  /\ mutex' = NoThread
  /\ IF stop /\ tasks = <<>>
     THEN MoveTo(w, "exited") /\ UNCHANGED task
     ELSE task' = [task EXCEPT ![w] = Head(tasks)] /\ MoveTo(w, "run")
  /\ UNCHANGED <<tasks, stop, asleep, notify, fresh, done, destructor>>
TakeStops(w) ==
  /\ pc[w] = "take"
  /\ mutex' = NoThread
  /\ IF stop
     THEN MoveTo(w, "exited") /\ UNCHANGED <<tasks, task>>
     ELSE /\ task' = [task EXCEPT ![w] = Head(tasks)]
          /\ tasks' = Tail(tasks)
          /\ MoveTo(w, "run")
  /\ UNCHANGED <<stop, asleep, notify, fresh, done, destructor>>

Take(w) ==
  /\ pc[w] = "take"
  /\ mutex' = NoThread
  /\ IF stop /\ tasks = <<>>
     THEN MoveTo(w, "exited") /\ UNCHANGED <<tasks, task>>
     ELSE /\ task' = [task EXCEPT ![w] = Head(tasks)]
          /\ tasks' = Tail(tasks)
          /\ MoveTo(w, "run")
  /\ UNCHANGED <<stop, asleep, notify, fresh, done, destructor>>

\* The task returns and its future becomes ready.
Finish(w) ==
  /\ pc[w] = "run" /\ w \notin notify
  /\ done' = done \union {task[w]}
  /\ task' = [task EXCEPT ![w] = NoTask]
  /\ MoveTo(w, "lock")
  /\ UNCHANGED <<tasks, stop, mutex, asleep, notify, fresh, destructor>>

\* The standard lets a condition variable wake a thread for no reason.
WakeSpuriously(w) ==
  /\ w \in asleep
  /\ asleep' = asleep \ {w}
  /\ MoveTo(w, "lock")
  /\ UNCHANGED <<tasks, stop, mutex, task, notify, fresh, done, destructor>>

----------------------------------------------------------------------------
(* enqueue, by a client or by a running task                               *)

MayEnqueue(c) == IF c \in Clients THEN destructor = "none" ELSE pc[c] = "run"

\* Fault: nobody is notified.
EnqueueNoNotify(c, new) ==
  /\ MayEnqueue(c) /\ c \notin notify
  /\ mutex = NoThread
  /\ new \in fresh
  /\ fresh' = fresh \ {new}
  /\ tasks' = Append(tasks, new)
  /\ UNCHANGED <<stop, mutex, asleep, pc, task, notify, done, destructor>>

Enqueue(c, new) ==
  /\ MayEnqueue(c) /\ c \notin notify
  /\ mutex = NoThread
  /\ new \in fresh
  /\ fresh' = fresh \ {new}
  /\ tasks' = Append(tasks, new)
  /\ notify' = notify \union {c}
  /\ UNCHANGED <<stop, mutex, asleep, pc, task, done, destructor>>

Notify(c) ==
  /\ c \in notify
  /\ notify' = notify \ {c}
  /\ IF asleep = {}
     THEN UNCHANGED <<asleep, pc>>
     ELSE \E w \in asleep : asleep' = asleep \ {w} /\ MoveTo(w, "lock")
  /\ UNCHANGED <<tasks, stop, mutex, task, fresh, done, destructor>>

----------------------------------------------------------------------------
(* The destructor; no client is inside the pool any more.                  *)

Stop ==
  /\ destructor = "none" /\ notify \intersect Clients = {}
  /\ stop' = TRUE
  /\ destructor' = "notify"
  /\ UNCHANGED <<tasks, mutex, asleep, pc, task, notify, fresh, done>>

NotifyAll ==
  /\ destructor = "notify"
  /\ asleep' = {}
  /\ pc' = [w \in Workers |-> IF w \in asleep THEN "lock" ELSE pc[w]]
  /\ destructor' = "join"
  /\ UNCHANGED <<tasks, stop, mutex, task, notify, fresh, done>>

JoinAll ==
  /\ destructor = "join"
  /\ \A w \in Workers : pc[w] = "exited"
  /\ destructor' = "gone"
  /\ UNCHANGED <<tasks, stop, mutex, asleep, pc, task, notify, fresh, done>>

----------------------------------------------------------------------------
Work(w) == Lock(w) \/ Test(w) \/ Block(w) \/ Take(w) \/ Finish(w)

Destroy == Stop \/ NotifyAll \/ JoinAll

PoolNext ==
  \/ \E w \in Workers : Work(w) \/ WakeSpuriously(w)
  \/ \E c \in Callers : Notify(c) \/ \E new \in Tasks : Enqueue(c, new)
  \/ Destroy

PoolSpec == PoolInit /\ [][PoolNext]_poolVars

\* Threads run on, tasks return.  Nobody has to enqueue, to destroy the pool or
\* to wake up for no reason.  A worker gets the mutex in the end: it is held
\* for a few instructions only, by as many callers as there are tasks.
FairPoolSpec ==
  /\ PoolSpec
  /\ \A w \in Workers : WF_poolVars(Work(w)) /\ SF_poolVars(Lock(w))
  /\ \A c \in Callers : WF_poolVars(Notify(c))
  /\ WF_poolVars(NotifyAll \/ JoinAll)

----------------------------------------------------------------------------
(* Properties                                                              *)

PoolTypeOK ==
  /\ tasks \in Seq(Tasks)
  /\ stop \in BOOLEAN
  /\ mutex \in Workers \union {NoThread}
  /\ asleep \subseteq Workers
  /\ pc \in [Workers -> {"lock", "test", "block", "asleep", "take", "run", "exited"}]
  /\ task \in [Workers -> Tasks \union {NoTask}]
  /\ notify \subseteq Callers
  /\ fresh \subseteq Tasks
  /\ done \subseteq Tasks
  /\ destructor \in {"none", "notify", "join", "gone"}

Queued == {tasks[i] : i \in DOMAIN tasks}
Running == {task[w] : w \in Workers} \ {NoTask}

\* A task is at one place: not enqueued, once in the queue, in the hands of one
\* worker, or done.  None is lost between the pop and the call, none runs twice.
OncePlaced ==
  /\ Tasks = fresh \union Queued \union Running \union done
  /\ fresh \intersect (Queued \union Running \union done) = {}
  /\ Queued \intersect (Running \union done) = {}
  /\ Running \intersect done = {}
  /\ \A i, j \in DOMAIN tasks : tasks[i] = tasks[j] => i = j
  /\ \A v, w \in Workers : task[v] = task[w] /\ task[v] # NoTask => v = w

\* A worker takes from a queue that is not empty: the predicate it tested under
\* the mutex still holds, front() and pop() are defined (ThreadPool.h:77).
NeverPopsEmpty == \A w \in Workers : pc[w] = "take" => stop \/ tasks # <<>>

\* Every task goes from the queue to one worker, whoever sleeps, wakes or leaves.
Consistent == PoolTypeOK /\ OncePlaced /\ NeverPopsEmpty

\* The queue is drained before the pool is gone: once the destructor has joined
\* the workers no task waits and no task runs (ThreadPool.h:74).
DrainedWhenGone == destructor = "gone" => Queued = {} /\ Running = {}

\* The pool is TaskPool: tasks start in the order they were enqueued and every
\* one of them finishes, the destructor and its lost wakeups notwithstanding.
Pool == INSTANCE TaskPool WITH queue <- tasks, running <- Running, finished <- done

TaskPoolSpec == Pool!Spec

\* ThreadPool.h:104: "the destructor joins all threads".
DestructorReturns == destructor # "none" ~> destructor = "gone"
============================================================================
