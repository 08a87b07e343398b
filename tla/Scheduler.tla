----------------------------- MODULE Scheduler -----------------------------
(***************************************************************************)
(* The scheduler of simpleai-run (src/run/ThreadScheduler.h): one thread   *)
(* looks for due tasks in a heap and runs them with the mutex held, while  *)
(* other threads schedule and cancel timers and, in the end, its owner     *)
(* destroys it.  Times are counted from the clock: the clock advances by   *)
(* making everything that is waited for one unit nearer.                   *)
(***************************************************************************)
EXTENDS Integers, Sequences, SequencesExt

CONSTANTS Users,      \* the threads that schedule and cancel
          Firsts,     \* the delays they ask for ...
          Periods,    \* ... and the periods; a timer with a period of 0 runs once
          MaxTimers,  \* bound: how many timers are scheduled
          MaxLate,    \* bound: how far the clock runs ahead of a task, or of a pass
          NoCall, Nothing

Ids == 1 .. MaxTimers
Task == [id : Ids, left : Int, delay : Periods]

ASSUME SchedulerAssumption ==
  /\ Firsts \subseteq Nat /\ Periods \subseteq Nat
  /\ MaxTimers \in Nat /\ MaxLate \in Nat \ {0}
  /\ NoCall \notin Task
  /\ Nothing \notin Ids \union [owed : Int, wait : Int, period : Int]

VARIABLES tasks,     \* _tasks: the array of the heap; left is _execTime from now on
          timerId,   \* _timerId
          stop, notEmpty,  \* _stop, _notEmpty
          locked,    \* the thread holds _mutex (the others do for one step at a time)
          pc,        \* where the thread is
          since,     \* the age of the time the thread has read for this pass
          call,      \* the timers scheduleAtFixedRate has still to put into the heap
          owner,     \* where the destructor is
          cancelled  \* history: the timers that cancel has answered true for

thread == <<stop, notEmpty, locked, pc, since>>
vars == <<tasks, timerId, thread, call, owner, cancelled>>

Init ==
  /\ tasks = <<>> /\ timerId = 0
  /\ stop = FALSE /\ notEmpty = FALSE /\ locked = FALSE
  /\ pc = "asleep" /\ since = 0
  /\ call = [u \in Users |-> NoCall]
  /\ owner = "alive"
  /\ cancelled = {}

----------------------------------------------------------------------------
(* The heap (std::priority_queue).  On a heap, pushing and popping leave   *)
(* one; on an array that is none, where the standard promises nothing, the *)
(* elements end up in any order.                                           *)

\* Fault: the latest task is on top.
IsHeapOfLatest(s) == \A i \in 2 .. Len(s) : s[i \div 2].left >= s[i].left
IsHeap(s) == \A i \in 2 .. Len(s) : s[i \div 2].left <= s[i].left

Arranged(s, sound) ==
  {q \in [1 .. Len(s) -> ToSet(s)] : ToSet(q) = ToSet(s) /\ (sound => IsHeap(q))}

Pushed(s, t) == Arranged(Append(s, t), IsHeap(s))
Popped(s) == Arranged(Tail(s), IsHeap(s))

Holds(s, id) == \E i \in DOMAIN s : s[i].id = id

----------------------------------------------------------------------------
(* The users                                                               *)

\* scheduleAtFixedRate reads the clock and takes an id ...
Call(u, first, delay) ==
  /\ owner = "alive" /\ call[u] = NoCall /\ timerId < MaxTimers
  /\ timerId' = timerId + 1
  /\ call' = [call EXCEPT ![u] = [id |-> timerId + 1, left |-> first, delay |-> delay]]
  /\ UNCHANGED <<tasks, thread, owner, cancelled>>

Free == ~locked

\* ... and waits for the mutex.
Insert(u) ==
  /\ call[u] # NoCall /\ Free
  /\ tasks' \in Pushed(tasks, call[u])
  /\ notEmpty' = TRUE
  /\ call' = [call EXCEPT ![u] = NoCall]
  /\ UNCHANGED <<timerId, stop, locked, pc, since, owner, cancelled>>

\* Fault: the array is shortened by its last element.
ErasedLast(s, i) == Front(s)
Erased(s, i) == RemoveAt(s, i)

\* cancel erases the task from the array, which may be no heap afterwards.  For a
\* timer that is not there it does nothing.
Cancel(id) ==
  /\ owner = "alive" /\ Free
  /\ \E i \in DOMAIN tasks :
       /\ tasks[i].id = id
       /\ tasks' = Erased(tasks, i)
  /\ cancelled' = cancelled \union {id}
  /\ UNCHANGED <<timerId, thread, call, owner>>

\* Fault: the thread is joined before it is told.
StopNot == UNCHANGED stop
Told == stop' = TRUE

\* ~ThreadScheduler; nobody calls any more.
Stop ==
  /\ owner = "alive" /\ \A u \in Users : call[u] = NoCall
  /\ Told
  /\ owner' = "joining"
  /\ UNCHANGED <<tasks, timerId, notEmpty, locked, pc, since, call, cancelled>>

Join ==
  /\ owner = "joining" /\ pc = "ended"
  /\ owner' = "gone"
  /\ UNCHANGED <<tasks, timerId, thread, call, cancelled>>

----------------------------------------------------------------------------
(* The thread                                                              *)

\* Leaving the function gives the mutex back.
Leave ==
  /\ stop
  /\ pc' = "ended" /\ locked' = FALSE /\ since' = 0
  /\ UNCHANGED <<stop, notEmpty, tasks>>

\* Every millisecond; the clock is read before the mutex is taken.
Wake ==
  /\ pc = "asleep"
  /\ \/ Leave
     \/ /\ ~stop /\ notEmpty
        /\ pc' = "lock"
        /\ UNCHANGED <<tasks, stop, notEmpty, locked, since>>
  /\ UNCHANGED <<timerId, call, owner, cancelled>>

Lock ==
  /\ pc = "lock" /\ Free
  /\ locked' = TRUE
  /\ pc' = "look"
  /\ UNCHANGED <<tasks, timerId, stop, notEmpty, since, call, owner, cancelled>>

\* The task on top was due when the pass began.
TopDue == tasks # <<>> /\ Head(tasks).left + since <= 0

Look ==
  /\ pc = "look"
  /\ \/ /\ ~TopDue
        /\ pc' = "after"
        /\ UNCHANGED <<tasks, stop, notEmpty, locked, since>>
     \/ /\ TopDue
        /\ \/ Leave
           \/ ~stop /\ pc' = "run" /\ UNCHANGED <<tasks, stop, notEmpty, locked, since>>
  /\ UNCHANGED <<timerId, call, owner, cancelled>>

\* Fault: the next run is counted from the time of the pass.
AgainFromNow(t) == [t EXCEPT !.left = t.delay - since]
Again(t) == [t EXCEPT !.left = @ + t.delay]

\* The task has returned.
Finish ==
  /\ pc = "run"
  /\ \E rest \in Popped(tasks) :
       IF Head(tasks).delay > 0 THEN tasks' \in Pushed(rest, Again(Head(tasks)))
                                ELSE tasks' = rest
  /\ pc' = "look"
  /\ UNCHANGED <<timerId, stop, notEmpty, locked, since, call, owner, cancelled>>

Rest ==
  /\ pc = "after"
  /\ \/ Leave
     \/ /\ ~stop
        /\ notEmpty' = (tasks # <<>>)
        /\ pc' = "asleep" /\ locked' = FALSE /\ since' = 0
        /\ UNCHANGED <<tasks, stop>>
  /\ UNCHANGED <<timerId, call, owner, cancelled>>

----------------------------------------------------------------------------
(* The clock                                                               *)

Nearer(t) == [t EXCEPT !.left = @ - 1]

Tick ==
  /\ \A i \in DOMAIN tasks : tasks[i].left > -MaxLate
  /\ \A u \in Users : call[u] # NoCall => call[u].left > -MaxLate
  /\ since < MaxLate
  /\ tasks' = [i \in DOMAIN tasks |-> Nearer(tasks[i])]
  /\ call' = [u \in Users |-> IF call[u] = NoCall THEN NoCall ELSE Nearer(call[u])]
  /\ since' = IF pc \in {"asleep", "ended"} THEN since ELSE since + 1
  /\ UNCHANGED <<timerId, stop, notEmpty, locked, pc, owner, cancelled>>

----------------------------------------------------------------------------
Thread == Wake \/ Lock \/ Look \/ Finish \/ Rest

Next ==
  \/ Thread \/ Tick \/ Stop \/ Join
  \/ \E id \in Ids : Cancel(id)
  \/ \E u \in Users : Insert(u) \/ \E first \in Firsts, delay \in Periods : Call(u, first, delay)

Spec == Init /\ [][Next]_vars

\* The operating system runs the thread, tasks return, the destructor waits.
FairSpec == Spec /\ WF_vars(Thread) /\ WF_vars(Join)

----------------------------------------------------------------------------
(* Properties                                                              *)

Pcs == {"asleep", "lock", "look", "run", "after", "ended"}

TypeOK ==
  /\ tasks \in Seq(Task)
  /\ timerId \in 0 .. MaxTimers
  /\ stop \in BOOLEAN /\ notEmpty \in BOOLEAN /\ locked \in BOOLEAN
  /\ pc \in Pcs
  /\ since \in 0 .. MaxLate
  /\ call \in [Users -> Task \union {NoCall}]
  /\ owner \in {"alive", "joining", "gone"}
  /\ cancelled \subseteq Ids

\* Once cancel has answered true (ThreadScheduler.h:148) the task is not running,
\* and it is not waiting to be run again.
CancelledIsOut == \A id \in cancelled : ~Holds(tasks, id)

\* A task that waits is never forgotten: when the thread goes to sleep, it will look
\* into the heap again (ThreadScheduler.h:99).
NotForgotten == ~locked /\ pc # "ended" /\ tasks # <<>> => notEmpty

\* No task runs, and none will, when the destructor has returned: what the tasks
\* work on may be deleted then (Main.cpp:306).
NothingRunsAfter == owner = "gone" => pc = "ended" /\ ~locked

\* The thread, the heap and the calls of the users fit together: no task is run that
\* must not be, none is left lying.
Consistent == TypeOK /\ CancelledIsOut /\ NotForgotten /\ NothingRunsAfter

\* The timers keep their promises (TimerService), whoever is late.
Mine(t) ==
  CASE t.left > 0 -> [owed |-> 0, wait |-> t.left, period |-> t.delay]
    [] t.left <= 0 /\ t.delay = 0 -> [owed |-> 1, wait |-> 0, period |-> 0]
    [] OTHER -> [owed |-> (-t.left) \div t.delay + 1, wait |-> t.delay - ((-t.left) % t.delay), period |-> t.delay]

Known == ToSet(tasks) \union {call[u] : u \in {v \in Users : call[v] # NoCall}}

Timer(id) == IF \E t \in Known : t.id = id THEN Mine(CHOOSE t \in Known : t.id = id) ELSE Nothing

Running == IF pc = "run" THEN Head(tasks).id ELSE Nothing

Timers == INSTANCE TimerService WITH timers <- [id \in Ids |-> Timer(id)], running <- Running

TimersSpec == Timers!Spec

\* A task that is due is run, unless it is cancelled or the scheduler destroyed, or
\* a cancel has torn the heap (ThreadScheduler.h:55).
DueRuns ==
  \A id \in Ids :
    (\E i \in DOMAIN tasks : tasks[i].id = id /\ tasks[i].left <= 0)
      ~> (stop \/ ~IsHeap(tasks) \/ id \in cancelled \/ (pc = "run" /\ Head(tasks).id = id))

\* The destructor returns, however much is due.
StopEnds == owner = "joining" ~> owner = "gone"
============================================================================
