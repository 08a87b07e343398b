---------------------------- MODULE TimerService ----------------------------
(***************************************************************************)
(* What a scheduler of timers promises (src/run/ThreadScheduler.h): a      *)
(* timer owes its first run when its delay has passed, counted from the    *)
(* call, and one more for every period after that, however late the runs   *)
(* are; only what is owed is run, one task at a time; a timer that is      *)
(* cancelled owes nothing and is not running.                              *)
(***************************************************************************)
EXTENDS Integers

CONSTANTS Ids, Firsts, Periods, Nothing

VARIABLES timers,  \* timers[i]: what is owed, the time to the next run, the period
          running  \* the timer whose task is running

vars == <<timers, running>>

Init == timers = [i \in Ids |-> Nothing] /\ running = Nothing

There(i) == timers[i] # Nothing

\* A timer without a delay owes its run at once.
Created(first, delay) ==
  IF first > 0 THEN [owed |-> 0, wait |-> first, period |-> delay]
               ELSE [owed |-> 1, wait |-> delay, period |-> delay]

Create(i, first, delay) ==
  /\ ~There(i)
  /\ timers' = [timers EXCEPT ![i] = Created(first, delay)]
  /\ UNCHANGED running

Older(t) ==
  CASE t.wait = 1 -> [owed |-> t.owed + 1, wait |-> t.period, period |-> t.period]
    [] t.wait > 1 -> [t EXCEPT !.wait = @ - 1]
    [] OTHER -> t

Elapse ==
  /\ timers' = [i \in Ids |-> IF There(i) THEN Older(timers[i]) ELSE Nothing]
  /\ UNCHANGED running

Start(i) ==
  /\ running = Nothing /\ There(i) /\ timers[i].owed > 0
  /\ running' = i
  /\ UNCHANGED timers

\* A timer that runs once is forgotten.
Ran(t) == IF t.period = 0 THEN Nothing ELSE [t EXCEPT !.owed = @ - 1]

Finish(i) ==
  /\ running = i
  /\ running' = Nothing
  /\ timers' = [timers EXCEPT ![i] = Ran(@)]

Cancel(i) ==
  /\ There(i) /\ running # i
  /\ timers' = [timers EXCEPT ![i] = Nothing]
  /\ UNCHANGED running

Next ==
  \/ Elapse
  \/ \E i \in Ids :
       \/ Start(i) \/ Finish(i) \/ Cancel(i)
       \/ \E first \in Firsts, delay \in Periods : Create(i, first, delay)

Spec == Init /\ [][Next]_vars
=============================================================================
