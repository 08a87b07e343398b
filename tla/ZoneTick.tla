------------------------------ MODULE ZoneTick ------------------------------
(***************************************************************************)
(* What happens to the AIs of one zone while its update, the remote        *)
(* debugger and the operator work on them at a time: every one of them     *)
(* calls Zone::executeParallel, which copies the zone's map, gives the     *)
(* thread pool one job per AI and waits for all of them.                   *)
(*   zone     Zone::update: tick                                           *)
(*   server   the debugger's events: pause, resume, step, reset            *)
(*   input    the operator's reload: a new behaviour for every AI          *)
(* An edit of the debugger exchanges the behaviour of one AI on the        *)
(* server's own thread, outside the pool.                                  *)
(***************************************************************************)
EXTENDS Naturals, Sequences

CONSTANTS AIs,
          Workers,  \* the threads of the zone's pool
          Kinds,    \* the jobs that are asked for
          NoAI,
          NoJob

Caller(kind) == CASE kind = "tick" -> "zone" [] kind = "reload" -> "input" [] OTHER -> "server"
Callers == {"zone", "server", "input"}
Jobs == [kind : Kinds, ai : AIs]

ASSUME TickAssumption ==
  /\ Kinds \subseteq {"tick", "pause", "resume", "step", "reset", "reload"}
  /\ NoAI \notin AIs /\ NoJob \notin Jobs

VARIABLES ais,      \* the AIs of the zone
          queue,    \* the jobs in the pool
          job, pc,  \* what each worker works on, and where it is
          op,       \* what each caller has called, "none" if nothing
          target,   \* the AIs in the copy of the map the caller has made
          left,     \* those it has not yet enqueued a job for
          open,     \* those whose job has not finished
          paused,   \* AI::_pause
          reset,    \* AI::_reset
          stale,    \* what AI::update clears of the AI is that of an earlier behaviour
          editing,  \* the AI whose behaviour the server's thread exchanges, NoAI if none
          steps,    \* history: the updates of each AI since the last step began, 2 for many
          held,     \* history: the AIs a pause has reached and no resume yet
          overtaken \* history: the workers whose AI was edited after the update of their tick

poolVars == <<queue, job, pc>>
callVars == <<op, target, left, open>>
aiVars == <<paused, reset, stale, steps>>
editVars == <<editing, overtaken>>
vars == <<ais, poolVars, callVars, aiVars, held, editVars>>

Init ==
  /\ ais = {}
  /\ queue = <<>>
  /\ job = [w \in Workers |-> NoJob]
  /\ pc = [w \in Workers |-> "idle"]
  /\ op = [c \in Callers |-> "none"]
  /\ target = [c \in Callers |-> {}]
  /\ left = [c \in Callers |-> {}]
  /\ open = [c \in Callers |-> {}]
  /\ paused = [a \in AIs |-> FALSE]
  /\ reset = [a \in AIs |-> FALSE]
  /\ stale = [a \in AIs |-> FALSE]
  /\ steps = [a \in AIs |-> 0]
  /\ held = {}
  /\ editing = NoAI /\ overtaken = {}

----------------------------------------------------------------------------
(* The zone's AIs change between two ticks.                                *)

Enter(a) ==
  /\ a \notin ais /\ op["zone"] = "none"
  /\ ais' = ais \union {a}
  /\ UNCHANGED <<poolVars, callVars, aiVars, held, editVars>>

Leave(a) ==
  /\ a \in ais /\ op["zone"] = "none"
  /\ ais' = ais \ {a}
  /\ UNCHANGED <<poolVars, callVars, aiVars, held, editVars>>

----------------------------------------------------------------------------
(* executeParallel                                                         *)

Begin(kind) ==
  LET c == Caller(kind)
  IN  /\ op[c] = "none" /\ (c = "server" => editing = NoAI)
      /\ op' = [op EXCEPT ![c] = kind]
      /\ target' = [target EXCEPT ![c] = ais]
      /\ left' = [left EXCEPT ![c] = ais]
      /\ open' = [open EXCEPT ![c] = ais]
      /\ steps' = IF kind = "step" THEN [a \in AIs |-> 0] ELSE steps
      /\ held' = IF kind = "resume" THEN held \ ais ELSE held
      /\ UNCHANGED <<ais, poolVars, paused, reset, stale, editVars>>

\* The order is that of a hash map; other callers enqueue in between.
Enqueue(c, a) ==
  /\ a \in left[c]
  /\ left' = [left EXCEPT ![c] = @ \ {a}]
  /\ queue' = Append(queue, [kind |-> op[c], ai |-> a])
  /\ UNCHANGED <<ais, job, pc, op, target, open, aiVars, held, editVars>>

Return(c) ==
  /\ op[c] # "none" /\ open[c] = {}
  /\ op' = [op EXCEPT ![c] = "none"]
  /\ target' = [target EXCEPT ![c] = {}]
  /\ held' = IF op[c] = "pause" THEN held \union target[c] ELSE held
  /\ UNCHANGED <<ais, poolVars, left, open, aiVars, editVars>>

----------------------------------------------------------------------------
(* A worker and its job                                                    *)

Take(w) ==
  /\ pc[w] = "idle" /\ queue # <<>>
  /\ job' = [job EXCEPT ![w] = Head(queue)]
  /\ queue' = Tail(queue)
  /\ pc' = [pc EXCEPT ![w] = "start"]
  /\ UNCHANGED <<ais, callVars, aiVars, held, editVars>>

Self(w) == job[w].ai
At(w, kinds, label) == pc[w] = label /\ job[w].kind \in kinds
Goto(w, label) ==
  /\ pc' = [pc EXCEPT ![w] = label]
  /\ overtaken' = IF label = "execute" /\ editing = Self(w) /\ ~reset[Self(w)]
                  THEN overtaken \union {w} ELSE overtaken
  /\ UNCHANGED <<queue, job, open>>

\* Fault: the future of a job never gets ready.
FinishSilently(w) ==
  /\ pc' = [pc EXCEPT ![w] = "idle"]
  /\ job' = [job EXCEPT ![w] = NoJob]
  /\ overtaken' = overtaken \ {w}
  /\ UNCHANGED <<queue, open>>

\* The job is over, its future is ready.
Finish(w) ==
  /\ pc' = [pc EXCEPT ![w] = "idle"]
  /\ job' = [job EXCEPT ![w] = NoJob]
  /\ open' = [open EXCEPT ![Caller(job[w].kind)] = @ \ {Self(w)}]
  /\ overtaken' = overtaken \ {w}
  /\ UNCHANGED queue

Unchanged == UNCHANGED <<ais, op, target, left, held, editing>>

CheckPause(w) ==
  /\ At(w, {"tick"}, "start")
  /\ IF paused[Self(w)] THEN Finish(w) ELSE Goto(w, "update")
  /\ UNCHANGED aiVars
  /\ Unchanged

\* AI::update returns early for a paused AI, and the behaviour is executed still.
UpdateAI(w) ==
  /\ At(w, {"tick", "step"}, "update")
  /\ IF paused[Self(w)]
     THEN UNCHANGED aiVars
     ELSE /\ reset' = [reset EXCEPT ![Self(w)] = FALSE]
          /\ stale' = [stale EXCEPT ![Self(w)] = @ /\ ~reset[Self(w)]]
          /\ steps' = [steps EXCEPT ![Self(w)] = IF @ = 0 THEN 1 ELSE 2]
          /\ UNCHANGED paused
  /\ Goto(w, "execute")
  /\ Unchanged

ExecuteTick(w) == At(w, {"tick"}, "execute") /\ Finish(w) /\ UNCHANGED aiVars /\ Unchanged

CheckStep(w) ==
  /\ At(w, {"step"}, "start")
  /\ IF paused[Self(w)]
     THEN paused' = [paused EXCEPT ![Self(w)] = FALSE] /\ Goto(w, "update")
     ELSE Finish(w) /\ UNCHANGED paused
  /\ UNCHANGED <<reset, stale, steps>>
  /\ Unchanged

\* Fault: the AI is not paused again.
ExecuteStepRuns(w) == At(w, {"step"}, "execute") /\ Finish(w) /\ UNCHANGED aiVars /\ Unchanged

ExecuteStep(w) ==
  /\ At(w, {"step"}, "execute")
  /\ paused' = [paused EXCEPT ![Self(w)] = TRUE]
  /\ Finish(w)
  /\ UNCHANGED <<reset, stale, steps>>
  /\ Unchanged

SetPause(w) ==
  /\ At(w, {"pause", "resume"}, "start")
  /\ paused' = [paused EXCEPT ![Self(w)] = (job[w].kind = "pause")]
  /\ Finish(w)
  /\ UNCHANGED <<reset, stale, steps>>
  /\ Unchanged

\* resetState forgets the positions of the selectors, node by node.  What an
\* earlier behaviour has left elsewhere in the AI stays.
ResetState(w) == At(w, {"reset"}, "start") /\ Finish(w) /\ UNCHANGED aiVars /\ Unchanged

SetBehaviour(w) ==
  /\ At(w, {"reload"}, "start")
  /\ stale' = [stale EXCEPT ![Self(w)] = TRUE]
  /\ Goto(w, "flag")
  /\ UNCHANGED <<paused, reset, steps>>
  /\ Unchanged

\* Fault: the new behaviour starts with the state of the old one.
FlagResetNot(w) == At(w, {"reload"}, "flag") /\ Finish(w) /\ UNCHANGED aiVars /\ Unchanged

FlagReset(w) ==
  /\ At(w, {"reload"}, "flag")
  /\ reset' = [reset EXCEPT ![Self(w)] = TRUE]
  /\ Finish(w)
  /\ UNCHANGED <<paused, stale, steps>>
  /\ Unchanged

----------------------------------------------------------------------------
(* updateNode of a root: setBehaviour between two updates of the server    *)

EditBehaviour(a) ==
  /\ a \in ais /\ op["server"] = "none" /\ editing = NoAI
  /\ editing' = a
  /\ stale' = [stale EXCEPT ![a] = TRUE]
  /\ overtaken' = overtaken \union {w \in Workers : pc[w] = "execute" /\ Self(w) = a}
  /\ UNCHANGED <<ais, poolVars, callVars, paused, reset, steps, held>>

EditFlag ==
  /\ editing # NoAI
  /\ reset' = [reset EXCEPT ![editing] = TRUE]
  /\ editing' = NoAI
  /\ UNCHANGED <<ais, poolVars, callVars, paused, stale, steps, held, overtaken>>

----------------------------------------------------------------------------
Work(w) ==
  \/ Take(w) \/ CheckPause(w) \/ UpdateAI(w) \/ ExecuteTick(w) \/ CheckStep(w) \/ ExecuteStep(w)
  \/ SetPause(w) \/ ResetState(w) \/ SetBehaviour(w) \/ FlagReset(w)

Run(c) == Return(c) \/ \E a \in AIs : Enqueue(c, a)

Next ==
  \/ \E a \in AIs : Enter(a) \/ Leave(a) \/ EditBehaviour(a)
  \/ EditFlag
  \/ \E kind \in Kinds : Begin(kind)
  \/ \E c \in Callers : Run(c)
  \/ \E w \in Workers : Work(w)

Spec == Init /\ [][Next]_vars

\* Threads run on and behaviours return; nobody has to call anything.
FairSpec ==
  /\ Spec
  /\ WF_vars(EditFlag)
  /\ \A c \in Callers : WF_vars(Run(c))
  /\ \A w \in Workers : WF_vars(Work(w))

----------------------------------------------------------------------------
(* Properties                                                              *)

TypeOK ==
  /\ ais \subseteq AIs
  /\ queue \in Seq(Jobs)
  /\ job \in [Workers -> Jobs \union {NoJob}]
  /\ pc \in [Workers -> {"idle", "start", "update", "execute", "flag"}]
  /\ op \in [Callers -> Kinds \union {"none"}]
  /\ target \in [Callers -> SUBSET AIs]
  /\ left \in [Callers -> SUBSET AIs]
  /\ open \in [Callers -> SUBSET AIs]
  /\ paused \in [AIs -> BOOLEAN]
  /\ reset \in [AIs -> BOOLEAN]
  /\ stale \in [AIs -> BOOLEAN]
  /\ steps \in [AIs -> 0 .. 2]
  /\ held \subseteq AIs
  /\ editing \in AIs \union {NoAI} /\ overtaken \subseteq Workers

Ticking(w) == pc[w] \in {"update", "execute"} /\ job[w].kind = "tick"

\* Once a pause has returned, an AI it has reached is not ticked until it is
\* resumed, although a step lifts its pause for a while (ServerImpl.h:219).
PauseHolds == \A w \in Workers : Ticking(w) => Self(w) \notin held

\* A step that returns has updated every paused AI of the zone once and left it
\* paused, whatever ticks came in between (ServerImpl.h:214).
StepsOnce ==
  op["server"] = "step" /\ open["server"] = {} =>
    \A a \in target["server"] \intersect held : steps[a] = 1 /\ paused[a]

\* A pause is kept, whatever lifts it for the time of an update.
PauseKept == TypeOK /\ PauseHolds /\ StepsOnce

\* A new behaviour runs on state the old one has left in the AI for the rest of the
\* tick that an edit overtakes, at most: ServerImpl.h:346 exchanges the root outside
\* the pool, between the AI::update and the execute of a worker.  In every later tick,
\* and after a reload, the flag of setBehaviour (AI.h:207) is seen before the
\* behaviour is executed.  State is what AI::update clears: _limitStates stays.
FreshState == \A w \in Workers : pc[w] = "execute" /\ stale[Self(w)] => w \in overtaken

\* Every executeParallel returns: all its jobs are run, whoever else uses the
\* pool.
AllReturn == \A c \in Callers : op[c] # "none" ~> op[c] = "none"

============================================================================
