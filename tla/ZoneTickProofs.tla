--------------------------- MODULE ZoneTickProofs ---------------------------
(***************************************************************************)
(* What holds of pauses, steps and reloads for any number of AIs, when the *)
(* zone's pool has one worker, as Zone's constructor makes it (Zone.h:81,  *)
(* min(1u, hardware_concurrency)).  With two workers it does not hold.     *)
(***************************************************************************)
EXTENDS ZoneTick, TLAPS

OneWorker == \E w : Workers = {w}

Elems(s) == {s[i] : i \in DOMAIN s}
NoDup(s) == \A i, j \in DOMAIN s : s[i] = s[j] => i = j

\* A job is one of the call its caller is in.
Current(e) == LET c == Caller(e.kind) IN e.kind = op[c] /\ e.ai \in open[c] \ left[c]

Busy(w) == pc[w] # "idle"

CallInv ==
  \A c \in Callers :
    /\ op[c] = "none" => target[c] = {}
    /\ op[c] # "none" => Caller(op[c]) = c
    /\ left[c] \subseteq open[c] /\ open[c] \subseteq target[c]

\* Each job is in one place.
JobsInv ==
  /\ NoDup(queue)
  /\ \A e \in Elems(queue) : Current(e)
  /\ \A w \in Workers : Busy(w) => job[w] \in Jobs /\ Current(job[w]) /\ job[w] \notin Elems(queue)
  /\ \A w \in Workers : pc[w] \in {"update", "execute"} => job[w].kind \in {"tick", "step"}
  /\ \A w \in Workers : pc[w] = "flag" => job[w].kind = "reload"

\* A worker is in the step that lifts the pause of an AI.
StepAt(a, labels) == \E w \in Workers : pc[w] \in labels /\ job[w].kind = "step" /\ Self(w) = a

\* The AIs of a pause that has returned are paused, but for the time of a step;
\* those the pause under way has reached are paused and not ticked.
HeldInv ==
  /\ \A a \in held : paused[a] <=> ~StepAt(a, {"update", "execute"})
  /\ op["server"] = "resume" => target["server"] \intersect held = {}
  /\ op["server"] = "pause" => \A a \in target["server"] \ open["server"] :
       paused[a] /\ \A w \in Workers : Ticking(w) => Self(w) # a

\* The step under way has updated an AI that is held when its job is over, or
\* at the behaviour, and not before.
StepInv ==
  op["server"] = "step" => \A a \in target["server"] \intersect held :
    steps[a] = IF a \notin open["server"] \/ StepAt(a, {"execute"}) THEN 1 ELSE 0

\* Nothing changes the pause of an AI while it is updated, and state that is stale
\* is flagged, or about to be, by a job or by an edit.
FreshInv ==
  /\ \A w \in Workers : pc[w] = "update" => ~paused[Self(w)]
  /\ \A a \in AIs : stale[a] =>
       reset[a] \/ editing = a \/ \E w \in Workers : pc[w] = "flag" /\ Self(w) = a

IInv == TypeOK /\ CallInv /\ JobsInv /\ PauseHolds /\ HeldInv /\ StepInv /\ FreshInv /\ FreshState

----------------------------------------------------------------------------
(* Sequences and callers                                                   *)

LEMMA AppendElems ==
  ASSUME NEW S, NEW s \in Seq(S), NEW e \in S
  PROVE  /\ Append(s, e) \in Seq(S)
         /\ Append(s, e) # <<>>
         /\ Elems(Append(s, e)) = Elems(s) \union {e}
         /\ NoDup(s) /\ e \notin Elems(s) => NoDup(Append(s, e))
<1>1. Append(s, e) \in Seq(S) /\ Append(s, e) # <<>>
  <2>1. Append(s, e) \in Seq(S) /\ Len(Append(s, e)) = Len(s) + 1 /\ Len(s) \in Nat
    OBVIOUS
  <2>2. Len(s) + 1 # Len(<<>>)
    BY <2>1
  <2> QED
    BY <2>1, <2>2
<1>2. /\ DOMAIN s = 1 .. Len(s)
      /\ DOMAIN Append(s, e) = 1 .. Len(s) + 1
      /\ \A i \in 1 .. Len(s) : Append(s, e)[i] = s[i]
      /\ Append(s, e)[Len(s) + 1] = e
  OBVIOUS
<1>3. Elems(Append(s, e)) = Elems(s) \union {e}
  BY <1>2 DEF Elems
<1>4. NoDup(s) /\ e \notin Elems(s) => NoDup(Append(s, e))
  BY <1>2 DEF Elems, NoDup
<1> QED
  BY <1>1, <1>3, <1>4

LEMMA TailElems ==
  ASSUME NEW S, NEW s \in Seq(S), s # <<>>, NoDup(s)
  PROVE  /\ Tail(s) \in Seq(S)
         /\ Head(s) \in S
         /\ Head(s) \in Elems(s)
         /\ Elems(Tail(s)) = Elems(s) \ {Head(s)}
         /\ NoDup(Tail(s))
<1>1. Tail(s) \in Seq(S) /\ Head(s) \in S /\ Len(s) \in Nat \ {0}
  OBVIOUS
<1>2. /\ DOMAIN s = 1 .. Len(s)
      /\ DOMAIN Tail(s) = 1 .. Len(s) - 1
      /\ \A i \in 1 .. Len(s) - 1 : Tail(s)[i] = s[i + 1]
      /\ Head(s) = s[1]
  OBVIOUS
<1>3. Head(s) \in Elems(s)
  BY <1>1, <1>2 DEF Elems
<1>4. NoDup(Tail(s))
  BY <1>1, <1>2 DEF NoDup
<1>5. ASSUME NEW e \in Elems(Tail(s)) PROVE e \in Elems(s) \ {Head(s)}
  BY <1>1, <1>2 DEF Elems, NoDup
<1>6. ASSUME NEW e \in Elems(s) \ {Head(s)} PROVE e \in Elems(Tail(s))
  <2>1. PICK i \in 1 .. Len(s) : e = s[i]
    BY <1>2 DEF Elems
  <2>2. i # 1 /\ i - 1 \in 1 .. Len(s) - 1 /\ i = (i - 1) + 1
    BY <1>1, <1>2, <2>1
  <2>3. Tail(s)[i - 1] = s[i]
    BY <1>2, <2>2
  <2> QED
    BY <1>2, <2>1, <2>2, <2>3 DEF Elems
<1> QED
  BY <1>1, <1>3, <1>4, <1>5, <1>6

LEMMA CallerKinds ==
  ASSUME NEW k \in Kinds
  PROVE  /\ Caller(k) \in Callers
         /\ Caller(k) = "zone" <=> k = "tick"
         /\ Caller(k) = "input" <=> k = "reload"
         /\ Caller(k) = "server" <=> k \in {"pause", "resume", "step", "reset"}
         /\ k # "none"
BY TickAssumption DEF Caller, Callers

----------------------------------------------------------------------------
(* The invariant                                                           *)

LEMMA InitIInv == Init => IInv
<1> SUFFICES ASSUME Init PROVE IInv
  OBVIOUS
<1> USE DEF Init
<1>1. TypeOK
  <2>1. queue \in Seq(Jobs) /\ job \in [Workers -> Jobs \union {NoJob}]
    OBVIOUS
  <2>2. pc \in [Workers -> {"idle", "start", "update", "execute", "flag"}]
    OBVIOUS
  <2>3. op \in [Callers -> Kinds \union {"none"}] /\ steps \in [AIs -> 0 .. 2]
    OBVIOUS
  <2> QED
    BY <2>1, <2>2, <2>3 DEF TypeOK
<1>2. CallInv
  BY DEF CallInv
<1>3. JobsInv
  BY DEF JobsInv, NoDup, Elems, Busy
<1>4. PauseHolds /\ HeldInv /\ FreshInv /\ FreshState
  BY DEF PauseHolds, Ticking, HeldInv, FreshInv, FreshState, Callers
<1>5. StepInv
  BY DEF StepInv, Callers
<1> QED
  BY <1>1, <1>2, <1>3, <1>4, <1>5 DEF IInv

\* The job of a busy worker.
LEMMA JobAt ==
  ASSUME IInv, NEW w \in Workers, Busy(w)
  PROVE  /\ job[w] \in Jobs /\ job[w].kind \in Kinds /\ Self(w) \in AIs
         /\ Caller(job[w].kind) \in Callers /\ op[Caller(job[w].kind)] = job[w].kind
         /\ Self(w) \in open[Caller(job[w].kind)] \ left[Caller(job[w].kind)]
         /\ job[w] \notin Elems(queue)
BY CallerKinds DEF IInv, JobsInv, Current, Jobs, Self

\* A job that is over, whatever it has done to the AI.
LEMMA FinishFrame ==
  ASSUME IInv, NEW w, Workers = {w}, Busy(w), Finish(w), Unchanged
  PROVE  /\ pc' \in [Workers -> {"idle", "start", "update", "execute", "flag"}] /\ pc'[w] = "idle"
         /\ job' \in [Workers -> Jobs \union {NoJob}]
         /\ open' \in [Callers -> SUBSET AIs]
         /\ \A c \in Callers : open'[c] = IF c = Caller(job[w].kind) THEN open[c] \ {Self(w)} ELSE open[c]
         /\ overtaken' \subseteq Workers
         /\ UNCHANGED <<ais, queue, op, target, left, held, editing>>
         /\ CallInv' /\ JobsInv'
<1>1. /\ job[w] \in Jobs /\ Caller(job[w].kind) \in Callers /\ op[Caller(job[w].kind)] = job[w].kind
      /\ Self(w) \in open[Caller(job[w].kind)] /\ job[w] \notin Elems(queue)
  BY JobAt
<1>2. /\ pc' \in [Workers -> {"idle", "start", "update", "execute", "flag"}] /\ pc'[w] = "idle"
      /\ job' \in [Workers -> Jobs \union {NoJob}]
      /\ open' \in [Callers -> SUBSET AIs]
      /\ \A c \in Callers : open'[c] = IF c = Caller(job[w].kind) THEN open[c] \ {Self(w)} ELSE open[c]
      /\ overtaken' \subseteq Workers
      /\ UNCHANGED <<ais, queue, op, target, left, held, editing>>
  BY <1>1 DEF Finish, Unchanged, IInv, TypeOK
<1>3. CallInv'
  <2>1. \A c \in Callers : Self(w) \in left[c] => c # Caller(job[w].kind)
    BY JobAt
  <2> QED
    BY <1>2, <2>1 DEF IInv, CallInv
<1>4. JobsInv'
  <2>1. ASSUME NEW e \in Elems(queue) PROVE Current(e)'
    <3>1. e \in Jobs /\ Current(e)
      BY DEF IInv, TypeOK, JobsInv, Elems
    <3>2. Caller(e.kind) \in Callers
      BY <3>1, CallerKinds DEF Jobs
    <3>3. Caller(e.kind) = Caller(job[w].kind) => e.ai # Self(w)
      <4>1. ASSUME Caller(e.kind) = Caller(job[w].kind), e.ai = Self(w) PROVE e = job[w]
        BY <1>1, <3>1, <4>1 DEF Current, Jobs, Self
      <4> QED
        BY <1>1, <4>1
    <3> QED
      BY <1>2, <3>1, <3>2, <3>3 DEF Current
  <2> QED
    BY <1>2, <2>1 DEF IInv, JobsInv, Busy
<1> QED
  BY <1>2, <1>3, <1>4

\* A job that goes on.
LEMMA GotoFrame ==
  ASSUME IInv, NEW w, Workers = {w}, Busy(w), Unchanged,
         NEW label \in {"update", "execute", "flag"}, Goto(w, label),
         label = "flag" => job[w].kind = "reload",
         label # "flag" => job[w].kind \in {"tick", "step"}
  PROVE  /\ pc' \in [Workers -> {"idle", "start", "update", "execute", "flag"}] /\ pc'[w] = label
         /\ overtaken' \subseteq Workers
         /\ label = "execute" /\ editing = Self(w) /\ ~reset[Self(w)] => w \in overtaken'
         /\ UNCHANGED <<ais, queue, job, op, target, left, open, held, editing>>
         /\ CallInv' /\ JobsInv'
<1>1. /\ pc' \in [Workers -> {"idle", "start", "update", "execute", "flag"}] /\ pc'[w] = label
      /\ overtaken' \subseteq Workers
      /\ label = "execute" /\ editing = Self(w) /\ ~reset[Self(w)] => w \in overtaken'
      /\ UNCHANGED <<ais, queue, job, op, target, left, open, held, editing>>
  BY DEF Goto, Unchanged, IInv, TypeOK
<1>2. CallInv'
  BY <1>1 DEF IInv, CallInv
<1>3. JobsInv'
  BY <1>1 DEF IInv, JobsInv, Busy, Current
<1> QED
  BY <1>1, <1>2, <1>3

----------------------------------------------------------------------------
(* The worker                                                              *)

\* What a pause, a resume or a step leaves of an AI does not concern the others.
LEMMA Servers ==
  ASSUME IInv, NEW w \in Workers, Busy(w), job[w].kind \in {"pause", "resume", "step", "reset"}
  PROVE  /\ Caller(job[w].kind) = "server" /\ op["server"] = job[w].kind
         /\ Self(w) \in open["server"] /\ open["server"] \subseteq target["server"]
BY JobAt, CallerKinds DEF IInv, CallInv, Callers


LEMMA CheckPauseIInv ==
  ASSUME IInv, NEW w, Workers = {w}, CheckPause(w)
  PROVE  IInv'
<1> DEFINE e == job[w]
           a == Self(w)
<1> USE DEF aiVars
<1>1. /\ Busy(w) /\ e.kind \in Kinds /\ a \in AIs /\ Caller(e.kind) \in Callers
      /\ op[Caller(e.kind)] = e.kind /\ a \in open[Caller(e.kind)] /\ open[Caller(e.kind)] \subseteq target[Caller(e.kind)]
      /\ pc[w] = "start" /\ e.kind \in {"tick"} /\ Unchanged
  BY JobAt DEF CheckPause, At, Busy, IInv, CallInv
<1>2. CASE paused[a]
  <2>1. Finish(w) /\ UNCHANGED aiVars
    BY <1>2 DEF CheckPause
  <2>2. /\ TypeOK' /\ CallInv' /\ JobsInv' /\ pc'[w] = "idle"
        /\ UNCHANGED <<op, target, held, editing, paused, reset, stale, steps>>
        /\ open'["server"] = open["server"]
    BY <1>1, <2>1, FinishFrame, CallerKinds, ZenonT(60) DEF IInv, TypeOK, Callers
  <2>3. PauseHolds' /\ HeldInv' /\ StepInv' /\ FreshInv' /\ FreshState'
    BY <1>1, <2>2 DEF IInv, PauseHolds, Ticking, HeldInv, StepAt, StepInv, FreshInv, FreshState
  <2> QED
    BY <2>2, <2>3 DEF IInv
<1>3. CASE ~paused[a]
  <2>1. Goto(w, "update") /\ UNCHANGED aiVars
    BY <1>3 DEF CheckPause
  <2>2. /\ TypeOK' /\ CallInv' /\ JobsInv' /\ pc'[w] = "update"
        /\ UNCHANGED <<job, op, target, open, held, editing, paused, reset, stale, steps>>
    BY <1>1, <2>1, GotoFrame DEF IInv, TypeOK
  <2>3. a \notin held
    BY <1>1, <1>3 DEF IInv, HeldInv, StepAt
  <2>4. op["server"] = "pause" => a \notin target["server"] \ open["server"]
    BY <1>3 DEF IInv, HeldInv
  <2>5. PauseHolds' /\ HeldInv'
    BY <1>1, <2>2, <2>3, <2>4 DEF IInv, PauseHolds, Ticking, HeldInv, StepAt, Self
  <2>6. StepInv' /\ FreshInv' /\ FreshState'
    BY <1>1, <1>3, <2>2 DEF IInv, StepAt, StepInv, FreshInv, FreshState, Self
  <2> QED
    BY <2>2, <2>5, <2>6 DEF IInv
<1> QED
  BY <1>2, <1>3

LEMMA UpdateAIIInv ==
  ASSUME IInv, NEW w, Workers = {w}, UpdateAI(w)
  PROVE  IInv'
<1> DEFINE e == job[w]
           a == Self(w)
<1> USE DEF aiVars
<1>1. /\ Busy(w) /\ e.kind \in Kinds /\ a \in AIs /\ Caller(e.kind) \in Callers
      /\ op[Caller(e.kind)] = e.kind /\ a \in open[Caller(e.kind)] /\ open[Caller(e.kind)] \subseteq target[Caller(e.kind)]
      /\ pc[w] = "update" /\ e.kind \in {"tick", "step"} /\ Unchanged
  BY JobAt DEF UpdateAI, At, Busy, IInv, CallInv
<1>2. ~paused[a]
  BY <1>1 DEF IInv, FreshInv
<1>3. /\ reset' = [reset EXCEPT ![a] = FALSE]
      /\ stale' = [stale EXCEPT ![a] = @ /\ ~reset[a]]
      /\ steps' = [steps EXCEPT ![a] = IF @ = 0 THEN 1 ELSE 2]
      /\ UNCHANGED paused
  BY <1>2 DEF UpdateAI
<1>4. /\ CallInv' /\ JobsInv' /\ pc'[w] = "execute"
      /\ pc' \in [Workers -> {"idle", "start", "update", "execute", "flag"}]
      /\ overtaken' \subseteq Workers
      /\ UNCHANGED <<ais, queue, left, job, op, target, open, held, editing>>
  BY <1>1, GotoFrame DEF UpdateAI
<1>9. editing = a /\ ~reset[a] => w \in overtaken'
  BY <1>1, GotoFrame DEF UpdateAI
<1>5. TypeOK'
  BY <1>1, <1>3, <1>4 DEF IInv, TypeOK
<1>6. PauseHolds' /\ HeldInv'
  BY <1>1, <1>3, <1>4 DEF IInv, PauseHolds, Ticking, HeldInv, StepAt, Self
<1>7. StepInv'
  <2> SUFFICES ASSUME op["server"] = "step", NEW b \in target["server"] \intersect held
               PROVE  steps'[b] = IF b \notin open["server"] \/ StepAt(b, {"execute"})' THEN 1 ELSE 0
    BY <1>4 DEF StepInv
  <2>1. b \in AIs /\ steps[b] = IF b \notin open["server"] \/ StepAt(b, {"execute"}) THEN 1 ELSE 0
    BY DEF IInv, TypeOK, StepInv
  <2>2. CASE b = a
    <3>1. e.kind = "step" /\ b \in open["server"]
      BY <1>1, <2>2, Servers DEF IInv, PauseHolds, Ticking
    <3>2. StepAt(b, {"execute"})' /\ ~StepAt(b, {"execute"})
      BY <1>1, <1>4, <2>2, <3>1 DEF StepAt, Self
    <3> QED
      BY <1>3, <2>1, <2>2, <3>1, <3>2 DEF IInv, TypeOK
  <2>3. CASE b # a
    <3>1. ~StepAt(b, {"execute"})' /\ ~StepAt(b, {"execute"})
      BY <1>1, <1>4, <2>3 DEF StepAt, Self
    <3> QED
      BY <1>3, <2>1, <2>3, <3>1 DEF IInv, TypeOK
  <2> QED
    BY <2>2, <2>3
<1>8. FreshInv' /\ FreshState'
  <2>1. /\ stale'[a] => editing = a /\ ~reset[a]
        /\ \A b \in AIs \ {a} : stale'[b] = stale[b] /\ reset'[b] = reset[b]
    BY <1>1, <1>3 DEF IInv, TypeOK, FreshInv
  <2> QED
    BY <1>1, <1>4, <1>9, <2>1 DEF IInv, FreshInv, FreshState, Self
<1> QED
  BY <1>4, <1>5, <1>6, <1>7, <1>8 DEF IInv

LEMMA ExecuteTickIInv ==
  ASSUME IInv, NEW w, Workers = {w}, ExecuteTick(w)
  PROVE  IInv'
<1> DEFINE e == job[w]
           a == Self(w)
<1> USE DEF aiVars
<1>1. /\ Busy(w) /\ e.kind \in Kinds /\ a \in AIs /\ Caller(e.kind) \in Callers
      /\ op[Caller(e.kind)] = e.kind /\ a \in open[Caller(e.kind)] /\ open[Caller(e.kind)] \subseteq target[Caller(e.kind)]
      /\ pc[w] = "execute" /\ e.kind \in {"tick"} /\ Unchanged
  BY JobAt DEF ExecuteTick, At, Busy, IInv, CallInv
<1>2. /\ TypeOK' /\ CallInv' /\ JobsInv' /\ pc'[w] = "idle"
      /\ UNCHANGED <<op, target, held, editing, paused, reset, stale, steps>>
      /\ open'["server"] = open["server"]
  BY <1>1, FinishFrame, CallerKinds, ZenonT(60) DEF ExecuteTick, IInv, TypeOK, Callers
<1>3. PauseHolds' /\ HeldInv' /\ StepInv' /\ FreshInv' /\ FreshState'
  <2>1. PauseHolds' /\ HeldInv'
    BY <1>1, <1>2 DEF IInv, PauseHolds, Ticking, HeldInv, StepAt
  <2>2. StepInv'
    BY <1>1, <1>2 DEF IInv, StepInv, StepAt
  <2>3. FreshInv' /\ FreshState'
    BY <1>1, <1>2 DEF IInv, FreshInv, FreshState
  <2> QED
    BY <2>1, <2>2, <2>3
<1> QED
  BY <1>2, <1>3 DEF IInv

LEMMA CheckStepIInv ==
  ASSUME IInv, NEW w, Workers = {w}, CheckStep(w)
  PROVE  IInv'
<1> DEFINE e == job[w]
           a == Self(w)
<1> USE DEF aiVars
<1>1. /\ Busy(w) /\ e.kind \in Kinds /\ a \in AIs /\ Caller(e.kind) \in Callers
      /\ op[Caller(e.kind)] = e.kind /\ a \in open[Caller(e.kind)] /\ open[Caller(e.kind)] \subseteq target[Caller(e.kind)]
      /\ pc[w] = "start" /\ e.kind \in {"step"} /\ Unchanged
  BY JobAt DEF CheckStep, At, Busy, IInv, CallInv
<1>2. op["server"] = "step" /\ Caller(e.kind) = "server"
  BY <1>1, Servers
<1>3. CASE paused[a]
  <2>1. paused' = [paused EXCEPT ![a] = FALSE] /\ UNCHANGED <<reset, stale, steps>> /\ Goto(w, "update")
    BY <1>3 DEF CheckStep
  <2>2. /\ CallInv' /\ JobsInv' /\ pc'[w] = "update"
        /\ pc' \in [Workers -> {"idle", "start", "update", "execute", "flag"}]
        /\ overtaken' \subseteq Workers
        /\ UNCHANGED <<ais, queue, left, job, op, target, open, held, editing>>
    BY <1>1, <2>1, GotoFrame
  <2>3. TypeOK'
    BY <2>1, <2>2 DEF IInv, TypeOK
  <2>4. ASSUME NEW b \in held PROVE (paused[b] <=> ~StepAt(b, {"update", "execute"}))'
    <3>1. b \in AIs /\ (paused[b] <=> ~StepAt(b, {"update", "execute"}))
      BY DEF IInv, TypeOK, HeldInv
    <3>2. StepAt(b, {"update", "execute"})' <=> b = a
      BY <1>1, <2>2 DEF StepAt, Self
    <3>3. ~StepAt(b, {"update", "execute"})
      BY <1>1 DEF StepAt
    <3> QED
      BY <2>1, <3>1, <3>2, <3>3 DEF IInv, TypeOK
  <2>5. HeldInv'
    BY <1>2, <2>2, <2>4 DEF HeldInv
  <2>6. PauseHolds' /\ StepInv'
    BY <1>1, <2>1, <2>2 DEF IInv, PauseHolds, Ticking, StepInv, StepAt, Self
  <2>7. FreshInv' /\ FreshState'
    BY <1>1, <2>1, <2>2 DEF IInv, TypeOK, FreshInv, FreshState, Self
  <2> QED
    BY <2>2, <2>3, <2>5, <2>6, <2>7 DEF IInv
\* An AI that is held is paused.
<1>4. CASE ~paused[a]
  <2>1. /\ TypeOK' /\ CallInv' /\ JobsInv' /\ pc'[w] = "idle"
        /\ UNCHANGED <<op, target, held, editing, paused, reset, stale, steps>>
        /\ open'["server"] = open["server"] \ {a}
    BY <1>1, <1>2, <1>4, FinishFrame DEF CheckStep, IInv, TypeOK
  <2>2. a \notin held
    BY <1>1, <1>4 DEF IInv, HeldInv, StepAt
  <2>3. PauseHolds' /\ HeldInv' /\ StepInv' /\ FreshInv' /\ FreshState'
    BY <1>1, <1>2, <2>1, <2>2
    DEF IInv, PauseHolds, Ticking, HeldInv, StepAt, StepInv, FreshInv, FreshState
  <2> QED
    BY <2>1, <2>3 DEF IInv
<1> QED
  BY <1>3, <1>4

LEMMA ExecuteStepIInv ==
  ASSUME IInv, NEW w, Workers = {w}, ExecuteStep(w)
  PROVE  IInv'
<1> DEFINE e == job[w]
           a == Self(w)
<1> USE DEF aiVars
<1>1. /\ Busy(w) /\ e.kind \in Kinds /\ a \in AIs /\ Caller(e.kind) \in Callers
      /\ op[Caller(e.kind)] = e.kind /\ a \in open[Caller(e.kind)] /\ open[Caller(e.kind)] \subseteq target[Caller(e.kind)]
      /\ pc[w] = "execute" /\ e.kind \in {"step"} /\ Unchanged
  BY JobAt DEF ExecuteStep, At, Busy, IInv, CallInv
<1>2. op["server"] = "step" /\ Caller(e.kind) = "server"
  BY <1>1, Servers
<1>3. /\ CallInv' /\ JobsInv' /\ pc'[w] = "idle"
      /\ pc' \in [Workers -> {"idle", "start", "update", "execute", "flag"}]
      /\ job' \in [Workers -> Jobs \union {NoJob}] /\ open' \in [Callers -> SUBSET AIs]
      /\ overtaken' \subseteq Workers
      /\ UNCHANGED <<ais, queue, left, op, target, held, editing, reset, stale, steps>>
      /\ open'["server"] = open["server"] \ {a}
      /\ paused' = [paused EXCEPT ![a] = TRUE]
  BY <1>1, <1>2, FinishFrame DEF ExecuteStep
<1>4. TypeOK'
  BY <1>3 DEF IInv, TypeOK
<1>5. PauseHolds' /\ FreshInv' /\ FreshState'
  BY <1>1, <1>3 DEF IInv, PauseHolds, Ticking, FreshInv, FreshState
<1>6. ASSUME NEW b \in held
      PROVE  /\ StepAt(b, {"update", "execute"}) <=> b = a
             /\ StepAt(b, {"execute"}) <=> b = a
             /\ ~StepAt(b, {"update", "execute"})' /\ ~StepAt(b, {"execute"})'
  BY <1>1, <1>3 DEF StepAt, Self
<1>7. HeldInv'
  BY <1>1, <1>2, <1>3, <1>6 DEF IInv, TypeOK, HeldInv
<1>8. StepInv'
  BY <1>1, <1>2, <1>3, <1>6 DEF IInv, StepInv
<1> QED
  BY <1>3, <1>4, <1>5, <1>7, <1>8 DEF IInv

LEMMA SetPauseIInv ==
  ASSUME IInv, NEW w, Workers = {w}, SetPause(w)
  PROVE  IInv'
<1> DEFINE e == job[w]
           a == Self(w)
<1> USE DEF aiVars
<1>1. /\ Busy(w) /\ e.kind \in Kinds /\ a \in AIs /\ Caller(e.kind) \in Callers
      /\ op[Caller(e.kind)] = e.kind /\ a \in open[Caller(e.kind)] /\ open[Caller(e.kind)] \subseteq target[Caller(e.kind)]
      /\ pc[w] = "start" /\ e.kind \in {"pause", "resume"} /\ Unchanged
  BY JobAt DEF SetPause, At, Busy, IInv, CallInv
<1>2. op["server"] = e.kind /\ Caller(e.kind) = "server" /\ a \in target["server"]
  BY <1>1, Servers
<1>3. /\ CallInv' /\ JobsInv' /\ pc'[w] = "idle"
      /\ pc' \in [Workers -> {"idle", "start", "update", "execute", "flag"}]
      /\ job' \in [Workers -> Jobs \union {NoJob}] /\ open' \in [Callers -> SUBSET AIs]
      /\ overtaken' \subseteq Workers
      /\ UNCHANGED <<ais, queue, left, op, target, held, editing, reset, stale, steps>>
      /\ open'["server"] = open["server"] \ {a}
      /\ paused' = [paused EXCEPT ![a] = (e.kind = "pause")]
  BY <1>1, <1>2, FinishFrame DEF SetPause
<1>4. TypeOK'
  BY <1>3 DEF IInv, TypeOK
<1>5. PauseHolds' /\ FreshInv' /\ FreshState'
  BY <1>1, <1>3 DEF IInv, PauseHolds, Ticking, FreshInv, FreshState
<1>6. ASSUME NEW b \in held
      PROVE  ~StepAt(b, {"update", "execute"}) /\ ~StepAt(b, {"update", "execute"})'
  BY <1>1, <1>3 DEF StepAt
<1>7. HeldInv'
  <2>1. e.kind = "resume" => a \notin held
    BY <1>2 DEF IInv, HeldInv
  <2>2. \A b \in held : paused'[b] <=> ~StepAt(b, {"update", "execute"})'
    BY <1>1, <1>3, <1>6, <2>1 DEF IInv, TypeOK, HeldInv
  <2>3. op["server"] = "pause" => \A b \in target["server"] \ open'["server"] :
          paused'[b] /\ \A v \in Workers : ~Ticking(v)'
    BY <1>1, <1>2, <1>3 DEF IInv, TypeOK, HeldInv, Ticking
  <2> QED
    BY <1>3, <2>2, <2>3 DEF IInv, HeldInv
<1>8. StepInv'
  BY <1>1, <1>2, <1>3 DEF StepInv
<1> QED
  BY <1>3, <1>4, <1>5, <1>7, <1>8 DEF IInv

LEMMA ResetStateIInv ==
  ASSUME IInv, NEW w, Workers = {w}, ResetState(w)
  PROVE  IInv'
<1> DEFINE e == job[w]
           a == Self(w)
<1> USE DEF aiVars
<1>1. /\ Busy(w) /\ e.kind \in Kinds /\ a \in AIs /\ Caller(e.kind) \in Callers
      /\ op[Caller(e.kind)] = e.kind /\ a \in open[Caller(e.kind)] /\ open[Caller(e.kind)] \subseteq target[Caller(e.kind)]
      /\ pc[w] = "start" /\ e.kind \in {"reset"} /\ Unchanged
  BY JobAt DEF ResetState, At, Busy, IInv, CallInv
<1>2. op["server"] = "reset" /\ Caller(e.kind) = "server"
  BY <1>1, Servers
<1>3. /\ TypeOK' /\ CallInv' /\ JobsInv' /\ pc'[w] = "idle"
      /\ UNCHANGED <<op, target, held, editing, paused, reset, stale, steps>>
  BY <1>1, FinishFrame DEF ResetState, IInv, TypeOK
<1>4. PauseHolds' /\ HeldInv' /\ StepInv' /\ FreshInv' /\ FreshState'
  BY <1>1, <1>2, <1>3 DEF IInv, PauseHolds, Ticking, HeldInv, StepAt, StepInv, FreshInv, FreshState
<1> QED
  BY <1>3, <1>4 DEF IInv

LEMMA SetBehaviourIInv ==
  ASSUME IInv, NEW w, Workers = {w}, SetBehaviour(w)
  PROVE  IInv'
<1> DEFINE e == job[w]
           a == Self(w)
<1> USE DEF aiVars
<1>1. /\ Busy(w) /\ e.kind \in Kinds /\ a \in AIs /\ Caller(e.kind) \in Callers
      /\ op[Caller(e.kind)] = e.kind /\ a \in open[Caller(e.kind)] /\ open[Caller(e.kind)] \subseteq target[Caller(e.kind)]
      /\ pc[w] = "start" /\ e.kind \in {"reload"} /\ Unchanged
  BY JobAt DEF SetBehaviour, At, Busy, IInv, CallInv
<1>2. /\ CallInv' /\ JobsInv' /\ pc'[w] = "flag"
      /\ pc' \in [Workers -> {"idle", "start", "update", "execute", "flag"}]
      /\ overtaken' \subseteq Workers
      /\ UNCHANGED <<ais, queue, left, job, op, target, open, held, editing, paused, reset, steps>>
      /\ stale' = [stale EXCEPT ![a] = TRUE]
  BY <1>1, GotoFrame DEF SetBehaviour
<1>3. TypeOK'
  BY <1>2 DEF IInv, TypeOK
<1>4. PauseHolds' /\ HeldInv' /\ StepInv'
  BY <1>1, <1>2 DEF IInv, PauseHolds, Ticking, HeldInv, StepAt, StepInv
<1>5. FreshInv' /\ FreshState'
  BY <1>1, <1>2 DEF IInv, TypeOK, FreshInv, FreshState, Self
<1> QED
  BY <1>2, <1>3, <1>4, <1>5 DEF IInv

LEMMA FlagResetIInv ==
  ASSUME IInv, NEW w, Workers = {w}, FlagReset(w)
  PROVE  IInv'
<1> DEFINE e == job[w]
           a == Self(w)
<1> USE DEF aiVars
<1>1. /\ Busy(w) /\ e.kind \in Kinds /\ a \in AIs /\ Caller(e.kind) \in Callers
      /\ op[Caller(e.kind)] = e.kind /\ a \in open[Caller(e.kind)] /\ open[Caller(e.kind)] \subseteq target[Caller(e.kind)]
      /\ pc[w] = "flag" /\ e.kind \in {"reload"} /\ Unchanged
  BY JobAt DEF FlagReset, At, Busy, IInv, CallInv
<1>2. /\ CallInv' /\ JobsInv' /\ pc'[w] = "idle"
      /\ pc' \in [Workers -> {"idle", "start", "update", "execute", "flag"}]
      /\ job' \in [Workers -> Jobs \union {NoJob}] /\ open' \in [Callers -> SUBSET AIs]
      /\ overtaken' \subseteq Workers
      /\ UNCHANGED <<ais, queue, left, op, target, held, editing, paused, stale, steps>>
      /\ open'["server"] = open["server"]
      /\ reset' = [reset EXCEPT ![a] = TRUE]
  BY <1>1, FinishFrame, CallerKinds DEF FlagReset, Callers
<1>3. TypeOK'
  BY <1>2 DEF IInv, TypeOK
<1>4. PauseHolds' /\ HeldInv' /\ StepInv'
  BY <1>1, <1>2 DEF IInv, PauseHolds, Ticking, HeldInv, StepAt, StepInv
<1>5. FreshInv' /\ FreshState'
  BY <1>1, <1>2 DEF IInv, TypeOK, FreshInv, FreshState
<1> QED
  BY <1>2, <1>3, <1>4, <1>5 DEF IInv

LEMMA TakeIInv ==
  ASSUME IInv, NEW w, Workers = {w}, Take(w)
  PROVE  IInv'
<1> USE DEF callVars, aiVars, editVars
<1>1. queue \in Seq(Jobs) /\ queue # <<>> /\ NoDup(queue) /\ pc[w] = "idle"
  BY DEF Take, IInv, TypeOK, JobsInv
<1>2. /\ queue' \in Seq(Jobs) /\ Head(queue) \in Jobs /\ Head(queue) \in Elems(queue)
      /\ Elems(queue') = Elems(queue) \ {Head(queue)} /\ NoDup(queue')
  BY <1>1, TailElems DEF Take
<1>3. /\ pc' \in [Workers -> {"idle", "start", "update", "execute", "flag"}] /\ pc'[w] = "start"
      /\ job' \in [Workers -> Jobs \union {NoJob}] /\ job'[w] = Head(queue)
      /\ UNCHANGED <<ais, op, target, left, open, paused, reset, stale, steps, held, editing, overtaken>>
  BY <1>2 DEF Take, IInv, TypeOK
<1>4. TypeOK'
  BY <1>2, <1>3 DEF IInv, TypeOK
<1>5. CallInv'
  BY <1>3 DEF IInv, CallInv
<1>6. JobsInv'
  <2>1. \A e \in Elems(queue) : Current(e)'
    BY <1>3 DEF IInv, JobsInv, Current
  <2> QED
    BY <1>2, <1>3, <2>1 DEF JobsInv, Busy
<1>7. PauseHolds' /\ HeldInv' /\ StepInv' /\ FreshInv' /\ FreshState'
  BY <1>1, <1>3 DEF IInv, PauseHolds, Ticking, HeldInv, StepAt, StepInv, FreshInv, FreshState
<1> QED
  BY <1>4, <1>5, <1>6, <1>7 DEF IInv

----------------------------------------------------------------------------
(* The callers                                                             *)

LEMMA MapIInv ==
  ASSUME IInv, NEW a \in AIs, Enter(a) \/ Leave(a)
  PROVE  IInv'
<1> USE DEF poolVars, callVars, aiVars, editVars
<1>1. /\ ais' \subseteq AIs
      /\ UNCHANGED <<queue, job, pc, op, target, left, open, paused, reset, stale, steps, held, editing, overtaken>>
  BY DEF Enter, Leave, IInv, TypeOK
<1>2. TypeOK'
  BY <1>1 DEF IInv, TypeOK
<1>3. CallInv' /\ JobsInv'
  BY <1>1 DEF IInv, CallInv, JobsInv, Current, Busy
<1>4. PauseHolds' /\ HeldInv' /\ StepInv' /\ FreshInv' /\ FreshState'
  BY <1>1 DEF IInv, PauseHolds, Ticking, HeldInv, StepAt, StepInv, FreshInv, FreshState, Self
<1> QED
  BY <1>2, <1>3, <1>4 DEF IInv

\* An edit of the debugger: outside the pool, and while the server is in no call.
LEMMA EditIInv ==
  ASSUME IInv, (\E a \in AIs : EditBehaviour(a)) \/ EditFlag
  PROVE  IInv'
<1> USE DEF poolVars, callVars, aiVars, editVars
<1>1. UNCHANGED <<ais, queue, job, pc, op, target, left, open, paused, steps, held>>
  BY DEF EditBehaviour, EditFlag
<1>2. CallInv' /\ JobsInv'
  BY <1>1 DEF IInv, CallInv, JobsInv, Current, Busy
<1>3. PauseHolds' /\ HeldInv' /\ StepInv'
  BY <1>1 DEF IInv, PauseHolds, Ticking, HeldInv, StepAt, StepInv, Self
<1>4. ASSUME NEW a \in AIs, EditBehaviour(a) PROVE TypeOK' /\ FreshInv' /\ FreshState'
  <2>1. /\ editing = NoAI /\ editing' = a /\ stale' = [stale EXCEPT ![a] = TRUE] /\ reset' = reset
        /\ overtaken' = overtaken \union {w \in Workers : pc[w] = "execute" /\ Self(w) = a}
    BY <1>4 DEF EditBehaviour
  <2>2. TypeOK'
    BY <1>1, <2>1 DEF IInv, TypeOK
  <2>3. FreshInv'
    BY <1>1, <2>1, TickAssumption DEF IInv, TypeOK, FreshInv, Self
  <2>4. FreshState'
    <3>1. ASSUME NEW w \in Workers, pc[w] = "execute", stale'[Self(w)], Self(w) # a
          PROVE  w \in overtaken
      <4>1. Self(w) \in AIs
        BY <3>1, JobAt DEF Busy
      <4> QED
        BY <2>1, <3>1, <4>1 DEF IInv, TypeOK, FreshState
    <3> QED
      BY <1>1, <2>1, <3>1 DEF FreshState, Self
  <2> QED
    BY <2>2, <2>3, <2>4
<1>5. ASSUME EditFlag PROVE TypeOK' /\ FreshInv' /\ FreshState'
  <2>1. /\ editing \in AIs /\ editing' = NoAI /\ reset' = [reset EXCEPT ![editing] = TRUE]
        /\ UNCHANGED <<stale, overtaken>>
    BY <1>5 DEF EditFlag, IInv, TypeOK
  <2>2. TypeOK'
    BY <1>1, <2>1 DEF IInv, TypeOK
  <2>3. FreshInv' /\ FreshState'
    BY <1>1, <2>1 DEF IInv, TypeOK, FreshInv, FreshState, Self
  <2> QED
    BY <2>2, <2>3
<1> QED
  BY <1>2, <1>3, <1>4, <1>5 DEF IInv

LEMMA EnqueueIInv ==
  ASSUME IInv, NEW c \in Callers, NEW a \in AIs, Enqueue(c, a)
  PROVE  IInv'
<1> DEFINE e == [kind |-> op[c], ai |-> a]
<1> USE DEF callVars, aiVars, editVars
<1>1. /\ a \in left[c] /\ left' = [left EXCEPT ![c] = @ \ {a}] /\ queue' = Append(queue, e)
      /\ UNCHANGED <<ais, job, pc, op, target, open, paused, reset, stale, steps, held, editing, overtaken>>
  BY DEF Enqueue
<1>2. op[c] \in Kinds /\ Caller(op[c]) = c /\ a \in open[c] /\ e \in Jobs
  BY <1>1 DEF IInv, TypeOK, CallInv, Jobs
<1>3. e \notin Elems(queue) /\ \A w \in Workers : Busy(w) => job[w] # e
  BY <1>1, <1>2 DEF IInv, JobsInv, Current
<1>4. queue' \in Seq(Jobs) /\ NoDup(queue') /\ Elems(queue') = Elems(queue) \union {e}
  BY <1>1, <1>2, <1>3, AppendElems DEF IInv, TypeOK, JobsInv
<1>5. TypeOK'
  BY <1>1, <1>4 DEF IInv, TypeOK
<1>6. CallInv'
  BY <1>1 DEF IInv, TypeOK, CallInv
<1>7. JobsInv'
  <2>1. ASSUME NEW f, f \in Jobs, Current(f) PROVE Current(f)'
    <3>1. Caller(f.kind) \in Callers
      BY <2>1, CallerKinds DEF Jobs
    <3> QED
      BY <1>1, <2>1, <3>1 DEF Current, IInv, TypeOK
  <2>2. Current(e)'
    BY <1>1, <1>2 DEF Current, IInv, TypeOK
  <2>3. \A f \in Elems(queue) : f \in Jobs
    BY DEF IInv, TypeOK, Elems
  <2> QED
    BY <1>1, <1>3, <1>4, <2>1, <2>2, <2>3 DEF IInv, JobsInv, Busy
<1>8. PauseHolds' /\ HeldInv' /\ StepInv' /\ FreshInv' /\ FreshState'
  BY <1>1 DEF IInv, PauseHolds, Ticking, HeldInv, StepAt, StepInv, FreshInv, FreshState, Self
<1> QED
  BY <1>5, <1>6, <1>7, <1>8 DEF IInv

\* A job of the server while the server is in no call.
LEMMA NoServerJob ==
  ASSUME IInv, op["server"] = "none", NEW w \in Workers, Busy(w)
  PROVE  job[w].kind \in {"tick", "reload"}
BY JobAt, CallerKinds, TickAssumption DEF Callers

LEMMA BeginIInv ==
  ASSUME IInv, NEW kind \in Kinds, Begin(kind)
  PROVE  IInv'
<1> DEFINE c == Caller(kind)
<1> USE DEF poolVars, callVars, aiVars, editVars
<1>1. /\ c \in Callers /\ op[c] = "none"
      /\ op' = [op EXCEPT ![c] = kind] /\ target' = [target EXCEPT ![c] = ais]
      /\ left' = [left EXCEPT ![c] = ais] /\ open' = [open EXCEPT ![c] = ais]
      /\ steps' = IF kind = "step" THEN [a \in AIs |-> 0] ELSE steps
      /\ held' = IF kind = "resume" THEN held \ ais ELSE held
      /\ UNCHANGED <<ais, queue, job, pc, paused, reset, stale, editing, overtaken>>
  BY CallerKinds DEF Begin
<1>2. TypeOK'
  BY <1>1 DEF IInv, TypeOK
<1>3. CallInv'
  BY <1>1, CallerKinds DEF IInv, TypeOK, CallInv
<1>4. JobsInv'
  <2>1. ASSUME NEW f, f \in Jobs, Current(f) PROVE Current(f)'
    <3>1. Caller(f.kind) \in Callers /\ Caller(f.kind) # c
      BY <1>1, <2>1, CallerKinds DEF Jobs, Current
    <3> QED
      BY <1>1, <2>1, <3>1 DEF Current, IInv, TypeOK
  <2>2. \A f \in Elems(queue) : f \in Jobs
    BY DEF IInv, TypeOK, Elems
  <2> QED
    BY <1>1, <2>1, <2>2 DEF IInv, JobsInv, Busy
<1>5. CASE c # "server"
  <2>1. /\ op'["server"] = op["server"] /\ target'["server"] = target["server"]
        /\ open'["server"] = open["server"] /\ held' = held /\ steps' = steps
    BY <1>1, <1>5, CallerKinds DEF IInv, TypeOK, Callers
  <2>2. PauseHolds' /\ HeldInv' /\ StepInv' /\ FreshInv' /\ FreshState'
    BY <1>1, <2>1 DEF IInv, PauseHolds, Ticking, HeldInv, StepAt, StepInv, FreshInv, FreshState, Self
  <2> QED
    BY <1>2, <1>3, <1>4, <2>2 DEF IInv
<1>6. CASE c = "server"
  <2>1. /\ op["server"] = "none" /\ op'["server"] = kind
        /\ target'["server"] = ais /\ open'["server"] = ais /\ held' \subseteq held
    BY <1>1, <1>6 DEF IInv, TypeOK
  <2>2. \A a \in AIs : ~StepAt(a, {"update", "execute"}) /\ ~StepAt(a, {"execute"})
    BY <2>1, NoServerJob DEF StepAt, Busy
  <2>3. \A a \in AIs : ~StepAt(a, {"update", "execute"})' /\ ~StepAt(a, {"execute"})'
    BY <1>1, <2>2 DEF StepAt, Self
  <2>4. HeldInv'
    BY <1>1, <2>1, <2>2, <2>3 DEF IInv, TypeOK, HeldInv
  <2>5. StepInv'
    BY <1>1, <2>1, <2>3 DEF IInv, TypeOK, StepInv
  <2>6. PauseHolds' /\ FreshInv' /\ FreshState'
    BY <1>1, <2>1 DEF IInv, PauseHolds, Ticking, FreshInv, FreshState, Self
  <2> QED
    BY <1>2, <1>3, <1>4, <2>4, <2>5, <2>6 DEF IInv
<1> QED
  BY <1>5, <1>6

LEMMA ReturnIInv ==
  ASSUME IInv, NEW c \in Callers, Return(c)
  PROVE  IInv'
<1> USE DEF poolVars, callVars, aiVars, editVars
<1>1. /\ op[c] # "none" /\ open[c] = {}
      /\ op' = [op EXCEPT ![c] = "none"] /\ target' = [target EXCEPT ![c] = {}]
      /\ held' = IF op[c] = "pause" THEN held \union target[c] ELSE held
      /\ UNCHANGED <<ais, queue, job, pc, left, open, paused, reset, stale, steps, editing, overtaken>>
  BY DEF Return
<1>2. TypeOK'
  BY <1>1 DEF IInv, TypeOK
<1>3. CallInv'
  BY <1>1 DEF IInv, TypeOK, CallInv
<1>4. JobsInv'
  <2>1. ASSUME NEW f, f \in Jobs, Current(f) PROVE Current(f)'
    <3>1. Caller(f.kind) \in Callers /\ Caller(f.kind) # c
      BY <1>1, <2>1, CallerKinds DEF Jobs, Current
    <3> QED
      BY <1>1, <2>1, <3>1 DEF Current, IInv, TypeOK
  <2>2. \A f \in Elems(queue) : f \in Jobs
    BY DEF IInv, TypeOK, Elems
  <2> QED
    BY <1>1, <2>1, <2>2 DEF IInv, JobsInv, Busy
<1>5. CASE op[c] # "pause"
  <2>1. /\ held' = held
        /\ op'["server"] \in {op["server"], "none"} /\ op'["server"] = op["server"] =>
             target'["server"] = target["server"] /\ open'["server"] = open["server"]
    BY <1>1, <1>5 DEF IInv, TypeOK, Callers
  <2>2. PauseHolds' /\ HeldInv' /\ StepInv' /\ FreshInv' /\ FreshState'
    BY <1>1, <2>1 DEF IInv, PauseHolds, Ticking, HeldInv, StepAt, StepInv, FreshInv, FreshState, Self
  <2> QED
    BY <1>2, <1>3, <1>4, <2>2 DEF IInv
\* The jobs of the pause are done, and no step is under way.
<1>6. CASE op[c] = "pause"
  <2>1. c = "server" /\ op["server"] = "pause" /\ op'["server"] = "none"
    BY <1>1, <1>6, CallerKinds DEF IInv, TypeOK, CallInv
  <2>2. \A a \in AIs : ~StepAt(a, {"update", "execute"})
    BY <2>1, JobAt, CallerKinds DEF StepAt, Busy
  <2>3. \A a \in AIs : ~StepAt(a, {"update", "execute"})'
    BY <1>1, <2>2 DEF StepAt, Self
  <2>4. \A a \in target["server"] : paused[a] /\ \A w \in Workers : Ticking(w) => Self(w) # a
    BY <1>1, <2>1 DEF IInv, HeldInv
  <2>5. held' = held \union target["server"] /\ held' \subseteq AIs
    BY <1>1, <1>2, <2>1 DEF TypeOK
  <2>6. HeldInv'
    BY <1>1, <2>1, <2>2, <2>3, <2>4, <2>5 DEF IInv, HeldInv
  <2>7. PauseHolds'
    BY <1>1, <2>4, <2>5 DEF IInv, PauseHolds, Ticking, Self
  <2>8. StepInv' /\ FreshInv' /\ FreshState'
    BY <1>1, <2>1 DEF IInv, StepInv, FreshInv, FreshState, Self
  <2> QED
    BY <1>2, <1>3, <1>4, <2>6, <2>7, <2>8 DEF IInv
<1> QED
  BY <1>5, <1>6

LEMMA NextIInv == ASSUME OneWorker, IInv, [Next]_vars PROVE IInv'
<1>1. PICK w : Workers = {w}
  BY DEF OneWorker
<1>2. CASE Work(w)
  BY <1>1, <1>2, TakeIInv, CheckPauseIInv, UpdateAIIInv, ExecuteTickIInv, CheckStepIInv, ExecuteStepIInv,
     SetPauseIInv, ResetStateIInv, SetBehaviourIInv, FlagResetIInv DEF Work
<1>3. CASE UNCHANGED vars
  <2>1. UNCHANGED <<ais, queue, job, pc, op, target, left, open, paused, reset, stale, steps, held, editing, overtaken>>
    BY <1>3 DEF vars, poolVars, callVars, aiVars, editVars
  <2>2. TypeOK'
    BY <2>1 DEF IInv, TypeOK
  <2>3. CallInv' /\ JobsInv'
    BY <2>1 DEF IInv, CallInv, JobsInv, Current, Busy
  <2>4. PauseHolds' /\ HeldInv' /\ StepInv' /\ FreshInv' /\ FreshState'
    BY <2>1 DEF IInv, PauseHolds, Ticking, HeldInv, StepAt, StepInv, FreshInv, FreshState, Self
  <2> QED
    BY <2>2, <2>3, <2>4 DEF IInv
<1> QED
  BY <1>1, <1>2, <1>3, MapIInv, EditIInv, BeginIInv, ReturnIInv, EnqueueIInv DEF Next, Run

----------------------------------------------------------------------------
(* The theorems                                                            *)

LEMMA Invariant == ASSUME OneWorker PROVE Spec => []IInv
<1>1. Init => IInv
  BY InitIInv
<1>2. IInv /\ [Next]_vars => IInv'
  BY NextIInv
<1> QED
  BY <1>1, <1>2, PTL DEF Spec

\* An AI that a returned pause has reached is not ticked, and a step updates every
\* one of them once and leaves it paused (ServerImpl.h:214-220, 236-245).
THEOREM PauseIsKept == ASSUME OneWorker PROVE Spec => []PauseKept
<1>1. IInv => PauseKept
  <2> SUFFICES ASSUME IInv PROVE PauseKept
    OBVIOUS
  <2>1. StepsOnce
    <3> SUFFICES ASSUME op["server"] = "step", open["server"] = {},
                        NEW a \in target["server"] \intersect held
                 PROVE  steps[a] = 1 /\ paused[a]
      BY DEF StepsOnce
    <3>1. ~StepAt(a, {"update", "execute"})
      BY JobAt, CallerKinds DEF StepAt, Busy
    <3> QED
      BY <3>1 DEF IInv, HeldInv, StepInv
  <2> QED
    BY <2>1 DEF IInv, PauseKept
<1>2. Spec => []IInv
  BY Invariant
<1> QED
  BY <1>1, <1>2, PTL

\* A new behaviour runs on the state of the one before in no tick but one that the
\* debugger's edit overtook on its way from AI::update to execute (AI.h:207,
\* ServerImpl.h:346).
THEOREM StateIsFresh == ASSUME OneWorker PROVE Spec => []FreshState
<1>1. IInv => FreshState
  BY DEF IInv
<1>2. Spec => []IInv
  BY Invariant
<1> QED
  BY <1>1, <1>2, PTL
=============================================================================
