------------------------------ MODULE Steering ------------------------------
(***************************************************************************)
(* Where an AI moves in a tick (src/ai/movement, the task Steer): each     *)
(* steering gives a direction towards a target or away from it, or fails,  *)
(* and the blended directions move the character.  The world is a line.    *)
(***************************************************************************)
EXTENDS Integers, Sequences, SequencesExt

CONSTANTS Far,   \* VEC3_INFINITE, and any other vector that is infinite
          Lost   \* a vector that is not a number, like all that is calculated from it

Sum(ns) == FoldLeft(+, 0, ns)

Average(ps) ==
  IF ps = <<>> THEN Far ELSE IF Lost \in ToSet(ps) THEN Lost ELSE Sum(ps) \div Len(ps)

\* A character of the world w: where it is, its zone (or none) with the positions of
\* the members of the group, what its filters have selected, where it looks.
Target(w, kind) ==
  CASE kind = "Target" -> w.target
    [] kind = "Group" -> IF w.zone THEN Average(w.group) ELSE Far
    [] kind = "Selection" -> IF w.selection = <<>> THEN Far ELSE w.selection[1]

Minus(x, y) == IF Lost \in {x, y} THEN Lost ELSE IF Far \in {x, y} THEN Far ELSE x - y

\* Neither no vector nor an infinite one has a direction.
Normalize(v) == IF v \in {0, Far, Lost} THEN Lost ELSE IF v > 0 THEN 1 ELSE -1

\* The steerings of a selection go on when there is none (the return is missing).
Execute(w, s) ==
  LET to == Target(w, s.kind)
  IN  CASE s.kind = "Wander" -> w.facing
        [] s.kind \in {"Target", "Group"} /\ to = Far -> Far
        [] OTHER -> Normalize(IF s.way = "Seek" THEN Minus(to, w.pos) ELSE Minus(w.pos, to))

Counted(w, steerings) == SelectSeq(steerings, LAMBDA s : Execute(w, s) # Far)

\* Fault: the weight of a steering is counted before its result is looked at.
TotalWeightAll(w, steerings) == Sum([i \in DOMAIN steerings |-> steerings[i].weight])

TotalWeight(w, steerings) ==
  LET counted == Counted(w, steerings)
  IN  Sum([i \in DOMAIN counted |-> counted[i].weight])

Blend(w, steerings, speed) ==
  LET counted == Counted(w, steerings)
  IN  IF counted = <<>> THEN Far
      ELSE IF \E i \in DOMAIN counted : Execute(w, counted[i]) = Lost THEN Lost
      ELSE (speed * Sum([i \in DOMAIN counted |-> Execute(w, counted[i]) * counted[i].weight])) \div TotalWeight(w, steerings)

\* Without weights, all are the same.
Weighted(steerings, weights) ==
  [i \in DOMAIN steerings |-> [kind |-> steerings[i].kind, way |-> steerings[i].way,
                               weight |-> IF weights = <<>> THEN 1 ELSE weights[i]]]

DoAction(w, steerings, speed) ==
  LET v == Blend(w, steerings, speed)
  IN  [status |-> IF v = Far THEN "FAILED" ELSE "FINISHED",
       pos |-> IF v = Far THEN w.pos ELSE IF Lost \in {v, w.pos} THEN Lost ELSE w.pos + v]

----------------------------------------------------------------------------
(* What is to be checked: positions, weights and a speed that are divided   *)
(* without a rest.                                                         *)

Speed == 12
Positions == {-6, 0, 6}
Worlds ==
  [pos : Positions, target : Positions \union {Far},
   zone : BOOLEAN, group : {<<>>} \union {<<p>> : p \in Positions} \union {<<6, p>> : p \in {0, 6, Lost}},
   selection : {<<>>, <<6>>, <<Lost>>, <<0, 6>>}, facing : {1}]
Ways == [kind : {"Target", "Group", "Selection"}, way : {"Seek", "Flee"}] \union {[kind |-> "Wander", way |-> "Seek"]}
Blends == {Weighted(<<s>>, <<>>) : s \in Ways} \union {Weighted(<<s, t>>, g) : s, t \in Ways, g \in {<<>>, <<1, 3>>}}

Fails(w, s) == s.kind \in {"Target", "Group"} /\ Target(w, s.kind) = Far
\* There is no direction to where the character is, to nobody, or to who is lost.
Misled(w, s) ==
  /\ s.kind # "Wander" /\ ~Fails(w, s)
  /\ Target(w, s.kind) \in {w.pos, Lost, Far}

After(w, steerings) == DoAction(w, steerings, Speed).pos
Leads(w, s) ==
  LET to == Target(w, s.kind)
      before == Minus(to, w.pos)
      moved == Minus(After(w, <<s>>), w.pos)
  IN  s.kind # "Wander" => moved = IF (before > 0) = (s.way = "Seek") THEN Speed ELSE -Speed

SteersTheWay(w, b) ==
  LET having == SelectSeq(b, LAMBDA s : ~Fails(w, s))
      alone == [i \in DOMAIN having |-> After(w, <<having[i]>>)]
      result == DoAction(w, b, Speed)
  IN  /\ (result.status = "FAILED") <=> (having = <<>>)
      /\ result.status = "FAILED" => result.pos = w.pos
      /\ having # <<>> => result = DoAction(w, having, Speed)
      /\ (result.pos = Lost) <=> (\E i \in DOMAIN having : Misled(w, having[i]))
      /\ result.pos # Lost =>
           /\ \A i \in DOMAIN having : Leads(w, having[i])
           /\ Len(having) = 2 /\ alone[1] # alone[2] =>
                result.pos = IF having[1].weight = having[2].weight THEN w.pos
                             ELSE (alone[2] + w.pos) \div 2
=============================================================================
