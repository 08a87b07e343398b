------------------------------- MODULE Parser -------------------------------
(***************************************************************************)
(* The texts of conditions and nodes (ConditionParser, TreeNodeParser):    *)
(* LUA scripts, XML files and debuggers write them, as                     *)
(* Name{parameters}(parts) with parts of the same form.  A text is a       *)
(* sequence of symbols: words, numbers, parentheses and commas, without    *)
(* spaces.  What is read is a set: of one condition in the form of         *)
(* Selection, or empty if it is refused.                                   *)
(* A number that is none throws, and is not looked at here.                *)
(***************************************************************************)
EXTENDS Integers, Sequences, SequencesExt

\* The positions count from 1, 0 is npos.
Find(s, x) == SelectInSeq(s, LAMBDA y : y = x)
FindLast(s, x) == SelectLastInSeq(s, LAMBDA y : y = x)

\* substr of what is between two positions; the length of a negative one wraps
\* around, and substr takes the rest.
Between(s, i, j) == SubSeq(s, i + 1, IF j < i THEN Len(s) ELSE j - 1)

GetBetween(s, open, close) ==
  IF Find(s, open) = 0 \/ Find(s, close) = 0 THEN <<>> ELSE Between(s, Find(s, open), Find(s, close))

----------------------------------------------------------------------------
(* The parts of a text                                                     *)

HasInner(s) == Find(s, "(") # 0

\* Parameters of this text and not of its parts.
HasParameters(s) == ~HasInner(s) \/ Find(s, "{") \in 1 .. Find(s, "(") - 1
Parameters(s) == IF HasParameters(s) THEN GetBetween(s, "{", "}") ELSE <<>>

Name(s) ==
  LET n == Find(s, IF HasParameters(s) THEN "{" ELSE "(")
  IN  IF n = 0 THEN s ELSE SubSeq(s, 1, n - 1)

\* What is between the first and the last parenthesis; the last must be there.
Inner(s) == {Between(s, Find(s, "("), n) : n \in {FindLast(s, ")")} \ {0}}

\* Splitting at the commas that are in no parentheses.
Pieces(s, cuts) ==
  LET b == <<0>> \o SetToSortSeq(cuts, <) \o <<Len(s) + 1>>
  IN  [i \in 1 .. Len(b) - 1 |-> SubSeq(s, b[i] + 1, b[i + 1] - 1)]

Depth(s, i, x) == Cardinality({j \in 1 .. i : s[j] = x})

\* splitTasks has a flag for each kind of parentheses: the last one counts.
Flat(s, i, open, close) ==
  FindLast(SubSeq(s, 1, i), open) <= FindLast(SubSeq(s, 1, i), close)
SplitTasks(s) == Pieces(s, {i \in DOMAIN s : s[i] = "," /\ Flat(s, i, "{", "}") /\ Flat(s, i, "(", ")")})

\* Fault: conditions are split in the same way.
SplitConditionsFlat(s) == SplitTasks(s)

\* splitConditions counts how deep it is.
SplitConditions(s) ==
  Pieces(s, {i \in DOMAIN s : /\ s[i] = ","
                              /\ Depth(s, i, "{") = Depth(s, i, "}")
                              /\ Depth(s, i, "(") = Depth(s, i, ")")})

----------------------------------------------------------------------------
(* The factories of AIRegistry                                             *)

Number(s) == CHOOSE n \in -9 .. 9 : s = <<ToString(n)>>

FilterNames ==
  {"SelectEmpty", "SelectGroupLeader", "SelectGroupMembers", "SelectHighestAggro", "SelectZone",
   "SelectAll", "Union", "Intersection", "Difference", "Complement", "First", "Last", "Random"}
Selecting == {"SelectEmpty", "SelectGroupLeader", "SelectGroupMembers", "SelectHighestAggro", "SelectZone", "SelectAll"}

CreateFilter(name, parameters, subs) ==
  {[type |-> f, subs |-> IF f \in Selecting THEN <<>> ELSE subs,
    n |-> IF f = "Random" THEN Number(parameters) ELSE 0] : f \in {f \in FilterNames : name = <<f>>}}

CreateCondition(name, parameters, filters, subs) ==
  LET made(type, n, of, with) == [type |-> type, subs |-> of, filters |-> with, n |-> n]
      is(type) == name = <<type>>
      number == IF parameters = <<>> THEN -1 ELSE Number(parameters)
  IN  {made("Filter", 0, <<>>, filters) : x \in {y \in {1} : is("Filter")}}
      \union {made(t, 0, subs, <<>>) : t \in {t \in {"And", "Or"} : is(t) /\ Len(subs) > 1}}
      \union {made("Not", 0, subs, <<>>) : x \in {y \in {1} : is("Not") /\ Len(subs) = 1}}
      \union {made(t, 0, <<>>, <<>>) : t \in {t \in {"True", "False"} : is(t)}}
      \union {made(t, number, <<>>, <<>>) : t \in {t \in {"HasEnemies", "IsInGroup", "IsGroupLeader"} : is(t)}}
      \union {made("IsCloseToGroup", IF Len(parameters) = 3 THEN Number(<<parameters[1]>>) ELSE -1, <<>>, <<>>) :
                x \in {y \in {1} : is("IsCloseToGroup")}}

NodeTypes ==
  {"Fail", "Limit", "Invert", "Succeed", "Parallel", "PrioritySelector", "ProbabilitySelector",
   "RandomSelector", "Sequence", "Idle"}
Steerings ==
  {"Wander", "GroupSeek", "GroupFlee", "TargetSeek", "TargetFlee", "SelectionSeek", "SelectionFlee"}

----------------------------------------------------------------------------
(* Reading                                                                 *)

\* All of them, in their order, or none.
All(reads) == FoldLeft(LAMBDA S, R : {s \o r : s \in S, r \in R}, {<<>>}, reads)

RECURSIVE FillInnerFilters(_), FillInnerConditions(_)

FillInnerFilters(s) ==
  LET pieces == SplitConditions(s)
      subs == IF HasInner(s) THEN UNION {FillInnerFilters(i) : i \in Inner(s)} ELSE {<<>>}
  IN  IF Len(pieces) > 1
      THEN All([i \in DOMAIN pieces |-> FillInnerFilters(pieces[i])])
      ELSE {<<f>> : f \in UNION {CreateFilter(Name(s), Parameters(s), fs) : fs \in subs}}

\* A condition is read as a text of its own or as a part of another one.
ReadCondition(s) ==
  LET parts == IF HasInner(s) THEN Inner(s) ELSE {}
      filters == UNION {FillInnerFilters(i) : i \in parts}
      subs == UNION {FillInnerConditions(i) : i \in parts}
  IN  IF ~HasInner(s) THEN CreateCondition(Name(s), Parameters(s), <<>>, <<>>)
      ELSE IF Name(s) = <<"Filter">>
      THEN UNION {CreateCondition(Name(s), Parameters(s), fs, <<>>) : fs \in filters}
      ELSE UNION {CreateCondition(Name(s), Parameters(s), <<>>, cs) : cs \in subs}

FillInnerConditions(s) ==
  LET pieces == SplitConditions(s)
  IN  IF Len(pieces) > 1
      THEN All([i \in DOMAIN pieces |-> FillInnerConditions(pieces[i])])
      ELSE {<<c>> : c \in ReadCondition(s)}

GetCondition(s) == IF Name(s) = <<"Filter">> /\ ~HasInner(s) THEN {} ELSE ReadCondition(s)

GetSteering(s) ==
  LET n == IF Find(s, "{") # 0 THEN Find(s, "{") ELSE Find(s, "(")
      name == IF n = 0 THEN s ELSE SubSeq(s, 1, n - 1)
  IN  {<<[type |-> t, parameters |-> GetBetween(s, "{", "}")]>> : t \in {t \in Steerings : name = <<t>>}}

\* A node of the tree; its children come from elsewhere.
GetTreeNode(s) ==
  LET parts == GetBetween(s, "(", ")")
      tasks == SplitTasks(parts)
      ways == IF parts = <<>> THEN {<<>>} ELSE All([i \in DOMAIN tasks |-> GetSteering(tasks[i])])
  IN  {[type |-> t, parameters |-> Parameters(s), steerings |-> w] :
         t \in {t \in IF parts = <<>> THEN NodeTypes ELSE {"Steer"} : Name(s) = <<t>>}, w \in ways}

----------------------------------------------------------------------------
(* Writing                                                                 *)

Braced(s) == <<"{">> \o s \o <<"}">>
Parens(s) == <<"(">> \o s \o <<")">>
Joined(texts) == FoldLeft(LAMBDA s, t : IF s = <<>> THEN t ELSE s \o <<",">> \o t, <<>>, texts)
Numbered == {"HasEnemies", "IsInGroup", "IsGroupLeader", "IsCloseToGroup", "Random"}
Given(c) ==
  CASE c.type = "IsCloseToGroup" -> <<ToString(c.n), ",", "5">>
    [] c.type \in {"HasEnemies", "IsInGroup", "IsGroupLeader"} /\ c.n # -1 -> <<ToString(c.n)>>
    [] c.type = "Random" -> <<ToString(c.n)>>
    [] OTHER -> <<>>

\* As a script writes it, also with parameters nobody asks for.
RECURSIVE Text(_, _)
Text(c, more) ==
  LET parts == c.subs \o IF c.type = "Filter" THEN c.filters ELSE <<>>
  IN  <<c.type>>
      \o (IF Given(c) # <<>> THEN Braced(Given(c)) ELSE IF c.type \in Numbered THEN <<>> ELSE more)
      \o (IF parts # <<>> THEN Parens(Joined([i \in DOMAIN parts |-> Text(parts[i], more)])) ELSE <<>>)

\* getNameWithConditions, when every filter has found the same and every condition
\* holds, or none.
RECURSIVE Shown(_, _, _)
Shown(c, found, holds) ==
  LET filter(f) == <<f.type>> \o Braced(Given(f)) \o <<"[">> \o found \o <<"]">>
      parts == IF c.type = "Filter" THEN [i \in DOMAIN c.filters |-> filter(c.filters[i])]
                                    ELSE [i \in DOMAIN c.subs |-> Shown(c.subs[i], found, holds)]
  IN  <<c.type>>
      \o (IF c.type \in {"Filter", "And", "Or", "Not"} THEN Parens(Joined(parts)) ELSE Braced(Given(c)))
      \o <<"[", holds, "]">>
=============================================================================
