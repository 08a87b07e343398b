---------------------------- MODULE MCSelection ----------------------------
(* Selection for TLC: a tree whose conditions have every type of filter,    *)
(* alone, one after the other and below each other.                         *)
EXTENDS Selection, Parser, Steering

Leaf(type) == [type |-> type, subs |-> <<>>, n |-> 0]
Over(type, subs) == [type |-> type, subs |-> subs, n |-> 0]

Zone == Leaf("SelectZone")
Group == Leaf("SelectGroupMembers")
Leader == Leaf("SelectGroupLeader")
Enemy == Leaf("SelectHighestAggro")
Foes == Over("Union", <<Group, Enemy>>)
Strangers == Over("Difference", <<Zone, Group, Enemy>>)
Friends == Over("Intersection", <<Zone, Group, Foes>>)
Others == Over("Complement", <<Foes, Leader>>)
FirstFriend == Over("First", <<Group>>)
LastOther == Over("Last", <<Others>>)
Anybody == [type |-> "Random", subs |-> <<Zone>>, n |-> 1]
TheFilters == {Zone, Group, Leader, Enemy, Foes, Strangers, Friends, Others, FirstFriend, LastOther,
               Anybody, Leaf("SelectAll"), Leaf("SelectEmpty")}

Simple(type, n) == [type |-> type, subs |-> <<>>, filters |-> <<>>, n |-> n]
Choose(filters) == [type |-> "Filter", subs |-> <<>>, filters |-> filters, n |-> 0]
Of(type, subs) == [type |-> type, subs |-> subs, filters |-> <<>>, n |-> 0]

AnyEnemy == Simple("HasEnemies", -1)
TwoEnemies == Simple("HasEnemies", 2)
InGroup == Simple("IsInGroup", 1)
IsLeader == Simple("IsGroupLeader", 1)
Close == Simple("IsCloseToGroup", 1)
Attack == Choose(<<Leaf("SelectAll"), Enemy>>)
Follow == Choose(<<Leader, LastOther>>)
Greet == Choose(<<Strangers, FirstFriend>>)
Flee == Choose(<<Anybody, Leaf("SelectEmpty"), Friends>>)
TheConditions ==
  LET parts == {AnyEnemy, TwoEnemies, InGroup, IsLeader, Close, Attack, Follow, Greet, Flee,
                Simple("True", 0), Simple("False", 0), Of("Not", <<Greet>>)}
  IN  parts \union {Of("And", <<AnyEnemy, Follow, InGroup>>), Of("And", <<Attack, Of("Not", <<Greet>>)>>),
                    Of("Or", <<IsLeader, Close>>), Of("Or", <<Attack, Flee>>)}

Removed(s, i) == SubSeq(s, 1, i - 1) \o SubSeq(s, i + 1, Len(s))
Parentheses(s) == {i \in DOMAIN s : s[i] \in {"(", ")"}}

HasFilters[c \in Conditions] == c.type = "Filter" \/ \E i \in DOMAIN c.subs : HasFilters[c.subs[i]]
HasDeepFilters[c \in Conditions] ==
  \/ \E i \in DOMAIN c.filters : c.filters[i].subs # <<>>
  \/ \E i \in DOMAIN c.subs : HasDeepFilters[c.subs[i]]

ReadsTexts(c) ==
  /\ \A more \in {<<>>, Braced(<<"3">>)} : GetCondition(Text(c, more)) = {c}
  /\ \A i \in Parentheses(Text(c, <<>>)) : GetCondition(Removed(Text(c, <<>>), i)) = {}

ReadsShown(c) ==
  \A holds \in {"0", "1"} :
    /\ \A found \in {<<>>, <<"1">>} : GetCondition(Shown(c, found, holds)) = {c}
    /\ GetCondition(Shown(c, <<"1", ",", "2">>, holds)) = IF HasFilters[c] THEN {} ELSE {c}

Weights == <<"0.6", ",", "0.4">>
Steers ==
  LET some == [type : {"Wander", "GroupFlee", "TargetSeek"}, parameters : {<<>>, <<"2">>}]
  IN  {<<w>> : w \in some} \union {<<v, w>> : v, w \in some}
ReadsNodes ==
  /\ \A t \in NodeTypes, p \in {<<>>, <<"1", ",", "1000">>} :
       GetTreeNode(<<t>> \o IF p = <<>> THEN p ELSE Braced(p)) = {[type |-> t, parameters |-> p, steerings |-> <<>>]}
  /\ \A ways \in Steers :
       LET text(w) == <<w.type>> \o IF w.parameters = <<>> THEN <<>> ELSE Braced(w.parameters)
           of == Parens(Joined([i \in DOMAIN ways |-> text(ways[i])]))
       IN  /\ GetTreeNode(<<"Steer">> \o Braced(Weights) \o of) =
                 {[type |-> "Steer", parameters |-> Weights, steerings |-> ways]}
           /\ GetTreeNode(<<"Idle">> \o of) = {}

\* A text is read as the condition or the node it was written for, however deep its
\* parts are, with and without parameters nobody asks for (ParserTest.cpp:30, 42), and
\* refused when a parenthesis is missing (ParserTest.cpp:48).  What the debugger
\* shows of a condition comes back when something else of the node is edited
\* (BehaviourTreeModel.cpp:33): it is read as the same condition, or refused when a
\* filter has found several, as long as no filter has filters below it.
TextsAreRead ==
  Init => /\ \A c \in Conditions : ReadsTexts(c) /\ (HasDeepFilters[c] \/ ReadsShown(c))
          /\ ReadsNodes

\* A steering moves an AI in the direction of what it seeks, or away from what it
\* flees, by its whole speed, so that it may pass a target that is nearer than a step;
\* a steering without a target has no say in the result (Steering.h:43), the others
\* have it by their weights, and if there are no others the task fails and nobody
\* moves.  The position of the AI gets lost only
\* when it seeks or flees the place where it is, nobody, or somebody who is lost.
SteersRight == Init => \A w \in Worlds, b \in Blends : SteersTheWay(w, b)
============================================================================
