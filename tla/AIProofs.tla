------------------------------ MODULE AIProofs ------------------------------
(***************************************************************************)
(* What the behaviour tree of an AI guarantees for any tree, and its list  *)
(* of enemies for any characters.                                          *)
(***************************************************************************)
EXTENDS BehaviourTree, Selection, FiniteSetTheorems, WellFoundedInduction, TLAPS

Returned(a) == Children[at[a]][child[a][at[a]]]
Points(a, p, n) == child[a][p] # 0 /\ Children[p][child[a][p]] = n

\* The nodes that execute a child are those on the way from the root to the node
\* the AI is at, and each executes the next one on that way.
StackOK(a) ==
  /\ phase[a] = "idle" => at[a] = NoNode /\ \A n \in Nodes : child[a][n] = 0
  /\ phase[a] # "idle" => at[a] \in Nodes
  /\ phase[a] # "idle" => \A n \in Nodes : child[a][n] # 0 => at[a] \in Below[n]
  /\ phase[a] # "idle" =>
       \A n \in Nodes \ {Root} : n = at[a] \/ child[a][n] # 0 => Points(a, Parent(n), n)
  /\ phase[a] = "call" => child[a][at[a]] = 0
  /\ phase[a] = "return" => child[a][at[a]] # 0 /\ child[a][Returned(a)] = 0

\* How far a node has come.
PlaceAt(a, n) ==
  /\ Type[n] = "Sequence" =>
       /\ child[a][n] # 0 => done[a][n] = child[a][n] - 1
       /\ child[a][n] = 0 /\ selector[a][n] # 0 => done[a][n] = selector[a][n] - 1
  /\ Type[n] = "RandomSelector" => left[a][n] \subseteq (1 .. Size(n)) \ {child[a][n]}
  /\ Type[n] = "Limit" /\ child[a][n] # 0 => limits[a][n] < Amount[n]

\* What is remembered is what is to be remembered.
RememberAt(a, n) == Type[n] \in {"Sequence", "PrioritySelector"} => resume[a][n] = Begun(a, n)

\* A leaf that runs is known to the node the AI is at, or to a Parallel above.
RunOK(a) ==
  /\ \A n \in Nodes : total[a][n] = "RUNNING" => Type[n] = "Parallel" /\ child[a][n] # 0
  /\ phase[a] = "return" /\ Type[Returned(a)] = "RandomSelector" => status[a] # "RUNNING"
  /\ phase[a] = "idle" => (busy[a] <=> status[a] = "RUNNING")
  /\ phase[a] # "idle" =>
       (busy[a] <=> \/ phase[a] = "return" /\ status[a] = "RUNNING" /\ at[a] \notin BelowRandom
                    \/ \E n \in Nodes \ BelowRandom : total[a][n] = "RUNNING")

\* The node p executes children, its child m is behind it.
Passed(a, p, m) ==
  /\ m \in Kids(p) /\ child[a][p] # 0
  /\ \/ at[a] = p /\ phase[a] = "return" /\ Returned(a) = m
     \/ Type[p] \in {"Parallel", "Sequence"} /\ \A i \in child[a][p] .. Size(p) : Children[p][i] # m
     \/ Type[p] = "RandomSelector" /\ \A i \in left[a][p] \union {child[a][p]} : Children[p][i] # m

PriorityParts == BelowAll(OfType({"PrioritySelector"}))

\* Below a priority selector no sequence that remembers a child is called again
\* before the selector has reset it.
PassedBy(a, n) == \E p \in PriorityParts, m \in Nodes : n \in Below[m] /\ Passed(a, p, m)
PassedOK(a) ==
  \A n \in OfType({"Sequence"}) \intersect BelowPriority :
    child[a][n] = 0 /\ selector[a][n] # 0 => PassedBy(a, n)

StackTypes ==
  /\ at \in [AIs -> Nodes \union {NoNode}]
  /\ phase \in [AIs -> {"idle", "call", "return"}]
  /\ status \in [AIs -> Statuses]
  /\ delta \in [AIs -> Deltas \union {0}]
  /\ child \in [AIs -> [Nodes -> Nat]]
  /\ \A a \in AIs, n \in Nodes : child[a][n] <= Size(n)

StateTypes ==
  /\ selector \in [AIs -> [Nodes -> Nat]]
  /\ \A a \in AIs, n \in Nodes : selector[a][n] <= Size(n)
  /\ total \in [AIs -> [Nodes -> Statuses]]
  /\ left \in [AIs -> [Nodes -> SUBSET Nat]]
  /\ limits \in [AIs -> [Nodes -> Nat]]
  /\ \A a \in AIs, n \in OfType({"Limit"}) : limits[a][n] <= Amount[n]
  /\ reset \in [AIs -> BOOLEAN]
  /\ timer \in [Nodes -> Nat \union {NotStarted}]

HistoryTypes ==
  /\ resume \in [AIs -> [Nodes -> Nat]]
  /\ done \in [AIs -> [Nodes -> Nat]]
  /\ waited \in [AIs -> [Nodes -> Nat \union {NotStarted}]]
  /\ busy \in [AIs -> BOOLEAN]

AllOK(a) ==
  /\ StackOK(a) /\ RunOK(a) /\ PassedOK(a)
  /\ \A n \in Nodes : PlaceAt(a, n) /\ RememberAt(a, n)

TreeInv == StackTypes /\ StateTypes /\ HistoryTypes /\ \A a \in AIs : AllOK(a)

----------------------------------------------------------------------------
(* The tree                                                                *)

LEMMA KidsAre ==
  ASSUME NEW n \in Nodes
  PROVE  /\ Size(n) \in Nat
         /\ \A i \in 1 .. Size(n) : Children[n][i] \in Kids(n)
         /\ \A k \in Kids(n) : \E i \in 1 .. Size(n) : Children[n][i] = k
         /\ \A k \in Kids(n) : k \in Nodes /\ k # Root
         /\ \A i, j \in 1 .. Size(n) : Children[n][i] = Children[n][j] => i = j
         /\ n \notin Kids(n)
<1>1. Children[n] \in Seq(Nodes)
  BY TreeAssumption
<1>2. \A p \in Nodes : Root \notin Kids(p)
  BY TreeAssumption
<1>3. \A i, j \in 1 .. Size(n) : Children[n][i] = Children[n][j] => i = j
  BY TreeAssumption
<1>4. n \notin Kids(n)
  <2>1. \A S \in SUBSET Nodes : S # {} => \E m \in S : Kids(m) \intersect S = {}
    BY TreeAssumption
  <2>2. {n} \in SUBSET Nodes /\ {n} # {}
    OBVIOUS
  <2>3. PICK m \in {n} : Kids(m) \intersect {n} = {}
    BY <2>1, <2>2
  <2> QED
    BY <2>3
<1> QED
  BY <1>1, <1>2, <1>3, <1>4 DEF Kids, Size, ToSet

LEMMA ParentIs ==
  ASSUME NEW n \in Nodes, n # Root
  PROVE  /\ Parent(n) \in Nodes
         /\ n \in Kids(Parent(n))
         /\ \A p \in Nodes : n \in Kids(p) => p = Parent(n)
<1>1. \E p \in Nodes : n \in Kids(p)
  BY TreeAssumption
<1>2. \A p, q \in Nodes : p = q \/ Kids(p) \intersect Kids(q) = {}
  BY TreeAssumption
<1>3. Parent(n) \in Nodes /\ n \in Kids(Parent(n))
  BY <1>1 DEF Parent
<1> QED
  BY <1>2, <1>3

\* What is closed under children, and the least such set that has n.
Closed(S) == \A k \in S : Kids(k) \subseteq S
LeastClosed(n) == {m \in Nodes : \A S \in SUBSET Nodes : n \in S /\ Closed(S) => m \in S}

LEMMA LeastClosedEquation ==
  ASSUME NEW n \in Nodes
  PROVE  LeastClosed(n) = {n} \union UNION {LeastClosed(m) : m \in Kids(n)}
<1> DEFINE R == {n} \union UNION {LeastClosed(m) : m \in Kids(n)}
<1>1. Kids(n) \subseteq Nodes
  BY KidsAre
<1>2. R \subseteq Nodes
  BY <1>1 DEF LeastClosed
<1>3. \A m \in Nodes : m \in LeastClosed(m) /\ LeastClosed(m) \subseteq Nodes
  BY DEF LeastClosed
<1>4. \A m \in Nodes : \A k \in LeastClosed(m) : Kids(k) \subseteq LeastClosed(m)
  <2> SUFFICES ASSUME NEW m \in Nodes, NEW k \in LeastClosed(m), NEW j \in Kids(k)
               PROVE  j \in LeastClosed(m)
    OBVIOUS
  <2>1. k \in Nodes /\ j \in Nodes
    BY KidsAre DEF LeastClosed
  <2> QED
    BY <2>1 DEF LeastClosed, Closed
<1>5. Closed(R)
  <2> SUFFICES ASSUME NEW k \in R, NEW j \in Kids(k) PROVE j \in R
    BY DEF Closed
  <2>1. CASE k = n
    BY <2>1, <1>1, <1>3
  <2>2. CASE \E m \in Kids(n) : k \in LeastClosed(m)
    BY <2>2, <1>1, <1>4
  <2> QED
    BY <2>1, <2>2
<1>6. LeastClosed(n) \subseteq R
  BY <1>2, <1>5 DEF LeastClosed
<1>7. \A m \in Kids(n) : LeastClosed(m) \subseteq LeastClosed(n)
  <2> SUFFICES ASSUME NEW m \in Kids(n), NEW k \in LeastClosed(m) PROVE k \in LeastClosed(n)
    OBVIOUS
  <2>1. m \in Nodes /\ k \in Nodes
    BY <1>1, <1>3
  <2>2. ASSUME NEW S \in SUBSET Nodes, n \in S, Closed(S) PROVE k \in S
    <3>1. m \in S
      BY <2>2 DEF Closed
    <3> QED
      BY <2>2, <3>1 DEF LeastClosed
  <2> QED
    BY <2>1, <2>2 DEF LeastClosed
<1> QED
  BY <1>3, <1>6, <1>7

LEMMA BelowEquation ==
  ASSUME NEW n \in Nodes
  PROVE  Below[n] = {n} \union UNION {Below[m] : m \in Kids(n)}
<1> DEFINE F(f) == [k \in Nodes |-> {k} \union UNION {f[m] : m \in Kids(k)}]
           g == [k \in Nodes |-> LeastClosed(k)]
<1>1. g = F(g)
  <2>1. ASSUME NEW k \in Nodes PROVE LeastClosed(k) = {k} \union UNION {g[m] : m \in Kids(k)}
    <3>1. Kids(k) \subseteq Nodes
      BY KidsAre
    <3>2. \A m \in Kids(k) : g[m] = LeastClosed(m)
      BY <3>1
    <3>3. {g[m] : m \in Kids(k)} = {LeastClosed(m) : m \in Kids(k)}
      BY <3>2, Zenon
    <3> QED
      BY <3>3, LeastClosedEquation
  <2> QED
    BY <2>1, Zenon
<1>2. Below = CHOOSE f : f = F(f)
  BY Zenon DEF Below
<1>3. Below = F(Below)
  <2> HIDE DEF F, g
  <2>1. \E f : f = F(f)
    BY <1>1
  <2>2. (CHOOSE f : f = F(f)) = F(CHOOSE f : f = F(f))
    BY <2>1, Zenon
  <2> QED
    BY <2>2, <1>2, Zenon
<1> QED
  BY <1>3, Zenon

\* The nodes below n are the least set that has n and with a node its children.
LEMMA BelowIs ==
  ASSUME NEW n \in Nodes
  PROVE  Below[n] = LeastClosed(n)
<1> DEFINE Bad == {k \in Nodes : Below[k] # LeastClosed(k)}
<1>1. SUFFICES ASSUME Bad # {} PROVE FALSE
  OBVIOUS
<1>2. \A S \in SUBSET Nodes : S # {} => \E k \in S : Kids(k) \intersect S = {}
  BY TreeAssumption
<1>3. PICK k \in Bad : Kids(k) \intersect Bad = {}
  BY <1>1, <1>2
<1>4. \A m \in Kids(k) : Below[m] = LeastClosed(m)
  BY <1>3, KidsAre
<1>5. {Below[m] : m \in Kids(k)} = {LeastClosed(m) : m \in Kids(k)}
  BY <1>4, Zenon
<1>6. Below[k] = LeastClosed(k)
  BY <1>5, BelowEquation, LeastClosedEquation, k \in Nodes, Zenon
<1> QED
  BY <1>6

LEMMA BelowFacts ==
  ASSUME NEW n \in Nodes
  PROVE  /\ n \in Below[n]
         /\ Below[n] \subseteq Nodes
         /\ \A m \in Below[n] : Kids(m) \subseteq Below[n]
         /\ \A m \in Below[n] : Below[m] \subseteq Below[n]
         /\ \A S \in SUBSET Nodes : n \in S /\ Closed(S) => Below[n] \subseteq S
<1>1. Below[n] = LeastClosed(n)
  BY BelowIs
<1>2. n \in LeastClosed(n) /\ LeastClosed(n) \subseteq Nodes
  BY DEF LeastClosed
<1>3. \A m \in LeastClosed(n) : Kids(m) \subseteq LeastClosed(n)
  <2> SUFFICES ASSUME NEW m \in LeastClosed(n), NEW j \in Kids(m) PROVE j \in LeastClosed(n)
    OBVIOUS
  <2>1. m \in Nodes /\ j \in Nodes
    BY KidsAre DEF LeastClosed
  <2> QED
    BY <2>1 DEF LeastClosed, Closed
<1>4. \A S \in SUBSET Nodes : n \in S /\ Closed(S) => LeastClosed(n) \subseteq S
  BY DEF LeastClosed
<1>5. ASSUME NEW m \in Below[n] PROVE Below[m] \subseteq Below[n]
  <2>1. m \in Nodes /\ Below[m] = LeastClosed(m)
    BY <1>1, <1>2, BelowIs
  <2>2. Closed(LeastClosed(n))
    BY <1>3 DEF Closed
  <2> QED
    BY <1>1, <1>2, <2>1, <2>2 DEF LeastClosed
<1> QED
  BY <1>1, <1>2, <1>3, <1>4, <1>5

\* The parent of a node below n is below n, too, up to n itself.
LEMMA BelowUp ==
  ASSUME NEW n \in Nodes, NEW m \in Below[n], m # n
  PROVE  m \in Nodes /\ m # Root /\ Parent(m) \in Below[n]
<1> DEFINE S == {n} \union {k \in Below[n] : k # Root /\ Parent(k) \in Below[n]}
<1>1. S \in SUBSET Nodes /\ n \in S /\ S \subseteq Below[n]
  BY BelowFacts
<1>2. Closed(S)
  <2> SUFFICES ASSUME NEW k \in S, NEW j \in Kids(k) PROVE j \in S
    BY DEF Closed
  <2>1. k \in Nodes /\ k \in Below[n]
    BY <1>1
  <2>2. j \in Below[n]
    BY <2>1, BelowFacts
  <2>3. j \in Nodes /\ j # Root
    BY <2>1, KidsAre
  <2>4. Parent(j) = k
    BY <2>1, <2>3, ParentIs
  <2> QED
    BY <2>1, <2>2, <2>3, <2>4
<1>3. m \in S
  BY <1>1, <1>2, BelowFacts
<1> QED
  BY <1>1, <1>3

\* The same for what is below some nodes of one class.
LEMMA PartsFacts ==
  ASSUME NEW T
  PROVE  /\ OfType(T) \subseteq BelowAll(OfType(T))
         /\ BelowAll(OfType(T)) \subseteq Nodes
         /\ \A p \in BelowAll(OfType(T)) : Kids(p) \subseteq BelowAll(OfType(T))
         /\ \A n \in BelowAll(OfType(T)) :
              Type[n] \notin T => n # Root /\ Parent(n) \in BelowAll(OfType(T))
<1> DEFINE B == BelowAll(OfType(T))
<1>1. \A n \in B : \E t \in OfType(T) : n \in Below[t]
  BY DEF BelowAll
<1>2. \A t \in OfType(T) : t \in Nodes /\ Type[t] \in T /\ Below[t] \subseteq B
  BY DEF BelowAll, OfType
<1>3. OfType(T) \subseteq B
  BY <1>2, BelowFacts
<1>4. B \subseteq Nodes
  BY <1>1, <1>2, BelowFacts
<1>5. ASSUME NEW p \in B PROVE Kids(p) \subseteq B
  <2>1. PICK t \in OfType(T) : p \in Below[t]
    BY <1>1
  <2>2. Kids(p) \subseteq Below[t]
    BY <2>1, <1>2, BelowFacts
  <2> QED
    BY <1>2, <2>2
<1>6. ASSUME NEW n \in B, Type[n] \notin T PROVE n # Root /\ Parent(n) \in B
  <2>1. PICK t \in OfType(T) : n \in Below[t]
    BY <1>1
  <2>2. n # Root /\ Parent(n) \in Below[t]
    BY <1>2, <1>6, <2>1, BelowUp
  <2> QED
    BY <1>2, <2>2
<1> QED
  BY <1>3, <1>4, <1>5, <1>6

----------------------------------------------------------------------------
(* Calling and returning                                                   *)

SameStack(b) ==
  at'[b] = at[b] /\ phase'[b] = phase[b] /\ status'[b] = status[b] /\ child'[b] = child[b]

\* What a call changes, and that the way to the node stays one.
LEMMA CallStep ==
  ASSUME StackTypes, NEW a \in AIs, StackOK(a), phase[a] # "idle",
         NEW i \in 1 .. Size(at[a]), Call(a, i)
  PROVE  /\ StackTypes'
         /\ StackOK(a)'
         /\ at[a] \in Nodes
         /\ at'[a] = Children[at[a]][i] /\ at'[a] \in Kids(at[a]) /\ at'[a] # at[a]
         /\ phase'[a] = "call" /\ status'[a] = status[a]
         /\ child'[a][at[a]] = i
         /\ \A n \in Nodes \ {at[a]} : child'[a][n] = child[a][n]
         /\ \A b \in AIs \ {a} : SameStack(b)
<1> DEFINE x == at[a]
           k == Children[at[a]][i]
<1>1. x \in Nodes
  BY DEF StackOK
<1>2. k \in Kids(x) /\ k \in Nodes /\ k # Root /\ Size(x) \in Nat
  BY <1>1, KidsAre
<1>3. i \in Nat /\ i # 0 /\ i <= Size(x)
  BY <1>2
<1>4. /\ at' = [at EXCEPT ![a] = k] /\ phase' = [phase EXCEPT ![a] = "call"]
      /\ child' = [child EXCEPT ![a][at[a]] = i] /\ status' = status /\ delta' = delta
  BY DEF Call
<1>5. at'[a] = k /\ phase'[a] = "call" /\ status'[a] = status[a]
  BY <1>4 DEF StackTypes
<1>6. child'[a][x] = i /\ \A n \in Nodes \ {x} : child'[a][n] = child[a][n]
  BY <1>1, <1>4 DEF StackTypes
<1>7. \A b \in AIs \ {a} : SameStack(b)
  BY <1>4 DEF StackTypes, SameStack
<1>8. StackTypes'
  <2>1. /\ at' \in [AIs -> Nodes \union {NoNode}] /\ phase' \in [AIs -> {"idle", "call", "return"}]
        /\ status' \in [AIs -> Statuses] /\ delta' \in [AIs -> Deltas \union {0}]
    BY <1>2, <1>4 DEF StackTypes
  <2>2. child' \in [AIs -> [Nodes -> Nat]]
    BY <1>1, <1>3, <1>4 DEF StackTypes
  <2>3. \A b \in AIs, n \in Nodes : child'[b][n] <= Size(n)
    BY <1>3, <1>6, <1>7 DEF StackTypes, SameStack
  <2> QED
    BY <2>1, <2>2, <2>3 DEF StackTypes
<1>9. \A n \in Nodes : child[a][n] \in Nat
  BY DEF StackTypes
<1>10. Parent(k) = x
  BY <1>1, <1>2, ParentIs
<1>11. k # x
  BY <1>1, <1>2, KidsAre
<1>12. child[a][k] = 0
  <2>1. ASSUME child[a][k] # 0 PROVE FALSE
    <3>1. Points(a, x, k)
      BY <1>2, <1>10, <2>1 DEF StackOK
    <3>2. phase[a] = "return"
      BY <3>1 DEF StackOK, Points, StackTypes
    <3>3. child[a][Returned(a)] = 0 /\ Returned(a) = k
      BY <3>1, <3>2 DEF StackOK, Points, Returned
    <3> QED
      BY <2>1, <3>3
  <2> QED
    BY <2>1
<1>13. StackOK(a)'
  <2>1. ASSUME NEW n \in Nodes, child'[a][n] # 0 PROVE k \in Below[n]
    <3>1. x \in Below[n]
      <4>1. CASE n = x
        BY <4>1, <1>1, BelowFacts
      <4>2. CASE n # x
        BY <4>2, <1>6, <2>1 DEF StackOK
      <4> QED
        BY <4>1, <4>2
    <3> QED
      BY <3>1, <1>2, BelowFacts
  <2>2. ASSUME NEW n \in Nodes \ {Root}, n = k \/ child'[a][n] # 0
        PROVE  child'[a][Parent(n)] # 0 /\ Children[Parent(n)][child'[a][Parent(n)]] = n
    <3>1. CASE n = k
      BY <3>1, <1>3, <1>6, <1>10
    <3>2. CASE n # k
      <4>1. n = x \/ child[a][n] # 0
        BY <1>6, <2>2, <3>2
      <4>2. Points(a, Parent(n), n)
        BY <4>1 DEF StackOK
      <4>3. Parent(n) \in Nodes
        BY ParentIs
      <4>4. Parent(n) # x
        <5>1. ASSUME Parent(n) = x PROVE FALSE
          <6>1. child[a][x] # 0 /\ Children[x][child[a][x]] = n
            BY <4>2, <5>1 DEF Points
          <6>2. phase[a] = "return"
            BY <6>1 DEF StackOK, StackTypes
          <6>3. child[a][n] = 0
            BY <6>1, <6>2 DEF StackOK, Returned
          <6>4. n = x
            BY <4>1, <6>3
          <6> QED
            BY <6>1, <6>3, <6>4
        <5> QED
          BY <5>1
      <4> QED
        BY <1>6, <4>2, <4>3, <4>4 DEF Points
    <3> QED
      BY <3>1, <3>2
  <2>3. child'[a][k] = 0
    BY <1>2, <1>6, <1>11, <1>12
  <2> QED
    BY <1>2, <1>5, <2>1, <2>2, <2>3 DEF StackOK, Points
<1> QED
  BY <1>1, <1>2, <1>5, <1>6, <1>7, <1>8, <1>11, <1>13

\* What a return changes, and that the way to the node stays one.
LEMMA ReturnStep ==
  ASSUME StackTypes, NEW a \in AIs, StackOK(a), phase[a] # "idle",
         NEW s \in Statuses, Return(a, s)
  PROVE  /\ StackTypes'
         /\ StackOK(a)'
         /\ at[a] \in Nodes
         /\ status'[a] = s
         /\ child'[a][at[a]] = 0
         /\ \A n \in Nodes \ {at[a]} : child'[a][n] = child[a][n]
         /\ at[a] = Root => phase'[a] = "idle" /\ \A n \in Nodes : child'[a][n] = 0
         /\ at[a] # Root =>
              /\ phase'[a] = "return" /\ at'[a] = Parent(at[a]) /\ at'[a] \in Nodes /\ at'[a] # at[a]
              /\ at[a] \in Kids(at'[a]) /\ child'[a][at'[a]] # 0
              /\ Children[at'[a]][child'[a][at'[a]]] = at[a]
         /\ \A b \in AIs \ {a} : SameStack(b)
<1> DEFINE x == at[a]
<1>1. x \in Nodes
  BY DEF StackOK
<1>2. x # Root => Parent(x) \in Nodes /\ x \in Kids(Parent(x))
  BY <1>1, ParentIs
<1>3. /\ at' = [at EXCEPT ![a] = IF at[a] = Root THEN NoNode ELSE Parent(at[a])]
      /\ phase' = [phase EXCEPT ![a] = IF at[a] = Root THEN "idle" ELSE "return"]
      /\ status' = [status EXCEPT ![a] = s]
      /\ child' = [child EXCEPT ![a][at[a]] = 0]
      /\ delta' = IF at[a] = Root THEN [delta EXCEPT ![a] = 0] ELSE delta
  BY DEF Return, StackTypes
<1>4. /\ at'[a] = IF x = Root THEN NoNode ELSE Parent(x)
      /\ phase'[a] = IF x = Root THEN "idle" ELSE "return"
      /\ status'[a] = s
  BY <1>3 DEF StackTypes
<1>5. child'[a][x] = 0 /\ \A n \in Nodes \ {x} : child'[a][n] = child[a][n]
  BY <1>1, <1>3 DEF StackTypes
<1>6. \A b \in AIs \ {a} : SameStack(b)
  BY <1>3 DEF StackTypes, SameStack
<1>7. StackTypes'
  <2>1. /\ at' \in [AIs -> Nodes \union {NoNode}] /\ phase' \in [AIs -> {"idle", "call", "return"}]
        /\ status' \in [AIs -> Statuses]
    BY <1>2, <1>3 DEF StackTypes
  <2>2. delta' \in [AIs -> Deltas \union {0}]
    BY <1>3 DEF StackTypes
  <2>3. child' \in [AIs -> [Nodes -> Nat]]
    BY <1>1, <1>3 DEF StackTypes
  <2>4. Size(x) \in Nat
    BY <1>1, KidsAre
  <2>5. \A b \in AIs, n \in Nodes : child'[b][n] <= Size(n)
    BY <1>5, <1>6, <2>4 DEF StackTypes, SameStack
  <2> QED
    BY <2>1, <2>2, <2>3, <2>5 DEF StackTypes
<1>8. x = Root => \A n \in Nodes : child'[a][n] = 0
  <2> SUFFICES ASSUME x = Root, NEW n \in Nodes, child'[a][n] # 0 PROVE FALSE
    OBVIOUS
  <2>1. n # x /\ child[a][n] # 0
    BY <1>5
  <2>2. x \in Below[n]
    BY <2>1 DEF StackOK
  <2> QED
    BY <2>1, <2>2, BelowUp
<1>9. x # Root => child[a][Parent(x)] # 0 /\ Children[Parent(x)][child[a][Parent(x)]] = x
  BY <1>1 DEF StackOK, Points
<1>10. x # Root => Parent(x) # x
  BY <1>1, <1>2, KidsAre
<1>11. StackOK(a)'
  <2>1. CASE x = Root
    BY <1>4, <1>8, <2>1 DEF StackOK
  <2>2. CASE x # Root
    <3>1. ASSUME NEW n \in Nodes, child'[a][n] # 0 PROVE Parent(x) \in Below[n]
      <4>1. n # x /\ child[a][n] # 0
        BY <1>5, <3>1
      <4>2. x \in Below[n]
        BY <4>1 DEF StackOK
      <4> QED
        BY <4>1, <4>2, BelowUp
    <3>2. ASSUME NEW n \in Nodes \ {Root}, n = Parent(x) \/ child'[a][n] # 0
          PROVE  child'[a][Parent(n)] # 0 /\ Children[Parent(n)][child'[a][Parent(n)]] = n
      <4>1. child[a][n] # 0 /\ n # x
        BY <1>5, <1>9, <1>10, <2>2, <3>2
      <4>2. Points(a, Parent(n), n)
        BY <4>1 DEF StackOK
      <4>3. Parent(n) \in Nodes /\ n \in Kids(Parent(n))
        BY ParentIs
      <4>4. Parent(n) # x
        <5>1. ASSUME Parent(n) = x PROVE FALSE
          <6>1. child[a][x] # 0 /\ Children[x][child[a][x]] = n
            BY <4>2, <5>1 DEF Points
          <6>2. phase[a] = "return"
            BY <6>1 DEF StackOK, StackTypes
          <6>3. child[a][n] = 0
            BY <6>1, <6>2 DEF StackOK, Returned
          <6> QED
            BY <4>1, <6>3
        <5> QED
          BY <5>1
      <4> QED
        BY <1>5, <4>2, <4>3, <4>4 DEF Points
    <3>3. child'[a][Parent(x)] = child[a][Parent(x)]
      BY <1>2, <1>5, <1>10, <2>2
    <3> QED
      BY <1>2, <1>4, <1>5, <1>9, <2>2, <3>1, <3>2, <3>3 DEF StackOK, Points, Returned
  <2> QED
    BY <2>1, <2>2
<1>12. x # Root => child'[a][Parent(x)] = child[a][Parent(x)]
  BY <1>2, <1>5, <1>10
<1> QED
  BY <1>1, <1>2, <1>4, <1>5, <1>6, <1>7, <1>8, <1>9, <1>10, <1>11, <1>12

----------------------------------------------------------------------------
(* What the steps have in common                                           *)

SameData(b) ==
  /\ total'[b] = total[b] /\ left'[b] = left[b] /\ selector'[b] = selector[b]
  /\ limits'[b] = limits[b] /\ resume'[b] = resume[b] /\ done'[b] = done[b] /\ busy'[b] = busy[b]

\* What a step at the node x may do to the other nodes.
Aside(a, x) ==
  \A n \in Nodes \ {x} :
    /\ total'[a][n] = total[a][n] /\ left'[a][n] = left[a][n]
    /\ limits'[a][n] = limits[a][n] /\ done'[a][n] = done[a][n]
    /\ \/ selector'[a][n] = selector[a][n] /\ resume'[a][n] = resume[a][n]
       \/ selector'[a][n] = 0 /\ resume'[a][n] = 1

LEMMA OthersKeep ==
  ASSUME NEW b \in AIs, AllOK(b), SameStack(b), SameData(b)
  PROVE  AllOK(b)'
<1>1. StackOK(b)'
  BY DEF AllOK, SameStack, StackOK, Returned, Points
<1>2. RunOK(b)'
  BY DEF AllOK, SameStack, SameData, RunOK, Returned
<1>3. \A n \in Nodes : PlaceAt(b, n)' /\ RememberAt(b, n)'
  BY DEF AllOK, SameStack, SameData, PlaceAt, RememberAt, Begun
<1>4. \A p, m \in Nodes : Passed(b, p, m) => Passed(b, p, m)'
  BY DEF SameStack, SameData, Passed, Returned
<1>5. PriorityParts \subseteq Nodes
  BY PartsFacts DEF PriorityParts
<1>6. \A n \in Nodes : PassedBy(b, n) => PassedBy(b, n)'
  BY <1>4, <1>5 DEF PassedBy
<1>7. PassedOK(b)'
  BY <1>6 DEF AllOK, SameStack, SameData, PassedOK, OfType
<1> QED
  BY <1>1, <1>2, <1>3, <1>7 DEF AllOK

LEMMA Assemble ==
  ASSUME TreeInv, NEW a \in AIs, StackTypes', StateTypes', HistoryTypes', AllOK(a)',
         \A b \in AIs \ {a} : SameStack(b) /\ SameData(b)
  PROVE  TreeInv'
<1>1. \A b \in AIs : AllOK(b)'
  BY OthersKeep DEF TreeInv
<1> QED
  BY <1>1 DEF TreeInv

\* The other nodes keep their place, and what they remember.
LEMMA AsideKeeps ==
  ASSUME NEW a \in AIs, AllOK(a), NEW x \in Nodes, Aside(a, x),
         \A n \in Nodes \ {x} : child'[a][n] = child[a][n],
         PlaceAt(a, x)', RememberAt(a, x)'
  PROVE  \A n \in Nodes : PlaceAt(a, n)' /\ RememberAt(a, n)'
<1> SUFFICES ASSUME NEW n \in Nodes \ {x} PROVE PlaceAt(a, n)' /\ RememberAt(a, n)'
  OBVIOUS
<1>1. PlaceAt(a, n) /\ RememberAt(a, n)
  BY DEF AllOK
<1>2. child'[a][n] = child[a][n]
  OBVIOUS
<1>3. /\ left'[a][n] = left[a][n] /\ limits'[a][n] = limits[a][n] /\ done'[a][n] = done[a][n]
      /\ \/ selector'[a][n] = selector[a][n] /\ resume'[a][n] = resume[a][n]
         \/ selector'[a][n] = 0 /\ resume'[a][n] = 1
  BY DEF Aside
<1> QED
  BY <1>1, <1>2, <1>3 DEF PlaceAt, RememberAt, Begun

RandomParts == BelowAll(OfType({"RandomSelector"}))

LEMMA RandomPartsFacts ==
  /\ BelowRandom = RandomParts /\ BelowRandom \subseteq Nodes
  /\ \A n \in Nodes : Type[n] = "RandomSelector" => n \in BelowRandom
  /\ \A n \in Nodes : n # Root /\ Parent(n) \in BelowRandom => n \in BelowRandom
  /\ \A n \in BelowRandom : Type[n] # "RandomSelector" => n # Root /\ Parent(n) \in BelowRandom
<1>1. BelowRandom = RandomParts
  BY DEF BelowRandom, RandomParts
<1>2. /\ OfType({"RandomSelector"}) \subseteq RandomParts
      /\ RandomParts \subseteq Nodes
      /\ \A p \in RandomParts : Kids(p) \subseteq RandomParts
      /\ \A n \in RandomParts :
           Type[n] \notin {"RandomSelector"} => n # Root /\ Parent(n) \in RandomParts
  BY PartsFacts DEF RandomParts
<1>3. \A n \in Nodes : n # Root => n \in Kids(Parent(n))
  BY ParentIs
<1> QED
  BY <1>1, <1>2, <1>3 DEF OfType

LEMMA PriorityPartsFacts ==
  /\ PriorityParts \subseteq Nodes
  /\ \A n \in PriorityParts : Type[n] # "PrioritySelector" => n # Root /\ Parent(n) \in PriorityParts
  /\ \A n \in BelowPriority : n \in PriorityParts /\ Type[n] # "PrioritySelector"
<1>1. /\ PriorityParts \subseteq Nodes
      /\ \A n \in PriorityParts :
           Type[n] \notin {"PrioritySelector"} => n # Root /\ Parent(n) \in PriorityParts
  BY PartsFacts DEF PriorityParts
<1> QED
  BY <1>1 DEF BelowPriority, PriorityParts, OfType

\* What is behind the AI stays there when a node that was called does its step.
LEMMA PassedStay ==
  ASSUME TreeInv, NEW a \in AIs, phase[a] = "call", NEW x \in Nodes, x = at[a], Aside(a, x),
         \A n \in Nodes \ {x} : child'[a][n] = child[a][n],
         NEW n \in OfType({"Sequence"}) \intersect BelowPriority,
         child'[a][n] = 0, selector'[a][n] # 0,
         n = x => selector'[a][n] = selector[a][n]
  PROVE  PassedBy(a, n)'
<1>1. child[a][x] = 0
  BY DEF TreeInv, AllOK, StackOK
<1>2. n \in Nodes /\ (n # x => selector'[a][n] \in {0, selector[a][n]} /\ child'[a][n] = child[a][n])
  BY DEF Aside, OfType
<1>3. child[a][n] = 0 /\ selector[a][n] # 0
  BY <1>1, <1>2
<1>4. PICK p \in PriorityParts, m \in Nodes : n \in Below[m] /\ Passed(a, p, m)
  BY <1>3 DEF TreeInv, AllOK, PassedOK, PassedBy
<1>5. p \in Nodes /\ p # x
  BY <1>1, <1>4, PriorityPartsFacts DEF Passed
<1>6. child'[a][p] = child[a][p] /\ left'[a][p] = left[a][p]
  BY <1>5 DEF Aside
<1>7. Passed(a, p, m)'
  BY <1>4, <1>6 DEF Passed
<1> QED
  BY <1>4, <1>7 DEF PassedBy

\* A node that was called calls a child.
LEMMA CallsFirst ==
  ASSUME TreeInv, NEW a \in AIs, phase[a] = "call", NEW x \in Nodes, x = at[a],
         NEW i \in 1 .. Size(at[a]), Call(a, i),
         Aside(a, x), total'[a][x] = total[a][x], busy'[a] = busy[a],
         PlaceAt(a, x)', RememberAt(a, x)'
  PROVE  AllOK(a)'
<1>1. /\ StackOK(a)' /\ phase'[a] = "call" /\ child'[a][x] = i
      /\ \A n \in Nodes \ {x} : child'[a][n] = child[a][n]
  BY CallStep DEF TreeInv, AllOK
<1>2. \A n \in Nodes : total'[a][n] = total[a][n]
  BY DEF Aside
<1>3. RunOK(a)'
  <2>1. RunOK(a)
    BY DEF TreeInv, AllOK
  <2>2. ASSUME NEW n \in Nodes, total'[a][n] = "RUNNING"
        PROVE  Type[n] = "Parallel" /\ child'[a][n] # 0
    BY <1>1, <1>2, <2>1, <2>2 DEF RunOK
  <2>3. busy'[a] <=> \E n \in Nodes \ BelowRandom : total'[a][n] = "RUNNING"
    BY <1>2, <2>1 DEF RunOK
  <2> QED
    BY <1>1, <2>2, <2>3 DEF RunOK
<1>4. PassedOK(a)'
  BY <1>1, PassedStay DEF PassedOK
<1>5. \A n \in Nodes : PlaceAt(a, n)' /\ RememberAt(a, n)'
  BY <1>1, AsideKeeps DEF TreeInv
<1> QED
  BY <1>1, <1>3, <1>4, <1>5 DEF AllOK

\* A node that was called returns.
LEMMA ReturnsAtOnce ==
  ASSUME TreeInv, NEW a \in AIs, phase[a] = "call", NEW x \in Nodes, x = at[a],
         NEW s \in Statuses, Return(a, s),
         s = "RUNNING" => Type[x] # "RandomSelector",
         \A n \in Nodes : total'[a][n] = total[a][n] /\ left'[a][n] = left[a][n],
         selector'[a] = selector[a], limits'[a] = limits[a],
         resume'[a] = resume[a], done'[a] = done[a],
         busy'[a] = (busy[a] \/ (s = "RUNNING" /\ x \notin BelowRandom))
  PROVE  AllOK(a)'
<1>1. /\ StackOK(a)' /\ child'[a][x] = 0 /\ status'[a] = s
      /\ \A n \in Nodes \ {x} : child'[a][n] = child[a][n]
      /\ x = Root => phase'[a] = "idle" /\ \A n \in Nodes : child'[a][n] = 0
      /\ x # Root =>
           /\ phase'[a] = "return" /\ at'[a] = Parent(x) /\ at'[a] \in Nodes
           /\ Children[at'[a]][child'[a][at'[a]]] = x
  BY ReturnStep DEF TreeInv, AllOK
<1>2. child[a][x] = 0
  BY DEF TreeInv, AllOK, StackOK
<1>3. \A n \in Nodes : child'[a][n] = child[a][n]
  BY <1>1, <1>2
<1>4. RunOK(a) /\ busy[a] \in BOOLEAN
  BY DEF TreeInv, AllOK, HistoryTypes
<1>5. busy[a] <=> \E n \in Nodes \ BelowRandom : total'[a][n] = "RUNNING"
  BY <1>4 DEF RunOK
<1>6. ASSUME NEW n \in Nodes, total'[a][n] = "RUNNING"
      PROVE  Type[n] = "Parallel" /\ child'[a][n] # 0
  BY <1>3, <1>4, <1>6 DEF RunOK
<1>7. RunOK(a)'
  <2>1. CASE x = Root
    <3>1. ~ busy[a]
      BY <1>1, <1>5, <1>6, <2>1
    <3>2. s = "RUNNING" => x \notin BelowRandom
      BY <2>1, RandomPartsFacts
    <3>3. busy'[a] <=> status'[a] = "RUNNING"
      BY <1>1, <3>1, <3>2
    <3> QED
      BY <1>1, <1>6, <2>1, <3>3 DEF RunOK
  <2>2. CASE x # Root
    <3>1. s = "RUNNING" => (x \in BelowRandom <=> Parent(x) \in BelowRandom)
      BY <2>2, RandomPartsFacts
    <3>2. busy'[a] <=> \/ status'[a] = "RUNNING" /\ at'[a] \notin BelowRandom
                       \/ \E n \in Nodes \ BelowRandom : total'[a][n] = "RUNNING"
      BY <1>1, <1>5, <2>2, <3>1
    <3> QED
      BY <1>1, <1>6, <2>2, <3>2 DEF RunOK, Returned
  <2> QED
    BY <2>1, <2>2
<1>8. Aside(a, x)
  BY DEF Aside
<1>9. PassedOK(a)'
  BY <1>1, <1>8, PassedStay DEF PassedOK
<1>10. PlaceAt(a, x)' /\ RememberAt(a, x)'
  BY <1>3 DEF TreeInv, AllOK, PlaceAt, RememberAt, Begun
<1>11. \A n \in Nodes : PlaceAt(a, n)' /\ RememberAt(a, n)'
  BY <1>1, <1>8, <1>10, AsideKeeps DEF TreeInv
<1> QED
  BY <1>1, <1>7, <1>9, <1>11 DEF AllOK

\* The child that has returned is reset, and what is below it.
ChildReset(a) ==
  \A n \in Below[Returned(a)] : Type[n] = "Sequence" => selector'[a][n] = 0

\* A node a child has returned to calls another child.
LEMMA CallsNext ==
  ASSUME TreeInv, NEW a \in AIs, phase[a] = "return", NEW x \in Nodes, x = at[a],
         NEW i \in 1 .. Size(at[a]), Call(a, i),
         Aside(a, x), busy'[a] = busy[a],
         x \in BelowRandom \/ status[a] # "RUNNING" \/ Type[x] = "Parallel",
         total'[a][x] = "RUNNING" <=>
           (total[a][x] = "RUNNING" \/ (status[a] = "RUNNING" /\ Type[x] = "Parallel")),
         \/ Type[x] \in {"Parallel", "Sequence"} /\ i = child[a][x] + 1
         \/ Type[x] = "RandomSelector" /\ i \in left[a][x] /\ left'[a][x] = left[a][x] \ {i}
         \/ Type[x] = "PrioritySelector" /\ ChildReset(a),
         PlaceAt(a, x)', RememberAt(a, x)'
  PROVE  AllOK(a)'
<1>1. /\ StackOK(a)' /\ phase'[a] = "call" /\ child'[a][x] = i
      /\ \A n \in Nodes \ {x} : child'[a][n] = child[a][n]
  BY CallStep DEF TreeInv, AllOK
<1>2. StackOK(a) /\ RunOK(a) /\ PassedOK(a) /\ \A n \in Nodes : PlaceAt(a, n)
  BY DEF TreeInv, AllOK
<1>3. RunOK(a)'
  <2>1. ASSUME NEW n \in Nodes, total'[a][n] = "RUNNING"
        PROVE  Type[n] = "Parallel" /\ child'[a][n] # 0
    <3>1. CASE n = x
      BY <1>1, <1>2, <2>1, <3>1 DEF RunOK
    <3>2. CASE n # x
      <4>1. total[a][n] = "RUNNING" /\ child'[a][n] = child[a][n]
        BY <1>1, <2>1, <3>2 DEF Aside
      <4> QED
        BY <1>2, <4>1 DEF RunOK
    <3> QED
      BY <3>1, <3>2
  <2>2. busy[a] <=> \/ status[a] = "RUNNING" /\ x \notin BelowRandom
                    \/ \E n \in Nodes \ BelowRandom : total[a][n] = "RUNNING"
    BY <1>2 DEF RunOK
  <2>3. \A n \in Nodes \ {x} : total'[a][n] = total[a][n]
    BY DEF Aside
  <2>4. busy'[a] <=> \E n \in Nodes \ BelowRandom : total'[a][n] = "RUNNING"
    <3>1. CASE x \in BelowRandom
      BY <2>2, <2>3, <3>1
    <3>2. CASE x \notin BelowRandom
      BY <2>2, <2>3, <3>2
    <3> QED
      BY <3>1, <3>2
  <2> QED
    BY <1>1, <2>1, <2>4 DEF RunOK
<1>4. ASSUME NEW n \in OfType({"Sequence"}) \intersect BelowPriority,
             child'[a][n] = 0, selector'[a][n] # 0
      PROVE  PassedBy(a, n)'
  <2>1. n \in Nodes /\ n # x /\ Type[n] = "Sequence"
    BY <1>1, <1>4 DEF OfType
  <2>2. child[a][n] = 0 /\ selector[a][n] # 0
    BY <1>1, <1>4, <2>1 DEF Aside
  <2>3. PICK p \in PriorityParts, m \in Nodes : n \in Below[m] /\ Passed(a, p, m)
    BY <1>2, <2>2 DEF PassedOK, PassedBy
  <2>4. p \in Nodes
    BY PriorityPartsFacts
  <2>5. Passed(a, p, m)'
    <3>1. CASE p # x
      <4>1. child'[a][p] = child[a][p] /\ left'[a][p] = left[a][p]
        BY <1>1, <2>4, <3>1 DEF Aside
      <4> QED
        BY <2>3, <3>1, <4>1 DEF Passed
    <3>2. CASE p = x
      <4>1. m \in Kids(x) /\ child'[a][x] # 0
        BY <1>1, <2>3, <3>2 DEF Passed
      <4>2. Size(x) \in Nat /\ \A j, k \in 1 .. Size(x) : Children[x][j] = Children[x][k] => j = k
        BY KidsAre
      <4>3. child[a][x] \in 1 .. Size(x)
        BY <1>2, <4>2 DEF StackOK, TreeInv, StackTypes
      <4>4. CASE Type[x] \in {"Parallel", "Sequence"} /\ i = child[a][x] + 1
        <5>1. \A j \in i .. Size(x) : Children[x][j] # m
          BY <2>3, <3>2, <4>2, <4>3, <4>4 DEF Passed, Returned
        <5> QED
          BY <1>1, <3>2, <4>1, <4>4, <5>1 DEF Passed
      <4>5. CASE Type[x] = "RandomSelector" /\ i \in left[a][x] /\ left'[a][x] = left[a][x] \ {i}
        <5>1. left[a][x] \subseteq (1 .. Size(x)) \ {child[a][x]}
          BY <1>2, <4>5 DEF PlaceAt
        <5>2. \A j \in left[a][x] : Children[x][j] # m
          BY <2>3, <3>2, <4>2, <4>3, <4>5, <5>1 DEF Passed, Returned
        <5> QED
          BY <1>1, <3>2, <4>1, <4>5, <5>2 DEF Passed
      <4>6. CASE Type[x] = "PrioritySelector" /\ ChildReset(a)
        <5>1. n \in Below[Returned(a)]
          BY <2>3, <3>2, <4>6 DEF Passed
        <5> QED
          BY <1>4, <2>1, <4>6, <5>1 DEF ChildReset
      <4> QED
        BY <4>4, <4>5, <4>6
    <3> QED
      BY <3>1, <3>2
  <2> QED
    BY <2>3, <2>5 DEF PassedBy
<1>5. PassedOK(a)'
  BY <1>4 DEF PassedOK
<1>6. \A n \in Nodes : PlaceAt(a, n)' /\ RememberAt(a, n)'
  BY <1>1, AsideKeeps DEF TreeInv
<1> QED
  BY <1>1, <1>3, <1>5, <1>6 DEF AllOK

\* A node a child has returned to returns.
LEMMA ReturnsUp ==
  ASSUME TreeInv, NEW a \in AIs, phase[a] = "return", NEW x \in Nodes, x = at[a],
         NEW s \in Statuses, Return(a, s),
         Aside(a, x), busy'[a] = busy[a], total'[a][x] # "RUNNING",
         Type[x] = "RandomSelector" => s # "RUNNING",
         x \notin BelowRandom => (s = "RUNNING" <=> status[a] = "RUNNING" \/ total[a][x] = "RUNNING"),
         Type[x] = "PrioritySelector" => ChildReset(a),
         PlaceAt(a, x)', RememberAt(a, x)'
  PROVE  AllOK(a)'
<1>1. /\ StackOK(a)' /\ child'[a][x] = 0 /\ status'[a] = s
      /\ \A n \in Nodes \ {x} : child'[a][n] = child[a][n]
      /\ x = Root => phase'[a] = "idle" /\ \A n \in Nodes : child'[a][n] = 0
      /\ x # Root =>
           /\ phase'[a] = "return" /\ at'[a] = Parent(x) /\ at'[a] \in Nodes
           /\ x \in Kids(at'[a]) /\ child'[a][at'[a]] # 0
           /\ Children[at'[a]][child'[a][at'[a]]] = x
  BY ReturnStep DEF TreeInv, AllOK
<1>2. StackOK(a) /\ RunOK(a) /\ PassedOK(a)
  BY DEF TreeInv, AllOK
<1>3. ASSUME NEW n \in Nodes, total'[a][n] = "RUNNING"
      PROVE  Type[n] = "Parallel" /\ child'[a][n] # 0
  <2>1. n # x
    BY <1>3
  <2>2. total[a][n] = "RUNNING" /\ child'[a][n] = child[a][n]
    BY <1>1, <1>3, <2>1 DEF Aside
  <2> QED
    BY <1>2, <2>2 DEF RunOK
<1>4. busy[a] <=> \/ status[a] = "RUNNING" /\ x \notin BelowRandom
                  \/ \E n \in Nodes \ BelowRandom : total[a][n] = "RUNNING"
  BY <1>2 DEF RunOK
<1>5. \A n \in Nodes \ {x} : total'[a][n] = total[a][n]
  BY DEF Aside
<1>6. busy[a] <=> \/ s = "RUNNING" /\ x \notin BelowRandom
                  \/ \E n \in Nodes \ BelowRandom : total'[a][n] = "RUNNING"
  <2>1. CASE x \in BelowRandom
    BY <1>4, <1>5, <2>1
  <2>2. CASE x \notin BelowRandom
    BY <1>4, <1>5, <2>2
  <2> QED
    BY <2>1, <2>2
<1>7. RunOK(a)'
  <2>1. CASE x = Root
    <3>1. s = "RUNNING" => x \notin BelowRandom
      BY <2>1, RandomPartsFacts
    <3>2. busy'[a] <=> status'[a] = "RUNNING"
      BY <1>1, <1>3, <1>6, <2>1, <3>1
    <3> QED
      BY <1>1, <1>3, <2>1, <3>2 DEF RunOK
  <2>2. CASE x # Root
    <3>1. s = "RUNNING" => (x \in BelowRandom <=> Parent(x) \in BelowRandom)
      BY <2>2, RandomPartsFacts
    <3>2. busy'[a] <=> \/ status'[a] = "RUNNING" /\ at'[a] \notin BelowRandom
                       \/ \E n \in Nodes \ BelowRandom : total'[a][n] = "RUNNING"
      BY <1>1, <1>6, <2>2, <3>1
    <3> QED
      BY <1>1, <1>3, <2>2, <3>2 DEF RunOK, Returned
  <2> QED
    BY <2>1, <2>2
<1>8. ASSUME NEW n \in OfType({"Sequence"}) \intersect BelowPriority,
             child'[a][n] = 0, selector'[a][n] # 0
      PROVE  PassedBy(a, n)'
  <2>1. n \in Nodes /\ Type[n] = "Sequence" /\ n \in PriorityParts
    BY <1>8, PriorityPartsFacts DEF OfType
  <2>2. ASSUME n \in Below[x], x \in PriorityParts, Type[x] # "PrioritySelector"
        PROVE  PassedBy(a, n)'
    <3>1. x # Root /\ Parent(x) \in PriorityParts
      BY <2>2, PriorityPartsFacts
    <3>2. Passed(a, Parent(x), x)'
      BY <1>1, <3>1 DEF Passed, Returned
    <3> QED
      BY <2>2, <3>1, <3>2 DEF PassedBy
  <2>3. CASE n = x
    BY <2>1, <2>2, <2>3, BelowFacts
  <2>4. CASE n # x
    <3>1. child[a][n] = 0 /\ selector[a][n] # 0
      BY <1>1, <1>8, <2>1, <2>4 DEF Aside
    <3>2. PICK p \in PriorityParts, m \in Nodes : n \in Below[m] /\ Passed(a, p, m)
      BY <1>2, <3>1 DEF PassedOK, PassedBy
    <3>3. p \in Nodes /\ m \in Kids(p)
      BY <3>2, PriorityPartsFacts DEF Passed
    <3>4. CASE p # x
      <4>1. child'[a][p] = child[a][p] /\ left'[a][p] = left[a][p]
        BY <1>1, <3>3, <3>4 DEF Aside
      <4>2. Passed(a, p, m)'
        BY <3>2, <3>4, <4>1 DEF Passed
      <4> QED
        BY <3>2, <4>2 DEF PassedBy
    <3>5. CASE p = x
      <4>1. Type[x] # "PrioritySelector"
        <5>1. ASSUME Type[x] = "PrioritySelector" PROVE FALSE
          <6>1. n \in Below[Returned(a)]
            BY <3>2, <3>5, <5>1 DEF Passed
          <6> QED
            BY <1>8, <2>1, <5>1, <6>1 DEF ChildReset
        <5> QED
          BY <5>1
      <4>2. n \in Below[x]
        <5>1. m \in Below[x]
          BY <3>3, <3>5, BelowFacts
        <5> QED
          BY <3>2, <5>1, BelowFacts
      <4> QED
        BY <2>2, <3>5, <4>1, <4>2
    <3> QED
      BY <3>4, <3>5
  <2> QED
    BY <2>3, <2>4
<1>9. PassedOK(a)'
  BY <1>8 DEF PassedOK
<1>10. \A n \in Nodes : PlaceAt(a, n)' /\ RememberAt(a, n)'
  BY <1>1, AsideKeeps DEF TreeInv
<1> QED
  BY <1>1, <1>7, <1>9, <1>10 DEF AllOK

----------------------------------------------------------------------------
(* The steps, one by one                                                   *)

LEMMA AtNode ==
  ASSUME TreeInv, NEW a \in AIs, phase[a] # "idle"
  PROVE  /\ \E x \in Nodes : x = at[a]
         /\ StackTypes /\ StackOK(a) /\ StateTypes /\ HistoryTypes
         /\ phase[a] \in {"call", "return"}
BY DEF TreeInv, AllOK, StackOK, StackTypes

LEMMA UntouchedData ==
  ASSUME TreeInv, Untouched
  PROVE  StateTypes' /\ HistoryTypes' /\ \A b \in AIs : SameData(b)
BY DEF TreeInv, Untouched, states, history, StateTypes, HistoryTypes, SameData

\* A node that returns at once without having changed anything.
LEMMA UntouchedReturn ==
  ASSUME TreeInv, NEW a \in AIs, phase[a] = "call", NEW s \in Statuses, Return(a, s),
         s # "RUNNING", Untouched
  PROVE  TreeInv'
<1>1. PICK x \in Nodes : x = at[a]
  BY AtNode
<1>2. StackTypes' /\ \A b \in AIs \ {a} : SameStack(b)
  BY AtNode, ReturnStep
<1>3. StateTypes' /\ HistoryTypes' /\ \A b \in AIs : SameData(b)
  BY UntouchedData
<1>4. busy[a] \in BOOLEAN
  BY DEF TreeInv, HistoryTypes
<1>5. AllOK(a)'
  BY <1>1, <1>3, <1>4, ReturnsAtOnce DEF SameData
<1> QED
  BY <1>2, <1>3, <1>5, Assemble

LEMMA CannotExecuteKeeps ==
  ASSUME TreeInv, NEW a \in AIs, CannotExecute(a)
  PROVE  TreeInv'
BY UntouchedReturn DEF CannotExecute, Statuses

LEMMA ChildlessKeeps ==
  ASSUME TreeInv, NEW a \in AIs, Childless(a)
  PROVE  TreeInv'
BY UntouchedReturn DEF Childless, Statuses

LEMMA TaskKeeps ==
  ASSUME TreeInv, NEW a \in AIs, Task(a)
  PROVE  TreeInv'
<1>1. phase[a] = "call" /\ Type[at[a]] = "Task"
  BY DEF Task, Calling
<1>2. PICK x \in Nodes : x = at[a]
  BY <1>1, AtNode
<1>3. PICK s \in {"RUNNING", "FINISHED", "FAILED", "EXCEPTION"} : Return(a, s) /\ Seen(a, s)
  BY DEF Task
<1>4. s \in Statuses
  BY DEF Statuses
<1>5. UNCHANGED <<total, left, selector, limits, reset, timer, resume, done, waited>>
  BY DEF Task, states
<1>6. StackTypes' /\ \A b \in AIs \ {a} : SameStack(b)
  BY <1>1, <1>3, <1>4, AtNode, ReturnStep
<1>7. busy \in [AIs -> BOOLEAN]
  BY DEF TreeInv, HistoryTypes
<1>8. /\ busy' \in [AIs -> BOOLEAN]
      /\ busy'[a] = (busy[a] \/ (s = "RUNNING" /\ x \notin BelowRandom))
      /\ \A b \in AIs \ {a} : busy'[b] = busy[b]
  BY <1>2, <1>3, <1>7 DEF Seen
<1>9. StateTypes' /\ HistoryTypes' /\ \A b \in AIs \ {a} : SameData(b)
  BY <1>5, <1>8 DEF TreeInv, StateTypes, HistoryTypes, SameData
<1>10. AllOK(a)'
  BY <1>1, <1>2, <1>3, <1>4, <1>5, <1>8, ReturnsAtOnce
<1> QED
  BY <1>6, <1>9, <1>10, Assemble

LEMMA IdleKeeps ==
  ASSUME TreeInv, NEW a \in AIs, Idle(a)
  PROVE  TreeInv'
<1> DEFINE s == IF Over(timer[at[a]], delta[a]) THEN "FINISHED" ELSE "RUNNING"
<1>1. phase[a] = "call" /\ Type[at[a]] = "Idle"
  BY DEF Idle, Calling
<1>2. PICK x \in Nodes : x = at[a]
  BY <1>1, AtNode
<1>3. Return(a, s) /\ Seen(a, s) /\ s \in Statuses
  BY DEF Idle, Statuses
<1>4. UNCHANGED <<total, left, selector, limits, reset, resume, done>>
  BY DEF Idle, NoLocals
<1>5. StackTypes' /\ \A b \in AIs \ {a} : SameStack(b)
  BY <1>1, <1>3, AtNode, ReturnStep
<1>6. busy \in [AIs -> BOOLEAN]
  BY DEF TreeInv, HistoryTypes
<1>7. /\ busy' \in [AIs -> BOOLEAN]
      /\ busy'[a] = (busy[a] \/ (s = "RUNNING" /\ x \notin BelowRandom))
      /\ \A b \in AIs \ {a} : busy'[b] = busy[b]
  <2> HIDE DEF s
  <2> QED
    BY <1>2, <1>3, <1>6 DEF Seen
<1>8. Millis[x] \in Nat /\ delta[a] \in Nat
  BY <1>1, <1>2, TreeAssumption DEF TreeInv, StackTypes, OfType
<1>9. timer' \in [Nodes -> Nat \union {NotStarted}]
  <2>1. timer' = [timer EXCEPT ![x] = Timer(timer[x], delta[a], Millis[x])]
    BY <1>2 DEF Idle, TreeInv, StateTypes
  <2>2. Timer(timer[x], delta[a], Millis[x]) \in Nat \union {NotStarted}
    BY <1>8 DEF Timer, Over, TreeInv, StateTypes, NotStarted
  <2> QED
    BY <2>1, <2>2 DEF TreeInv, StateTypes
<1>10. waited' \in [AIs -> [Nodes -> Nat \union {NotStarted}]]
  <2>1. waited \in [AIs -> [Nodes -> Nat \union {NotStarted}]]
    BY DEF TreeInv, HistoryTypes
  <2>2. \/ waited' = [waited EXCEPT ![a][x] = NotStarted]
        \/ waited' = [waited EXCEPT ![a][x] =
             IF waited[a][x] = NotStarted THEN 0
             ELSE IF waited[a][x] + delta[a] > Millis[x] THEN Millis[x] ELSE waited[a][x] + delta[a]]
    BY <1>2, <2>1 DEF Idle, Lasting
  <2> QED
    BY <1>8, <2>1, <2>2 DEF NotStarted
<1>11. StateTypes' /\ HistoryTypes' /\ \A b \in AIs \ {a} : SameData(b)
  BY <1>4, <1>7, <1>9, <1>10 DEF TreeInv, StateTypes, HistoryTypes, SameData
<1>12. AllOK(a)'
  <2> HIDE DEF s
  <2> QED
    BY <1>1, <1>2, <1>3, <1>4, <1>7, ReturnsAtOnce
<1> QED
  BY <1>5, <1>11, <1>12, Assemble

\* A node that calls its first child without having changed anything.
LEMMA UntouchedCall ==
  ASSUME TreeInv, NEW a \in AIs, phase[a] = "call", NEW i \in 1 .. Size(at[a]), Call(a, i),
         UNCHANGED <<total, left, states, history>>,
         Type[at[a]] \notin {"Sequence", "RandomSelector"},
         Type[at[a]] = "Limit" => ~ Spent(a, at[a])
  PROVE  TreeInv'
<1>1. PICK x \in Nodes : x = at[a]
  BY AtNode
<1>2. /\ StackTypes' /\ (\A b \in AIs \ {a} : SameStack(b))
      /\ \A n \in Nodes \ {x} : child'[a][n] = child[a][n]
  BY <1>1, AtNode, CallStep
<1>3. StateTypes' /\ HistoryTypes' /\ \A b \in AIs : SameData(b)
  BY UntouchedData DEF Untouched
<1>4. Aside(a, x)
  BY <1>3 DEF SameData, Aside
<1>5. PlaceAt(a, x)'
  <2>1. Type[x] = "Limit" => limits'[a][x] < Amount[x]
    <3> SUFFICES ASSUME Type[x] = "Limit" PROVE limits'[a][x] < Amount[x]
      OBVIOUS
    <3>1. ~ (limits[a][x] >= Amount[x]) /\ limits'[a][x] = limits[a][x]
      BY <1>1, <1>3 DEF Spent, SameData
    <3>2. limits[a][x] \in Nat /\ Amount[x] \in Nat
      BY TreeAssumption DEF OfType, TreeInv, StateTypes
    <3> QED
      BY <3>1, <3>2
  <2> QED
    BY <1>1, <2>1 DEF PlaceAt
<1>6. RememberAt(a, x)'
  BY <1>3 DEF TreeInv, AllOK, RememberAt, Begun, SameData
<1>7. AllOK(a)'
  BY <1>1, <1>3, <1>4, <1>5, <1>6, CallsFirst DEF SameData
<1> QED
  BY <1>2, <1>3, <1>7, Assemble

LEMMA OneChild ==
  ASSUME NEW x \in Nodes, Type[x] \in Decorators
  PROVE  Size(x) = 1
BY TreeAssumption DEF OfType

LEMMA CallLimitedKeeps ==
  ASSUME TreeInv, NEW a \in AIs, CallLimited(a)
  PROVE  TreeInv'
<1>1. phase[a] = "call" /\ Type[at[a]] = "Limit" /\ Untouched
  BY DEF CallLimited, Calling
<1>2. PICK x \in Nodes : x = at[a]
  BY <1>1, AtNode
<1>3. CASE Spent(a, at[a])
  <2>1. Return(a, "FINISHED")
    BY <1>3 DEF CallLimited
  <2> QED
    BY <1>1, <2>1, UntouchedReturn DEF Statuses
<1>4. CASE ~ Spent(a, at[a])
  <2>1. Call(a, 1)
    BY <1>4 DEF CallLimited
  <2>2. 1 \in 1 .. Size(at[a])
    BY <1>1, <1>2, OneChild DEF Decorators
  <2> QED
    BY <1>1, <1>4, <2>1, <2>2, UntouchedCall DEF Untouched
<1> QED
  BY <1>3, <1>4

LEMMA CallDecoratedKeeps ==
  ASSUME TreeInv, NEW a \in AIs, CallDecorated(a)
  PROVE  TreeInv'
<1>1. phase[a] = "call" /\ Type[at[a]] \in Decorators \ {"Limit"} /\ Untouched /\ Call(a, 1)
  BY DEF CallDecorated
<1>2. PICK x \in Nodes : x = at[a]
  BY <1>1, AtNode
<1>3. 1 \in 1 .. Size(at[a])
  BY <1>1, <1>2, OneChild
<1>4. Type[at[a]] \notin {"Sequence", "RandomSelector", "Limit"}
  BY <1>1 DEF Decorators
<1> QED
  BY <1>1, <1>3, <1>4, UntouchedCall DEF Untouched

LEMMA CallParallelKeeps ==
  ASSUME TreeInv, NEW a \in AIs, CallParallel(a)
  PROVE  TreeInv'
<1>1. /\ phase[a] = "call" /\ Type[at[a]] = "Parallel" /\ Size(at[a]) > 0 /\ Call(a, 1)
      /\ UNCHANGED <<total, left, states, history>>
  BY DEF CallParallel, Calling
<1>2. PICK x \in Nodes : x = at[a]
  BY <1>1, AtNode
<1>3. 1 \in 1 .. Size(at[a])
  BY <1>1, <1>2, KidsAre
<1> QED
  BY <1>1, <1>3, UntouchedCall

LEMMA CallRandomKeeps ==
  ASSUME TreeInv, NEW a \in AIs, CallRandom(a)
  PROVE  TreeInv'
<1>1. /\ phase[a] = "call" /\ Type[at[a]] = "RandomSelector"
      /\ UNCHANGED <<total, states, history>>
  BY DEF CallRandom, Calling
<1>2. PICK x \in Nodes : x = at[a]
  BY <1>1, AtNode
<1>3. PICK i \in 1 .. Size(x) :
        Call(a, i) /\ left' = [left EXCEPT ![a][x] = (1 .. Size(x)) \ {i}]
  BY <1>2 DEF CallRandom
<1>4. /\ StackTypes' /\ (\A b \in AIs \ {a} : SameStack(b)) /\ child'[a][x] = i
      /\ \A n \in Nodes \ {x} : child'[a][n] = child[a][n]
  BY <1>1, <1>2, <1>3, AtNode, CallStep
<1>5. left \in [AIs -> [Nodes -> SUBSET Nat]]
  BY DEF TreeInv, StateTypes
<1>6. /\ left' \in [AIs -> [Nodes -> SUBSET Nat]]
      /\ left'[a][x] = (1 .. Size(x)) \ {i}
      /\ \A n \in Nodes \ {x} : left'[a][n] = left[a][n]
      /\ \A b \in AIs \ {a} : left'[b] = left[b]
  <2>1. (1 .. Size(x)) \ {i} \in SUBSET Nat
    BY KidsAre
  <2> QED
    BY <1>3, <1>5, <2>1
<1>7. StateTypes' /\ HistoryTypes' /\ \A b \in AIs \ {a} : SameData(b)
  BY <1>1, <1>6 DEF TreeInv, StateTypes, HistoryTypes, SameData, states, history
<1>8. Aside(a, x)
  BY <1>1, <1>6 DEF Aside, states, history
<1>9. PlaceAt(a, x)' /\ RememberAt(a, x)'
  BY <1>1, <1>2, <1>4, <1>6 DEF PlaceAt, RememberAt
<1>10. AllOK(a)'
  BY <1>1, <1>2, <1>3, <1>8, <1>9, CallsFirst DEF history
<1> QED
  BY <1>4, <1>7, <1>10, Assemble

LEMMA CallSequenceKeeps ==
  ASSUME TreeInv, NEW a \in AIs, CallSequence(a)
  PROVE  TreeInv'
<1>1. /\ phase[a] = "call" /\ Type[at[a]] = "Sequence" /\ Size(at[a]) > 0
      /\ UNCHANGED <<total, left, states, resume, waited, busy>>
  BY DEF CallSequence, Calling, NoLocals
<1>2. PICK x \in Nodes : x = at[a]
  BY <1>1, AtNode
<1>3. PICK i : i = Begun(a, x)
  OBVIOUS
<1>4. /\ Call(a, i)
      /\ done' = IF selector[a][x] = 0 THEN [done EXCEPT ![a][x] = 0] ELSE done
  BY <1>2, <1>3 DEF CallSequence
<1>5. Size(x) \in Nat /\ selector[a][x] \in Nat /\ selector[a][x] <= Size(x)
  BY KidsAre DEF TreeInv, StateTypes
<1>6. i \in 1 .. Size(at[a]) /\ (selector[a][x] = 0 => i = 1) /\ (selector[a][x] # 0 => i = selector[a][x])
  BY <1>1, <1>2, <1>3, <1>5 DEF Begun
<1>7. /\ StackTypes' /\ (\A b \in AIs \ {a} : SameStack(b)) /\ child'[a][x] = i
      /\ \A n \in Nodes \ {x} : child'[a][n] = child[a][n]
  BY <1>1, <1>2, <1>4, <1>6, AtNode, CallStep
<1>8. done \in [AIs -> [Nodes -> Nat]]
  BY DEF TreeInv, HistoryTypes
<1>9. /\ done' \in [AIs -> [Nodes -> Nat]]
      /\ done'[a][x] = IF selector[a][x] = 0 THEN 0 ELSE done[a][x]
      /\ \A n \in Nodes \ {x} : done'[a][n] = done[a][n]
      /\ \A b \in AIs \ {a} : done'[b] = done[b]
  BY <1>4, <1>8
<1>10. StateTypes' /\ HistoryTypes' /\ \A b \in AIs \ {a} : SameData(b)
  BY <1>1, <1>9 DEF TreeInv, StateTypes, HistoryTypes, SameData, states
<1>11. Aside(a, x)
  BY <1>1, <1>9 DEF Aside, states
<1>12. PlaceAt(a, x)'
  <2>1. child[a][x] = 0 /\ PlaceAt(a, x)
    BY <1>1, <1>2 DEF TreeInv, AllOK, StackOK
  <2>2. done'[a][x] = i - 1
    BY <1>1, <1>2, <1>5, <1>6, <1>9, <2>1 DEF PlaceAt
  <2> QED
    BY <1>1, <1>2, <1>6, <1>7, <2>2 DEF PlaceAt
<1>13. RememberAt(a, x)'
  BY <1>1 DEF TreeInv, AllOK, RememberAt, Begun, states
<1>14. AllOK(a)'
  BY <1>1, <1>2, <1>4, <1>6, <1>11, <1>12, <1>13, CallsFirst
<1> QED
  BY <1>7, <1>10, <1>14, Assemble

LEMMA ForgetIs ==
  ASSUME StateTypes, HistoryTypes, NEW a \in AIs, NEW ns
  PROVE  /\ Forget(a, ns) \in [AIs -> [Nodes -> Nat]] /\ Abandon(a, ns) \in [AIs -> [Nodes -> Nat]]
         /\ \A b \in AIs \ {a} : Forget(a, ns)[b] = selector[b] /\ Abandon(a, ns)[b] = resume[b]
         /\ \A b \in AIs, n \in Nodes : Forget(a, ns)[b][n] <= Size(n)
         /\ \A n \in Nodes :
              IF n \in BelowAll(ns) /\ Type[n] = "Sequence"
              THEN Forget(a, ns)[a][n] = 0 /\ Abandon(a, ns)[a][n] = 1
              ELSE Forget(a, ns)[a][n] = selector[a][n] /\ Abandon(a, ns)[a][n] = resume[a][n]
<1>1. selector \in [AIs -> [Nodes -> Nat]] /\ resume \in [AIs -> [Nodes -> Nat]]
  BY DEF StateTypes, HistoryTypes
<1>2. \A b \in AIs, n \in Nodes : selector[b][n] <= Size(n) /\ Size(n) \in Nat
  BY KidsAre DEF StateTypes
<1> DEFINE f == [n \in Nodes |-> IF n \in BelowAll(ns) /\ Type[n] = "Sequence" THEN 0 ELSE selector[a][n]]
           g == [n \in Nodes |-> IF n \in BelowAll(ns) /\ Type[n] = "Sequence" THEN 1 ELSE resume[a][n]]
<1>3. Forget(a, ns) = [selector EXCEPT ![a] = f] /\ Abandon(a, ns) = [resume EXCEPT ![a] = g]
  BY <1>1 DEF Forget, Abandon
<1>4. f \in [Nodes -> Nat] /\ g \in [Nodes -> Nat]
  BY <1>1
<1>5. /\ Forget(a, ns)[a] = f /\ Abandon(a, ns)[a] = g
      /\ \A b \in AIs \ {a} : Forget(a, ns)[b] = selector[b] /\ Abandon(a, ns)[b] = resume[b]
  BY <1>1, <1>3
<1>6. Forget(a, ns) \in [AIs -> [Nodes -> Nat]] /\ Abandon(a, ns) \in [AIs -> [Nodes -> Nat]]
  BY <1>1, <1>3, <1>4
<1>7. ASSUME NEW n \in Nodes
      PROVE  IF n \in BelowAll(ns) /\ Type[n] = "Sequence"
             THEN f[n] = 0 /\ g[n] = 1
             ELSE f[n] = selector[a][n] /\ g[n] = resume[a][n]
  OBVIOUS
<1>8. \A n \in Nodes : f[n] <= Size(n)
  BY <1>2
<1> QED
  BY <1>2, <1>5, <1>6, <1>7, <1>8

LEMMA ReturnLimitedKeeps ==
  ASSUME TreeInv, NEW a \in AIs, ReturnLimited(a)
  PROVE  TreeInv'
<1> DEFINE s == IF status[a] = "RUNNING" THEN "RUNNING" ELSE "FAILED"
<1>1. /\ phase[a] = "return" /\ Type[at[a]] = "Limit"
      /\ UNCHANGED <<total, left, selector, reset, timer, resume, done, waited, busy>>
      /\ Return(a, s) /\ s \in Statuses /\ (s = "RUNNING" <=> status[a] = "RUNNING")
  BY DEF ReturnLimited, Returning, NoLocals, history, Statuses
<1>2. PICK x \in Nodes : x = at[a]
  BY <1>1, AtNode
<1> HIDE DEF s
<1>3. /\ StackTypes' /\ (\A b \in AIs \ {a} : SameStack(b)) /\ child'[a][x] = 0
      /\ \A n \in Nodes \ {x} : child'[a][n] = child[a][n]
  BY <1>1, <1>2, AtNode, ReturnStep
<1>4. limits \in [AIs -> [Nodes -> Nat]] /\ limits' = [limits EXCEPT ![a][x] = limits[a][x] + 1]
  BY <1>2 DEF TreeInv, StateTypes, ReturnLimited
<1>5. /\ limits' \in [AIs -> [Nodes -> Nat]]
      /\ limits'[a][x] = limits[a][x] + 1
      /\ \A n \in Nodes \ {x} : limits'[a][n] = limits[a][n]
      /\ \A b \in AIs \ {a} : limits'[b] = limits[b]
  BY <1>4
<1>6. limits[a][x] < Amount[x] /\ Amount[x] \in Nat /\ limits[a][x] \in Nat
  <2>1. child[a][x] # 0 /\ PlaceAt(a, x)
    BY <1>1, <1>2 DEF TreeInv, AllOK, StackOK
  <2>2. Amount[x] \in Nat
    BY <1>1, <1>2, TreeAssumption DEF OfType
  <2> QED
    BY <1>1, <1>2, <1>4, <2>1, <2>2 DEF PlaceAt
<1>7. \A b \in AIs, n \in OfType({"Limit"}) : limits'[b][n] <= Amount[n]
  <2> SUFFICES ASSUME NEW b \in AIs, NEW n \in OfType({"Limit"}) PROVE limits'[b][n] <= Amount[n]
    OBVIOUS
  <2>1. limits[b][n] <= Amount[n] /\ n \in Nodes
    BY DEF TreeInv, StateTypes, OfType
  <2>2. CASE b = a /\ n = x
    BY <1>5, <1>6, <2>2
  <2>3. CASE b # a \/ n # x
    BY <1>5, <2>1, <2>3
  <2> QED
    BY <2>2, <2>3
<1>8. StateTypes' /\ HistoryTypes' /\ \A b \in AIs \ {a} : SameData(b)
  BY <1>1, <1>5, <1>7 DEF TreeInv, StateTypes, HistoryTypes, SameData
<1>9. Aside(a, x)
  BY <1>1, <1>5 DEF Aside
<1>10. PlaceAt(a, x)' /\ RememberAt(a, x)'
  BY <1>1, <1>2, <1>3 DEF PlaceAt, RememberAt
<1>11. RunOK(a)
  BY DEF TreeInv, AllOK
<1>12. AllOK(a)'
  BY <1>1, <1>2, <1>9, <1>10, <1>11, ReturnsUp DEF RunOK
<1> QED
  BY <1>3, <1>8, <1>12, Assemble

LEMMA ReturnDecoratedKeeps ==
  ASSUME TreeInv, NEW a \in AIs, ReturnDecorated(a)
  PROVE  TreeInv'
<1> DEFINE s == Decorated(Type[at[a]], status[a])
<1>1. phase[a] = "return" /\ Type[at[a]] \in {"Invert", "Fail", "Succeed"} /\ Untouched /\ Return(a, s)
  BY DEF ReturnDecorated, Decorators
<1>2. s \in Statuses /\ (s = "RUNNING" <=> status[a] = "RUNNING")
  <2>1. status[a] \in Statuses
    BY DEF TreeInv, StackTypes
  <2> QED
    BY <1>1, <2>1 DEF Decorated, Statuses
<1>3. PICK x \in Nodes : x = at[a]
  BY <1>1, AtNode
<1> HIDE DEF s
<1>4. /\ StackTypes' /\ (\A b \in AIs \ {a} : SameStack(b)) /\ child'[a][x] = 0
      /\ \A n \in Nodes \ {x} : child'[a][n] = child[a][n]
  BY <1>1, <1>2, <1>3, AtNode, ReturnStep
<1>5. StateTypes' /\ HistoryTypes' /\ \A b \in AIs : SameData(b)
  BY <1>1, UntouchedData
<1>6. Aside(a, x)
  BY <1>5 DEF Aside, SameData
<1>7. PlaceAt(a, x)' /\ RememberAt(a, x)'
  BY <1>1, <1>3, <1>4 DEF PlaceAt, RememberAt
<1>8. RunOK(a)
  BY DEF TreeInv, AllOK
<1>9. AllOK(a)'
  BY <1>1, <1>2, <1>3, <1>5, <1>6, <1>7, <1>8, ReturnsUp DEF RunOK, SameData
<1> QED
  BY <1>4, <1>5, <1>9, Assemble

LEMMA ReturningAt ==
  ASSUME TreeInv, NEW a \in AIs, phase[a] = "return"
  PROVE  \E x \in Nodes :
           /\ x = at[a] /\ child[a][x] \in 1 .. Size(x) /\ Size(x) \in Nat
           /\ Returned(a) = Children[x][child[a][x]] /\ Returned(a) \in Kids(x) /\ Returned(a) \in Nodes
           /\ Returned(a) # x
           /\ StackOK(a) /\ RunOK(a) /\ PlaceAt(a, x) /\ RememberAt(a, x)
           /\ status[a] \in Statuses
<1>1. PICK x \in Nodes : x = at[a]
  BY AtNode
<1>2. /\ child[a][x] # 0 /\ child[a][x] \in Nat /\ child[a][x] <= Size(x) /\ status[a] \in Statuses
      /\ StackOK(a) /\ RunOK(a) /\ PlaceAt(a, x) /\ RememberAt(a, x)
  BY <1>1 DEF TreeInv, AllOK, StackOK, StackTypes
<1>3. child[a][x] \in 1 .. Size(x) /\ Size(x) \in Nat
  BY <1>2, KidsAre
<1> QED
  BY <1>1, <1>2, <1>3, KidsAre DEF Returned

LEMMA ReturnSequenceKeeps ==
  ASSUME TreeInv, NEW a \in AIs, ReturnSequence(a)
  PROVE  TreeInv'
<1>1. /\ phase[a] = "return" /\ Type[at[a]] = "Sequence"
      /\ UNCHANGED <<total, left, limits, reset, timer, waited, busy>>
  BY DEF ReturnSequence, Returning, NoLocals
<1>2. PICK x \in Nodes :
        /\ x = at[a] /\ child[a][x] \in 1 .. Size(x) /\ Size(x) \in Nat
        /\ StackOK(a) /\ RunOK(a) /\ PlaceAt(a, x) /\ RememberAt(a, x)
        /\ status[a] \in Statuses
  BY <1>1, ReturningAt
<1>3. PICK i \in Nat : i = child[a][x] /\ i # 0 /\ i <= Size(x)
  BY <1>2
<1>4. selector \in [AIs -> [Nodes -> Nat]] /\ resume \in [AIs -> [Nodes -> Nat]] /\ done \in [AIs -> [Nodes -> Nat]]
  BY DEF TreeInv, StateTypes, HistoryTypes
<1>5. \A b \in AIs, n \in Nodes : selector[b][n] <= Size(n)
  BY DEF TreeInv, StateTypes
<1>6. total[a][x] # "RUNNING"
  BY <1>1, <1>2 DEF RunOK
<1>7. CASE status[a] = "FINISHED" /\ i < Size(x)
  <2>1. /\ Call(a, i + 1) /\ done' = [done EXCEPT ![a][x] = i]
        /\ UNCHANGED <<selector, resume>>
    BY <1>2, <1>3, <1>7 DEF ReturnSequence
  <2>2. i + 1 \in 1 .. Size(at[a])
    BY <1>2, <1>3, <1>7
  <2>3. /\ StackTypes' /\ (\A b \in AIs \ {a} : SameStack(b)) /\ child'[a][x] = i + 1
        /\ \A n \in Nodes \ {x} : child'[a][n] = child[a][n]
    BY <1>1, <1>2, <2>1, <2>2, AtNode, CallStep
  <2>4. /\ done' \in [AIs -> [Nodes -> Nat]] /\ done'[a][x] = i
        /\ \A n \in Nodes \ {x} : done'[a][n] = done[a][n]
        /\ \A b \in AIs \ {a} : done'[b] = done[b]
    BY <1>4, <2>1
  <2>5. StateTypes' /\ HistoryTypes' /\ \A b \in AIs \ {a} : SameData(b)
    BY <1>1, <2>1, <2>4 DEF TreeInv, StateTypes, HistoryTypes, SameData
  <2>6. Aside(a, x)
    BY <1>1, <2>1, <2>4 DEF Aside
  <2>7. PlaceAt(a, x)' /\ RememberAt(a, x)'
    BY <1>1, <1>2, <2>1, <2>3, <2>4 DEF PlaceAt, RememberAt, Begun
  <2>8. AllOK(a)'
    BY <1>1, <1>2, <1>3, <1>6, <1>7, <2>1, <2>2, <2>6, <2>7, CallsNext
  <2> QED
    BY <2>3, <2>5, <2>8, Assemble
<1>8. CASE ~ (status[a] = "FINISHED" /\ i < Size(x))
  <2>1. Return(a, status[a])
    BY <1>2, <1>3, <1>8 DEF ReturnSequence
  <2>2. /\ StackTypes' /\ (\A b \in AIs \ {a} : SameStack(b)) /\ child'[a][x] = 0
        /\ \A n \in Nodes \ {x} : child'[a][n] = child[a][n]
    BY <1>1, <1>2, <2>1, AtNode, ReturnStep
  <2>3. /\ selector' \in [AIs -> [Nodes -> Nat]] /\ resume' \in [AIs -> [Nodes -> Nat]]
        /\ done' \in [AIs -> [Nodes -> Nat]]
        /\ \A b \in AIs, n \in Nodes : selector'[b][n] <= Size(n)
        /\ \A b \in AIs \ {a} : selector'[b] = selector[b] /\ resume'[b] = resume[b] /\ done'[b] = done[b]
        /\ Aside(a, x) /\ PlaceAt(a, x)' /\ RememberAt(a, x)'
    <3>1. CASE status[a] = "RUNNING"
      <4>1. /\ selector' = [selector EXCEPT ![a][x] = i] /\ resume' = [resume EXCEPT ![a][x] = i]
            /\ done' = done
        BY <1>2, <1>3, <3>1 DEF ReturnSequence, Position
      <4>2. /\ selector' \in [AIs -> [Nodes -> Nat]] /\ resume' \in [AIs -> [Nodes -> Nat]]
            /\ selector'[a][x] = i /\ resume'[a][x] = i
            /\ \A n \in Nodes \ {x} : selector'[a][n] = selector[a][n] /\ resume'[a][n] = resume[a][n]
            /\ \A b \in AIs \ {a} : selector'[b] = selector[b] /\ resume'[b] = resume[b]
        BY <1>4, <4>1
      <4>3. \A b \in AIs, n \in Nodes : selector'[b][n] <= Size(n)
        BY <1>3, <1>5, <4>2
      <4>4. Aside(a, x)
        BY <1>1, <4>1, <4>2 DEF Aside
      <4>5. PlaceAt(a, x)' /\ RememberAt(a, x)'
        BY <1>1, <1>2, <1>3, <2>2, <4>1, <4>2 DEF PlaceAt, RememberAt, Begun
      <4> QED
        BY <1>4, <4>1, <4>2, <4>3, <4>4, <4>5
    <3>2. CASE status[a] # "RUNNING"
      <4> DEFINE F == Forget(a, {x})
                 G == Abandon(a, {x})
      <4>1. /\ selector' = [F EXCEPT ![a][x] = 0] /\ resume' = G
            /\ done' = [done EXCEPT ![a][x] = 0]
        BY <1>2, <1>3, <1>8, <3>2 DEF ReturnSequence, Position
      <4>2. x \in BelowAll({x})
        BY BelowFacts DEF BelowAll
      <4>3. /\ F \in [AIs -> [Nodes -> Nat]] /\ G \in [AIs -> [Nodes -> Nat]]
            /\ \A b \in AIs \ {a} : F[b] = selector[b] /\ G[b] = resume[b]
            /\ \A b \in AIs, n \in Nodes : F[b][n] <= Size(n)
            /\ G[a][x] = 1
            /\ \A n \in Nodes : \/ F[a][n] = selector[a][n] /\ G[a][n] = resume[a][n]
                                \/ F[a][n] = 0 /\ G[a][n] = 1
        <5>1. StateTypes /\ HistoryTypes /\ Type[x] = "Sequence"
          BY <1>1, <1>2 DEF TreeInv
        <5>2. /\ F \in [AIs -> [Nodes -> Nat]] /\ G \in [AIs -> [Nodes -> Nat]]
              /\ \A b \in AIs \ {a} : F[b] = selector[b] /\ G[b] = resume[b]
              /\ \A b \in AIs, n \in Nodes : F[b][n] <= Size(n)
              /\ \A n \in Nodes : IF n \in BelowAll({x}) /\ Type[n] = "Sequence"
                                  THEN F[a][n] = 0 /\ G[a][n] = 1
                                  ELSE F[a][n] = selector[a][n] /\ G[a][n] = resume[a][n]
          BY <5>1, ForgetIs
        <5> HIDE DEF F, G
        <5> QED
          BY <4>2, <5>1, <5>2
      <4> HIDE DEF F, G
      <4>4. /\ selector' \in [AIs -> [Nodes -> Nat]]
            /\ selector'[a][x] = 0 /\ \A n \in Nodes \ {x} : selector'[a][n] = F[a][n]
            /\ \A b \in AIs \ {a} : selector'[b] = F[b]
        BY <4>1, <4>3
      <4>5. /\ done' \in [AIs -> [Nodes -> Nat]]
            /\ \A n \in Nodes \ {x} : done'[a][n] = done[a][n]
            /\ \A b \in AIs \ {a} : done'[b] = done[b]
        BY <1>4, <4>1
      <4>6. \A b \in AIs, n \in Nodes : selector'[b][n] <= Size(n)
        BY <1>2, <4>3, <4>4
      <4>7. Aside(a, x)
        BY <1>1, <4>1, <4>3, <4>4, <4>5 DEF Aside
      <4>8. PlaceAt(a, x)' /\ RememberAt(a, x)'
        BY <1>1, <1>2, <2>2, <4>1, <4>3, <4>4 DEF PlaceAt, RememberAt, Begun
      <4> QED
        BY <4>1, <4>3, <4>4, <4>5, <4>6, <4>7, <4>8
    <3> QED
      BY <3>1, <3>2
  <2>4. StateTypes' /\ HistoryTypes' /\ \A b \in AIs \ {a} : SameData(b)
    BY <1>1, <2>3 DEF TreeInv, StateTypes, HistoryTypes, SameData
  <2>5. AllOK(a)'
    BY <1>1, <1>2, <1>6, <2>1, <2>3, ReturnsUp
  <2> QED
    BY <2>2, <2>4, <2>5, Assemble
<1> QED
  BY <1>7, <1>8

\* Some nodes are reset, the position of a priority selector is set.
SetsPosition(a, x, ns, F, G, p, q) ==
  /\ F = Forget(a, ns) /\ G = Abandon(a, ns)
  /\ selector' = [F EXCEPT ![a][x] = p] /\ resume' = [G EXCEPT ![a][x] = q]
  /\ q = IF p = 0 THEN 1 ELSE p
  /\ UNCHANGED <<total, left, limits, reset, timer, done, waited, busy>>

LEMMA PositionSet ==
  ASSUME TreeInv, NEW a \in AIs, NEW x \in Nodes, Type[x] = "PrioritySelector", NEW ns,
         NEW F, NEW G, NEW p \in Nat, p <= Size(x), NEW q \in Nat,
         SetsPosition(a, x, ns, F, G, p, q)
  PROVE  /\ StateTypes' /\ HistoryTypes'
         /\ \A b \in AIs \ {a} : SameData(b)
         /\ Aside(a, x) /\ PlaceAt(a, x)' /\ RememberAt(a, x)'
         /\ \A n \in BelowAll(ns) : n \in Nodes /\ Type[n] = "Sequence" => selector'[a][n] = 0
<1>1. /\ F \in [AIs -> [Nodes -> Nat]] /\ G \in [AIs -> [Nodes -> Nat]]
      /\ \A b \in AIs \ {a} : F[b] = selector[b] /\ G[b] = resume[b]
      /\ \A b \in AIs, n \in Nodes : F[b][n] <= Size(n)
      /\ \A n \in Nodes : IF n \in BelowAll(ns) /\ Type[n] = "Sequence"
                          THEN F[a][n] = 0 /\ G[a][n] = 1
                          ELSE F[a][n] = selector[a][n] /\ G[a][n] = resume[a][n]
  BY ForgetIs DEF TreeInv, SetsPosition
<1>2. F \in [AIs -> [Nodes -> Nat]] /\ G \in [AIs -> [Nodes -> Nat]]
  BY <1>1
<1>3. /\ selector' \in [AIs -> [Nodes -> Nat]] /\ resume' \in [AIs -> [Nodes -> Nat]]
      /\ selector'[a][x] = p /\ resume'[a][x] = q
      /\ \A n \in Nodes \ {x} : selector'[a][n] = F[a][n] /\ resume'[a][n] = G[a][n]
      /\ \A b \in AIs \ {a} : selector'[b] = F[b] /\ resume'[b] = G[b]
  BY <1>2 DEF SetsPosition
<1>4. \A b \in AIs, n \in Nodes : selector'[b][n] <= Size(n)
  BY <1>1, <1>3
<1>5. StateTypes' /\ HistoryTypes'
  BY <1>3, <1>4 DEF TreeInv, StateTypes, HistoryTypes, SetsPosition
<1>6. \A b \in AIs \ {a} : SameData(b)
  BY <1>1, <1>3 DEF SameData, SetsPosition
<1>7. Aside(a, x)
  BY <1>1, <1>3 DEF Aside, SetsPosition
<1>8. PlaceAt(a, x)' /\ RememberAt(a, x)'
  BY <1>3 DEF PlaceAt, RememberAt, Begun, SetsPosition
<1>9. \A n \in BelowAll(ns) : n \in Nodes /\ Type[n] = "Sequence" => selector'[a][n] = 0
  BY <1>1, <1>3
<1> QED
  BY <1>5, <1>6, <1>7, <1>8, <1>9

LEMMA CallPriorityKeeps ==
  ASSUME TreeInv, NEW a \in AIs, CallPriority(a)
  PROVE  TreeInv'
<1>1. /\ phase[a] = "call" /\ Type[at[a]] = "PrioritySelector" /\ Size(at[a]) > 0
      /\ UNCHANGED <<total, left, limits, reset, timer, done, waited, busy>>
  BY DEF CallPriority, Calling, NoLocals
<1>2. PICK x \in Nodes : x = at[a]
  BY <1>1, AtNode
<1>3. PICK ns : ns = Siblings(x, 1 .. Begun(a, x) - 1)
  OBVIOUS
<1>4. Call(a, Begun(a, x)) /\ selector' = Forget(a, ns) /\ resume' = Abandon(a, ns)
  BY <1>2, <1>3 DEF CallPriority
<1>5. Size(x) \in Nat /\ selector[a][x] \in Nat /\ selector[a][x] <= Size(x)
  BY KidsAre DEF TreeInv, StateTypes
<1>6. Begun(a, x) \in 1 .. Size(at[a])
  BY <1>1, <1>2, <1>5 DEF Begun
<1>7. /\ StackTypes' /\ (\A b \in AIs \ {a} : SameStack(b))
      /\ child'[a][x] = Begun(a, x)
      /\ \A n \in Nodes \ {x} : child'[a][n] = child[a][n]
  BY <1>1, <1>2, <1>4, <1>6, AtNode, CallStep
<1>8. /\ selector' \in [AIs -> [Nodes -> Nat]] /\ resume' \in [AIs -> [Nodes -> Nat]]
      /\ \A b \in AIs \ {a} : selector'[b] = selector[b] /\ resume'[b] = resume[b]
      /\ \A b \in AIs, n \in Nodes : selector'[b][n] <= Size(n)
      /\ \A n \in Nodes : \/ selector'[a][n] = selector[a][n] /\ resume'[a][n] = resume[a][n]
                          \/ selector'[a][n] = 0 /\ resume'[a][n] = 1
      /\ selector'[a][x] = selector[a][x] /\ resume'[a][x] = resume[a][x]
  BY <1>1, <1>2, <1>4, ForgetIs DEF TreeInv
<1>9. StateTypes' /\ HistoryTypes' /\ \A b \in AIs \ {a} : SameData(b)
  BY <1>1, <1>8 DEF TreeInv, StateTypes, HistoryTypes, SameData
<1>10. Aside(a, x)
  BY <1>1, <1>8 DEF Aside
<1>11. PlaceAt(a, x)' /\ RememberAt(a, x)'
  BY <1>1, <1>2, <1>8 DEF TreeInv, AllOK, PlaceAt, RememberAt, Begun
<1>12. AllOK(a)'
  BY <1>1, <1>2, <1>4, <1>6, <1>10, <1>11, CallsFirst
<1> QED
  BY <1>7, <1>9, <1>12, Assemble

LEMMA ReturnPriorityKeeps ==
  ASSUME TreeInv, NEW a \in AIs, ReturnPriority(a)
  PROVE  TreeInv'
<1>1. /\ phase[a] = "return" /\ Type[at[a]] = "PrioritySelector"
      /\ UNCHANGED <<total, left, limits, reset, timer, done, waited, busy>>
  BY DEF ReturnPriority, Returning, NoLocals
<1>2. PICK x \in Nodes :
        /\ x = at[a] /\ child[a][x] \in 1 .. Size(x) /\ Size(x) \in Nat
        /\ Returned(a) = Children[x][child[a][x]] /\ Returned(a) \in Nodes
        /\ RunOK(a) /\ status[a] \in Statuses
  BY <1>1, ReturningAt
<1>3. PICK i \in Nat : i = child[a][x] /\ i # 0 /\ i <= Size(x)
  BY <1>2
<1> DEFINE failed == status[a] \in {"CANNOTEXECUTE", "FAILED"}
<1>5. PICK last : last = IF failed THEN i ELSE Size(x)
  OBVIOUS
<1>6. PICK ns : ns = Siblings(x, i .. last)
  OBVIOUS
<1>4. Position(status[a], i) \in Nat /\ Position(status[a], i) <= Size(x)
  BY <1>2, <1>3 DEF Position
<1>7. PICK p \in Nat : p = Position(status[a], i) /\ p <= Size(x)
  BY <1>4
<1>8. PICK q \in Nat : q = IF p = 0 THEN 1 ELSE p
  OBVIOUS
<1>9. PICK F, G : F = Forget(a, ns) /\ G = Abandon(a, ns)
  OBVIOUS
<1>10. /\ IF failed /\ i < Size(x) THEN Call(a, i + 1)
          ELSE Return(a, IF failed THEN "FINISHED" ELSE status[a])
       /\ selector' = [F EXCEPT ![a][x] = p]
       /\ resume' = [G EXCEPT ![a][x] = IF status[a] = "RUNNING" THEN i ELSE 1]
  BY <1>2, <1>3, <1>5, <1>6, <1>7, <1>9 DEF ReturnPriority
<1>11. resume' = [G EXCEPT ![a][x] = q]
  BY <1>3, <1>7, <1>8, <1>10 DEF Position
<1>12. /\ StateTypes' /\ HistoryTypes'
       /\ \A b \in AIs \ {a} : SameData(b)
       /\ Aside(a, x) /\ PlaceAt(a, x)' /\ RememberAt(a, x)'
       /\ \A n \in BelowAll(ns) : n \in Nodes /\ Type[n] = "Sequence" => selector'[a][n] = 0
  <2>1. SetsPosition(a, x, ns, F, G, p, q)
    BY <1>1, <1>8, <1>9, <1>10, <1>11 DEF SetsPosition
  <2> QED
    BY <1>1, <1>2, <1>7, <2>1, PositionSet
<1>13. ChildReset(a)
  <2>1. i \in i .. last /\ i \in 1 .. Size(x)
    BY <1>2, <1>3, <1>5
  <2>2. Returned(a) \in ns
    BY <1>2, <1>3, <1>6, <2>1 DEF Siblings
  <2>3. \A n \in Below[Returned(a)] : n \in BelowAll(ns) /\ n \in Nodes
    BY <1>2, <2>2, BelowFacts DEF BelowAll
  <2> QED
    BY <1>12, <2>3 DEF ChildReset
<1>14. total[a][x] # "RUNNING" /\ total'[a][x] = total[a][x] /\ busy'[a] = busy[a]
  BY <1>1, <1>2 DEF RunOK
<1>15. CASE failed /\ i < Size(x)
  <2>1. Call(a, i + 1) /\ i + 1 \in 1 .. Size(at[a]) /\ status[a] # "RUNNING"
    BY <1>2, <1>3, <1>10, <1>15
  <2>2. StackTypes' /\ \A b \in AIs \ {a} : SameStack(b)
    BY <1>1, <2>1, AtNode, CallStep
  <2>3. AllOK(a)'
    BY <1>1, <1>2, <1>12, <1>13, <1>14, <2>1, CallsNext
  <2> QED
    BY <1>12, <2>2, <2>3, Assemble
<1>16. CASE ~ (failed /\ i < Size(x))
  <2>1. PICK s \in Statuses : s = IF failed THEN "FINISHED" ELSE status[a]
    BY <1>2 DEF Statuses
  <2>2. Return(a, s) /\ (s = "RUNNING" <=> status[a] = "RUNNING")
    BY <1>10, <1>16, <2>1
  <2>3. StackTypes' /\ \A b \in AIs \ {a} : SameStack(b)
    BY <1>1, <2>2, AtNode, ReturnStep
  <2>4. AllOK(a)'
    BY <1>1, <1>2, <1>12, <1>13, <1>14, <2>2, ReturnsUp
  <2> QED
    BY <1>12, <2>3, <2>4, Assemble
<1> QED
  BY <1>15, <1>16

LEMMA ReturnParallelKeeps ==
  ASSUME TreeInv, NEW a \in AIs, ReturnParallel(a)
  PROVE  TreeInv'
<1>1. /\ phase[a] = "return" /\ Type[at[a]] = "Parallel"
      /\ UNCHANGED <<left, limits, reset, timer, done, waited, busy>>
  BY DEF ReturnParallel, Returning
<1>2. PICK x \in Nodes :
        /\ x = at[a] /\ child[a][x] \in 1 .. Size(x) /\ Size(x) \in Nat
        /\ RunOK(a) /\ status[a] \in Statuses
  BY <1>1, ReturningAt
<1>3. PICK i \in Nat : i = child[a][x] /\ i # 0 /\ i <= Size(x)
  BY <1>2
<1>4. total \in [AIs -> [Nodes -> Statuses]]
  BY DEF TreeInv, StateTypes
<1>5. PICK sum \in Statuses :
        /\ sum = Total(a, status[a])
        /\ sum = "RUNNING" <=> status[a] = "RUNNING" \/ total[a][x] = "RUNNING"
  BY <1>2, <1>4 DEF Total
<1>6. PICK v \in Statuses : v = IF i < Size(x) THEN sum ELSE "FINISHED"
  BY DEF Statuses
<1>7. PICK ns : /\ IF i < Size(x) THEN Call(a, i + 1) ELSE Return(a, sum)
                /\ total' = [total EXCEPT ![a][x] = v]
                /\ selector' = Forget(a, ns) /\ resume' = Abandon(a, ns)
  <2>1. PICK ns : ns = IF i = Size(x) /\ sum # "RUNNING" THEN {x}
                       ELSE IF status[a] = "RUNNING" THEN {} ELSE {Children[x][i]}
    OBVIOUS
  <2> QED
    BY <1>2, <1>3, <1>5, <1>6, <2>1 DEF ReturnParallel
<1>8. /\ selector' \in [AIs -> [Nodes -> Nat]] /\ resume' \in [AIs -> [Nodes -> Nat]]
      /\ \A b \in AIs \ {a} : selector'[b] = selector[b] /\ resume'[b] = resume[b]
      /\ \A b \in AIs, n \in Nodes : selector'[b][n] <= Size(n)
      /\ \A n \in Nodes : \/ selector'[a][n] = selector[a][n] /\ resume'[a][n] = resume[a][n]
                          \/ selector'[a][n] = 0 /\ resume'[a][n] = 1
  BY <1>7, ForgetIs DEF TreeInv
<1>9. /\ total' \in [AIs -> [Nodes -> Statuses]] /\ total'[a][x] = v
      /\ \A n \in Nodes \ {x} : total'[a][n] = total[a][n]
      /\ \A b \in AIs \ {a} : total'[b] = total[b]
  BY <1>4, <1>7
<1>10. StateTypes' /\ HistoryTypes' /\ \A b \in AIs \ {a} : SameData(b)
  BY <1>1, <1>8, <1>9 DEF TreeInv, StateTypes, HistoryTypes, SameData
<1>11. Aside(a, x)
  BY <1>1, <1>8, <1>9 DEF Aside
<1>12. PlaceAt(a, x)' /\ RememberAt(a, x)'
  BY <1>1, <1>2 DEF PlaceAt, RememberAt
<1>13. CASE i < Size(x)
  <2>1. Call(a, i + 1) /\ i + 1 \in 1 .. Size(at[a])
    BY <1>2, <1>7, <1>13
  <2>2. StackTypes' /\ \A b \in AIs \ {a} : SameStack(b)
    BY <1>1, <2>1, AtNode, CallStep
  <2>3. total'[a][x] = "RUNNING" <=> status[a] = "RUNNING" \/ total[a][x] = "RUNNING"
    BY <1>5, <1>6, <1>9, <1>13
  <2>4. AllOK(a)'
    BY <1>1, <1>2, <1>3, <1>11, <1>12, <2>1, <2>3, CallsNext
  <2> QED
    BY <1>10, <2>2, <2>4, Assemble
<1>14. CASE ~ (i < Size(x))
  <2>1. Return(a, sum) /\ total'[a][x] # "RUNNING"
    BY <1>6, <1>7, <1>9, <1>14
  <2>2. StackTypes' /\ \A b \in AIs \ {a} : SameStack(b)
    BY <1>1, <2>1, AtNode, ReturnStep
  <2>3. AllOK(a)'
    BY <1>1, <1>2, <1>5, <1>11, <1>12, <2>1, ReturnsUp
  <2> QED
    BY <1>10, <2>2, <2>3, Assemble
<1> QED
  BY <1>13, <1>14

LEMMA ReturnRandomKeeps ==
  ASSUME TreeInv, NEW a \in AIs, ReturnRandom(a)
  PROVE  TreeInv'
<1>1. /\ phase[a] = "return" /\ Type[at[a]] = "RandomSelector"
      /\ UNCHANGED <<limits, reset, timer, done, waited, busy>>
  BY DEF ReturnRandom, Returning
<1>2. PICK x \in Nodes :
        /\ x = at[a] /\ RunOK(a) /\ PlaceAt(a, x) /\ status[a] \in Statuses
  BY <1>1, ReturningAt
<1>3. total \in [AIs -> [Nodes -> Statuses]] /\ left \in [AIs -> [Nodes -> SUBSET Nat]]
  BY DEF TreeInv, StateTypes
<1>4. total[a][x] # "RUNNING" /\ x \in BelowRandom
  BY <1>1, <1>2, RandomPartsFacts DEF RunOK
<1>5. PICK sum \in Statuses :
        /\ sum = IF status[a] \in {"CANNOTEXECUTE", "FAILED"} THEN status[a] ELSE total[a][x]
        /\ sum # "RUNNING"
  BY <1>2, <1>3, <1>4
<1>6. PICK ns :
        /\ \/ \E i \in left[a][x] :
                /\ Call(a, i)
                /\ left' = [left EXCEPT ![a][x] = left[a][x] \ {i}]
                /\ total' = [total EXCEPT ![a][x] = sum]
           \/ /\ Return(a, sum)
              /\ total' = [total EXCEPT ![a][x] = "FINISHED"]
              /\ UNCHANGED left
        /\ selector' = Forget(a, ns) /\ resume' = Abandon(a, ns)
  <2>1. PICK ns : ns = IF status[a] = "RUNNING" THEN {} ELSE {Children[x][child[a][x]]}
    OBVIOUS
  <2>2. \A i : [left EXCEPT ![a][x] = @ \ {i}] = [left EXCEPT ![a][x] = left[a][x] \ {i}]
    BY <1>3
  <2> QED
    BY <1>2, <1>5, <2>1, <2>2 DEF ReturnRandom
<1>7. /\ selector' \in [AIs -> [Nodes -> Nat]] /\ resume' \in [AIs -> [Nodes -> Nat]]
      /\ \A b \in AIs \ {a} : selector'[b] = selector[b] /\ resume'[b] = resume[b]
      /\ \A b \in AIs, n \in Nodes : selector'[b][n] <= Size(n)
      /\ \A n \in Nodes : \/ selector'[a][n] = selector[a][n] /\ resume'[a][n] = resume[a][n]
                          \/ selector'[a][n] = 0 /\ resume'[a][n] = 1
  BY <1>6, ForgetIs DEF TreeInv
<1>8. CASE \E i \in left[a][x] :
             /\ Call(a, i)
             /\ left' = [left EXCEPT ![a][x] = left[a][x] \ {i}]
             /\ total' = [total EXCEPT ![a][x] = sum]
  <2>1. PICK i \in left[a][x] :
          /\ Call(a, i)
          /\ left' = [left EXCEPT ![a][x] = left[a][x] \ {i}]
          /\ total' = [total EXCEPT ![a][x] = sum]
    BY <1>8
  <2>2. i \in 1 .. Size(at[a]) /\ left[a][x] \subseteq 1 .. Size(x)
    BY <1>1, <1>2 DEF PlaceAt
  <2>3. /\ StackTypes' /\ (\A b \in AIs \ {a} : SameStack(b)) /\ child'[a][x] = i
    BY <1>1, <1>2, <2>1, <2>2, AtNode, CallStep
  <2>4. /\ total' \in [AIs -> [Nodes -> Statuses]] /\ total'[a][x] = sum
        /\ \A n \in Nodes \ {x} : total'[a][n] = total[a][n]
        /\ \A b \in AIs \ {a} : total'[b] = total[b]
    BY <1>3, <2>1
  <2>5. /\ left' \in [AIs -> [Nodes -> SUBSET Nat]] /\ left'[a][x] = left[a][x] \ {i}
        /\ \A n \in Nodes \ {x} : left'[a][n] = left[a][n]
        /\ \A b \in AIs \ {a} : left'[b] = left[b]
    BY <1>3, <2>1
  <2>6. StateTypes' /\ HistoryTypes' /\ \A b \in AIs \ {a} : SameData(b)
    BY <1>1, <1>7, <2>4, <2>5 DEF TreeInv, StateTypes, HistoryTypes, SameData
  <2>7. Aside(a, x)
    BY <1>1, <1>7, <2>4, <2>5 DEF Aside
  <2>8. PlaceAt(a, x)' /\ RememberAt(a, x)'
    BY <1>1, <1>2, <2>2, <2>3, <2>5 DEF PlaceAt, RememberAt
  <2>9. AllOK(a)'
    BY <1>1, <1>2, <1>4, <1>5, <2>1, <2>2, <2>4, <2>5, <2>7, <2>8, CallsNext
  <2> QED
    BY <2>3, <2>6, <2>9, Assemble
<1>9. CASE /\ Return(a, sum)
           /\ total' = [total EXCEPT ![a][x] = "FINISHED"]
           /\ UNCHANGED left
  <2>1. /\ StackTypes' /\ (\A b \in AIs \ {a} : SameStack(b)) /\ child'[a][x] = 0
    BY <1>1, <1>2, <1>9, AtNode, ReturnStep
  <2>2. /\ total' \in [AIs -> [Nodes -> Statuses]] /\ total'[a][x] = "FINISHED"
        /\ \A n \in Nodes \ {x} : total'[a][n] = total[a][n]
        /\ \A b \in AIs \ {a} : total'[b] = total[b]
    BY <1>3, <1>9 DEF Statuses
  <2>3. StateTypes' /\ HistoryTypes' /\ \A b \in AIs \ {a} : SameData(b)
    BY <1>1, <1>7, <1>9, <2>2 DEF TreeInv, StateTypes, HistoryTypes, SameData
  <2>4. Aside(a, x)
    BY <1>1, <1>7, <1>9, <2>2 DEF Aside
  <2>5. left[a][x] \subseteq (1 .. Size(x)) \ {0}
    BY <1>1, <1>2 DEF PlaceAt
  <2>6. PlaceAt(a, x)' /\ RememberAt(a, x)'
    BY <1>1, <1>2, <1>9, <2>1, <2>5 DEF PlaceAt, RememberAt
  <2>7. AllOK(a)'
    BY <1>1, <1>2, <1>4, <1>5, <1>9, <2>2, <2>4, <2>6, ReturnsUp
  <2> QED
    BY <2>1, <2>3, <2>7, Assemble
<1> QED
  BY <1>6, <1>8, <1>9

LEMMA TickKeeps ==
  ASSUME TreeInv, NEW a \in AIs, Tick(a)
  PROVE  TreeInv'
<1>1. phase[a] = "idle" /\ UNCHANGED <<status, child, limits, timer, done, waited, total, left>>
  BY DEF Tick, NoLocals
<1>2. StackTypes /\ StateTypes /\ HistoryTypes /\ AllOK(a)
  BY DEF TreeInv
<1>3. \A n \in Nodes : child[a][n] = 0
  BY <1>1, <1>2 DEF AllOK, StackOK
<1>4. /\ at' \in [AIs -> Nodes \union {NoNode}] /\ at'[a] = Root /\ Root \in Nodes
      /\ phase' \in [AIs -> {"idle", "call", "return"}] /\ phase'[a] = "call"
      /\ delta' \in [AIs -> Deltas \union {0}]
      /\ reset' \in [AIs -> BOOLEAN]
      /\ busy' \in [AIs -> BOOLEAN] /\ busy'[a] = FALSE
      /\ \A b \in AIs \ {a} : at'[b] = at[b] /\ phase'[b] = phase[b] /\ busy'[b] = busy[b]
  <2>1. Root \in Nodes
    BY TreeAssumption
  <2>2. PICK d \in Deltas : delta' = [delta EXCEPT ![a] = d]
    BY DEF Tick
  <2>3. /\ at' = [at EXCEPT ![a] = Root] /\ phase' = [phase EXCEPT ![a] = "call"]
        /\ reset' = [reset EXCEPT ![a] = FALSE] /\ busy' = [busy EXCEPT ![a] = FALSE]
    BY DEF Tick
  <2>4. delta' \in [AIs -> Deltas \union {0}]
    BY <1>2, <2>2 DEF StackTypes
  <2>5. /\ at' \in [AIs -> Nodes \union {NoNode}] /\ at'[a] = Root
        /\ \A b \in AIs \ {a} : at'[b] = at[b]
    BY <1>2, <2>1, <2>3 DEF StackTypes
  <2>6. /\ phase' \in [AIs -> {"idle", "call", "return"}] /\ phase'[a] = "call"
        /\ \A b \in AIs \ {a} : phase'[b] = phase[b]
    BY <1>2, <2>3 DEF StackTypes
  <2>7. reset' \in [AIs -> BOOLEAN]
    BY <1>2, <2>3 DEF StateTypes
  <2>8. /\ busy' \in [AIs -> BOOLEAN] /\ busy'[a] = FALSE
        /\ \A b \in AIs \ {a} : busy'[b] = busy[b]
    BY <1>2, <2>3 DEF HistoryTypes
  <2> QED
    BY <2>1, <2>4, <2>5, <2>6, <2>7, <2>8
<1>5. /\ selector' \in [AIs -> [Nodes -> Nat]] /\ resume' \in [AIs -> [Nodes -> Nat]]
      /\ \A b \in AIs \ {a} : selector'[b] = selector[b] /\ resume'[b] = resume[b]
      /\ \A n \in Nodes : \/ selector'[a][n] = selector[a][n] /\ resume'[a][n] = resume[a][n]
                          \/ selector'[a][n] = 0 /\ resume'[a][n] = 1
  <2>1. CASE reset[a]
    <3>1. /\ selector' = [selector EXCEPT ![a] = [n \in Nodes |-> 0]]
          /\ resume' = [resume EXCEPT ![a] = [n \in Nodes |-> 1]]
      BY <2>1 DEF Tick
    <3> QED
      BY <1>2, <3>1 DEF StateTypes, HistoryTypes
  <2>2. CASE ~ reset[a]
    <3>1. UNCHANGED <<selector, resume>>
      BY <2>2 DEF Tick
    <3> QED
      BY <1>2, <3>1 DEF StateTypes, HistoryTypes
  <2> QED
    BY <2>1, <2>2
<1>6. \A b \in AIs, n \in Nodes : selector'[b][n] <= Size(n)
  <2>1. \A b \in AIs, n \in Nodes : selector[b][n] <= Size(n) /\ Size(n) \in Nat
    BY <1>2, KidsAre DEF StateTypes
  <2> QED
    BY <1>5, <2>1
<1>7. StackTypes' /\ StateTypes' /\ HistoryTypes'
  BY <1>1, <1>2, <1>4, <1>5, <1>6 DEF StackTypes, StateTypes, HistoryTypes
<1>8. \A b \in AIs \ {a} : SameStack(b) /\ SameData(b)
  BY <1>1, <1>4, <1>5 DEF SameStack, SameData
<1>9. StackOK(a)'
  BY <1>1, <1>3, <1>4 DEF StackOK
<1>10. RunOK(a)'
  BY <1>1, <1>2, <1>3, <1>4 DEF AllOK, RunOK
<1>11. ASSUME NEW n \in OfType({"Sequence"}) \intersect BelowPriority PROVE selector'[a][n] = 0
  <2>1. n \in Nodes
    BY DEF OfType
  <2>2. ~ PassedBy(a, n)
    BY <1>3, PriorityPartsFacts DEF PassedBy, Passed
  <2>3. selector[a][n] = 0
    BY <1>2, <1>3, <2>1, <2>2 DEF AllOK, PassedOK
  <2> QED
    BY <1>5, <2>1, <2>3
<1>12. PassedOK(a)'
  BY <1>11 DEF PassedOK
<1>13. \A n \in Nodes : PlaceAt(a, n)' /\ RememberAt(a, n)'
  BY <1>1, <1>2, <1>5 DEF AllOK, PlaceAt, RememberAt, Begun
<1>14. AllOK(a)'
  BY <1>9, <1>10, <1>12, <1>13 DEF AllOK
<1> QED
  BY <1>7, <1>8, <1>14, Assemble

LEMMA ResetStateKeeps ==
  ASSUME TreeInv, NEW a \in AIs, ResetState(a)
  PROVE  TreeInv'
<1>1. /\ phase[a] = "idle"
      /\ UNCHANGED <<at, phase, status, delta, child, total, left, limits, reset, timer, done, waited, busy>>
  BY DEF ResetState, stack
<1>2. StackTypes /\ StateTypes /\ HistoryTypes /\ AllOK(a)
  BY DEF TreeInv
<1>3. PICK ns : selector' = Forget(a, ns) /\ resume' = Abandon(a, ns)
  BY DEF ResetState
<1>4. /\ selector' \in [AIs -> [Nodes -> Nat]] /\ resume' \in [AIs -> [Nodes -> Nat]]
      /\ \A b \in AIs \ {a} : selector'[b] = selector[b] /\ resume'[b] = resume[b]
      /\ \A b \in AIs, n \in Nodes : selector'[b][n] <= Size(n)
      /\ \A n \in Nodes : \/ selector'[a][n] = selector[a][n] /\ resume'[a][n] = resume[a][n]
                          \/ selector'[a][n] = 0 /\ resume'[a][n] = 1
  BY <1>2, <1>3, ForgetIs
<1>5. StackTypes' /\ StateTypes' /\ HistoryTypes'
  BY <1>1, <1>2, <1>4 DEF StackTypes, StateTypes, HistoryTypes
<1>6. \A b \in AIs \ {a} : SameStack(b) /\ SameData(b)
  BY <1>1, <1>4 DEF SameStack, SameData
<1>7. StackOK(a)' /\ RunOK(a)'
  BY <1>1, <1>2 DEF AllOK, StackOK, RunOK, Returned, Points
<1>8. PassedOK(a)'
  <2>1. \A n \in Nodes : PassedBy(a, n) = PassedBy(a, n)'
    BY <1>1 DEF PassedBy, Passed, Returned
  <2> QED
    BY <1>1, <1>2, <1>4, <2>1 DEF AllOK, PassedOK, OfType
<1>9. \A n \in Nodes : PlaceAt(a, n)' /\ RememberAt(a, n)'
  BY <1>1, <1>2, <1>4 DEF AllOK, PlaceAt, RememberAt, Begun
<1>10. AllOK(a)'
  BY <1>7, <1>8, <1>9 DEF AllOK
<1> QED
  BY <1>5, <1>6, <1>10, Assemble

LEMMA UnchangedKeeps ==
  ASSUME TreeInv, UNCHANGED <<stack, selector, limits, timer, history>>, reset' \in [AIs -> BOOLEAN]
  PROVE  TreeInv'
<1>1. UNCHANGED <<at, phase, status, delta, child, total, left, selector, limits, timer,
                  resume, done, waited, busy>>
  BY DEF stack, history
<1>2. StackTypes' /\ StateTypes' /\ HistoryTypes'
  BY <1>1 DEF TreeInv, StackTypes, StateTypes, HistoryTypes
<1>3. \A b \in AIs : SameStack(b) /\ SameData(b)
  BY <1>1 DEF SameStack, SameData
<1>4. \A b \in AIs : AllOK(b)'
  BY <1>3, OthersKeep DEF TreeInv
<1> QED
  BY <1>2, <1>4 DEF TreeInv

LEMMA SetBehaviourKeeps ==
  ASSUME TreeInv, NEW a \in AIs, SetBehaviour(a)
  PROVE  TreeInv'
<1>1. reset' \in [AIs -> BOOLEAN]
  BY DEF SetBehaviour, TreeInv, StateTypes
<1> QED
  BY <1>1, UnchangedKeeps DEF SetBehaviour

LEMMA InitTreeInv == TreeInit => TreeInv
<1> SUFFICES ASSUME TreeInit PROVE TreeInv
  OBVIOUS
<1>1. \A n \in Nodes : Size(n) \in Nat
  BY KidsAre
<1>2. \A n \in OfType({"Limit"}) : Amount[n] \in Nat
  BY TreeAssumption
<1>3. StackTypes
  BY <1>1 DEF TreeInit, StackTypes, Statuses
<1>4. StateTypes
  BY <1>1, <1>2 DEF TreeInit, StateTypes, Statuses, OfType
<1>5. HistoryTypes
  BY DEF TreeInit, HistoryTypes
<1>6. ASSUME NEW a \in AIs PROVE AllOK(a)
  <2>1. StackOK(a) /\ RunOK(a)
    BY <1>6 DEF TreeInit, StackOK, RunOK
  <2>2. PassedOK(a)
    BY <1>6 DEF TreeInit, PassedOK, OfType
  <2>3. \A n \in Nodes : PlaceAt(a, n) /\ RememberAt(a, n)
    BY <1>6 DEF TreeInit, PlaceAt, RememberAt, Begun
  <2> QED
    BY <2>1, <2>2, <2>3 DEF AllOK
<1> QED
  BY <1>3, <1>4, <1>5, <1>6 DEF TreeInv

LEMMA NextTreeInv == TreeInv /\ [TreeNext]_treeVars => TreeInv'
<1> SUFFICES ASSUME TreeInv, [TreeNext]_treeVars PROVE TreeInv'
  OBVIOUS
<1>1. ASSUME NEW a \in AIs, Tick(a) \/ ResetState(a) \/ SetBehaviour(a) PROVE TreeInv'
  BY <1>1, TickKeeps, ResetStateKeeps, SetBehaviourKeeps
<1>2. ASSUME NEW a \in AIs, Execute(a) PROVE TreeInv'
  BY <1>2, CannotExecuteKeeps, ChildlessKeeps, TaskKeeps, IdleKeeps, CallLimitedKeeps,
     CallDecoratedKeeps, ReturnLimitedKeeps, ReturnDecoratedKeeps, CallSequenceKeeps,
     ReturnSequenceKeeps, CallPriorityKeeps, ReturnPriorityKeeps, CallParallelKeeps,
     ReturnParallelKeeps, CallRandomKeeps, ReturnRandomKeeps DEF Execute
<1>3. CASE UNCHANGED treeVars
  <2>1. reset' \in [AIs -> BOOLEAN]
    BY <1>3 DEF treeVars, states, TreeInv, StateTypes
  <2> QED
    BY <1>3, <2>1, UnchangedKeeps DEF treeVars, states
<1> QED
  BY <1>1, <1>2, <1>3 DEF TreeNext

LEMMA TreeInvAlways == TreeSpec => []TreeInv
BY InitTreeInv, NextTreeInv, PTL DEF TreeSpec

\* A sequence executes a child when those before it have finished, and never one
\* it does not have; no Limit executes its child too often.
THEOREM SequencesAreInOrder == TreeSpec => []InOrder
<1>1. TreeInv => InOrder
  <2> SUFFICES ASSUME TreeInv PROVE InOrder
    OBVIOUS
  <2>1. TreeTypeOK
    BY DEF TreeInv, TreeTypeOK, StackTypes, StateTypes
  <2>2. SequenceInOrder
    BY DEF TreeInv, AllOK, PlaceAt, SequenceInOrder, OfType
  <2> QED
    BY <2>1, <2>2 DEF InOrder
<1> QED
  BY <1>1, TreeInvAlways, PTL

\* After a tick the tree is running if and only if one of its leaves was, unless
\* a random selector is above it.
THEOREM RunningReachesTheRoot == TreeSpec => []RunningIsSeen
<1>1. TreeInv => RunningIsSeen
  BY DEF TreeInv, AllOK, RunOK, RunningIsSeen
<1> QED
  BY <1>1, TreeInvAlways, PTL

----------------------------------------------------------------------------
(* Where a node goes on                                                    *)

\* What executes nothing has nothing below it that does.
LEMMA OnTheWay ==
  ASSUME NEW a \in AIs, StackOK(a), phase[a] # "idle",
         NEW m \in Nodes, at[a] \in Below[m]
  PROVE  m = at[a] \/ child[a][m] # 0
<1> DEFINE U == {k \in Below[m] : k # at[a] /\ child[a][k] = 0}
<1>1. SUFFICES ASSUME m \in U PROVE FALSE
  BY BelowFacts
<1>2. U \in SUBSET Nodes
  BY BelowFacts
<1>3. Closed(U)
  <2> SUFFICES ASSUME NEW k \in U, NEW j \in Kids(k) PROVE j \in U
    BY DEF Closed
  <2>1. k \in Nodes /\ k \in Below[m] /\ child[a][k] = 0
    BY <1>2
  <2>2. j \in Below[m]
    BY <2>1, BelowFacts
  <2>3. j \in Nodes /\ j # Root
    BY <2>1, KidsAre
  <2>4. Parent(j) = k
    BY <2>1, <2>3, ParentIs
  <2>5. ~ Points(a, Parent(j), j)
    BY <2>1, <2>4 DEF Points
  <2> QED
    BY <2>2, <2>3, <2>5 DEF StackOK
<1>4. Below[m] \subseteq U
  BY <1>1, <1>2, <1>3, BelowFacts
<1> QED
  BY <1>4

\* A sequence below a priority selector that is called remembers nothing.
LEMMA NothingRemembered ==
  ASSUME TreeInv, NEW a \in AIs, phase[a] = "call",
         NEW n \in OfType({"Sequence"}) \intersect BelowPriority, n = at[a]
  PROVE  selector[a][n] = 0
<1>1. SUFFICES ASSUME selector[a][n] # 0 PROVE FALSE
  OBVIOUS
<1>2. StackTypes /\ StackOK(a) /\ PassedOK(a)
  BY DEF TreeInv, AllOK
<1>3. child[a][n] = 0
  BY <1>2 DEF StackOK
<1>4. PICK p \in PriorityParts, m \in Nodes : n \in Below[m] /\ Passed(a, p, m)
  BY <1>1, <1>2, <1>3 DEF PassedOK, PassedBy
<1>5. p \in Nodes /\ m \in Kids(p) /\ m # Root /\ Size(p) \in Nat
  BY <1>4, PriorityPartsFacts, KidsAre DEF Passed
<1>6. Parent(m) = p
  BY <1>5, ParentIs
<1>7. m = at[a] \/ child[a][m] # 0
  BY <1>2, <1>4, OnTheWay
<1>8. child[a][p] # 0 /\ Children[p][child[a][p]] = m
  BY <1>2, <1>5, <1>6, <1>7 DEF StackOK, Points
<1>9. child[a][p] \in child[a][p] .. Size(p)
  BY <1>2, <1>5 DEF StackTypes
<1> QED
  BY <1>4, <1>8, <1>9 DEF Passed

\* A step of an AI is a call or a return.
LEMMA CallsOrReturns ==
  ASSUME NEW b \in AIs, Execute(b)
  PROVE  /\ phase[b] # "idle"
         /\ (\E s : Return(b, s)) \/ (\E i : Call(b, i))
         /\ phase[b] = "call" /\ Type[at[b]] = "Sequence" =>
              (\E s : Return(b, s)) \/ Call(b, Begun(b, at[b]))
         /\ phase[b] = "call" /\ Type[at[b]] = "PrioritySelector" =>
              (\E s : Return(b, s)) \/ Call(b, Begun(b, at[b]))
<1>1. CASE CannotExecute(b) \/ Childless(b)
  BY <1>1 DEF CannotExecute, Childless
<1>2. CASE Task(b) \/ Idle(b)
  BY <1>2 DEF Task, Idle, Calling
<1>3. CASE CallLimited(b) \/ CallDecorated(b)
  BY <1>3 DEF CallLimited, CallDecorated, Calling, Decorators
<1>4. CASE ReturnLimited(b) \/ ReturnDecorated(b)
  BY <1>4 DEF ReturnLimited, ReturnDecorated, Returning
<1>5. CASE CallSequence(b) \/ CallPriority(b)
  BY <1>5 DEF CallSequence, CallPriority, Calling
<1>6. CASE ReturnSequence(b) \/ ReturnPriority(b)
  BY <1>6 DEF ReturnSequence, ReturnPriority, Returning
<1>7. CASE CallParallel(b) \/ CallRandom(b)
  BY <1>7 DEF CallParallel, CallRandom, Calling
<1>8. CASE ReturnParallel(b) \/ ReturnRandom(b)
  BY <1>8 DEF ReturnParallel, ReturnRandom, Returning
<1> QED
  BY <1>1, <1>2, <1>3, <1>4, <1>5, <1>6, <1>7, <1>8 DEF Execute

LEMMA StepResumes ==
  ASSUME TreeInv, [TreeNext]_treeVars, NEW a \in AIs,
         NEW n \in OfType({"Sequence", "PrioritySelector"}),
         child[a][n] = 0, child'[a][n] # 0
  PROVE  child'[a][n] = IF Type[n] = "Sequence" /\ n \in BelowPriority THEN 1 ELSE resume[a][n]
<1>1. StackTypes /\ n \in Nodes /\ Type[n] \in {"Sequence", "PrioritySelector"}
  BY DEF TreeInv, OfType
<1>2. PICK b \in AIs : Execute(b)
  <2>1. child' # child
    OBVIOUS
  <2> QED
    BY <2>1 DEF TreeNext, Tick, ResetState, SetBehaviour, treeVars, stack
<1>3. ~ \E s : Return(b, s)
  BY <1>1 DEF Return, StackTypes
<1>4. PICK i : Call(b, i)
  BY <1>2, <1>3, CallsOrReturns
<1>5. b = a /\ n = at[a]
  BY <1>1, <1>4 DEF Call, StackTypes
<1>6. StackOK(a) /\ RememberAt(a, n)
  BY <1>1 DEF TreeInv, AllOK
<1>7. phase[a] = "call"
  BY <1>1, <1>2, <1>5, <1>6, CallsOrReturns DEF StackOK, StackTypes
<1>8. Call(a, Begun(a, n))
  BY <1>1, <1>2, <1>3, <1>5, <1>7, CallsOrReturns
<1>9. child'[a][n] = Begun(a, n)
  BY <1>1, <1>5, <1>8 DEF Call, StackTypes
<1>10. ASSUME Type[n] = "Sequence", n \in BelowPriority PROVE Begun(a, n) = 1
  <2>1. n \in OfType({"Sequence"}) \intersect BelowPriority
    BY <1>1, <1>10 DEF OfType
  <2> QED
    BY <1>5, <1>7, <2>1, NothingRemembered DEF Begun
<1> QED
  BY <1>1, <1>6, <1>9, <1>10 DEF RememberAt

\* A sequence and a priority selector go on with the child that was running, unless
\* they were reset, and a sequence below a priority selector always begins anew.
THEOREM NodesResume == TreeSpec => Resumes
<1>1. TreeInv /\ [TreeNext]_treeVars =>
        [\A a \in AIs, n \in OfType({"Sequence", "PrioritySelector"}) :
           child[a][n] = 0 /\ child'[a][n] # 0 =>
             child'[a][n] = IF Type[n] = "Sequence" /\ n \in BelowPriority THEN 1 ELSE resume[a][n]]_treeVars
  BY StepResumes
<1> QED
  BY <1>1, TreeInvAlways, PTL DEF TreeSpec, Resumes

----------------------------------------------------------------------------
(* How long an AI idles: as long as it is the only one that has the tree,  *)
(* since the timer is the node's.                                          *)

TimerIs(a, n) ==
  \/ timer[n] = NotStarted /\ waited[a][n] = NotStarted
  \/ /\ timer[n] \in Nat /\ waited[a][n] \in Nat
     /\ timer[n] + waited[a][n] = Millis[n]

IdleInv(a) == TreeInv /\ \A n \in OfType({"Idle"}) : TimerIs(a, n)

\* What an Idle does to the time, and when it ends.
LEMMA IdleStep ==
  ASSUME NEW a \in AIs, IdleInv(a), Idle(a), NEW n, n = at[a]
  PROVE  /\ n \in OfType({"Idle"})
         /\ TimerIs(a, n)'
         /\ \A k \in OfType({"Idle"}) \ {n} : timer'[k] = timer[k] /\ waited'[a][k] = waited[a][k]
         /\ status'[a] = "FINISHED" => waited[a][n] # NotStarted /\ waited[a][n] + delta[a] >= Millis[n]
<1> DEFINE d == delta[a]
           t == timer[n]
           w == waited[a][n]
           m == Millis[n]
           s == IF Over(t, d) THEN "FINISHED" ELSE "RUNNING"
<1>1. StackTypes /\ StateTypes /\ HistoryTypes /\ StackOK(a)
  BY DEF IdleInv, TreeInv, AllOK
<1>2. n \in Nodes /\ Type[n] = "Idle"
  BY <1>1 DEF Idle, Calling, StackOK
<1>3. n \in OfType({"Idle"}) /\ m \in Nat /\ d \in Nat
  <2>1. n \in OfType({"Idle"})
    BY <1>2 DEF OfType
  <2>2. m \in Nat
    BY <2>1, TreeAssumption
  <2>3. d \in Deltas \union {0}
    BY <1>1 DEF StackTypes
  <2>4. d \in Nat
    <3>1. \A x \in Deltas : x \in Nat
      BY TreeAssumption
    <3> QED
      BY <2>3, <3>1
  <2> QED
    BY <2>1, <2>2, <2>4
<1>4. /\ timer' = [timer EXCEPT ![n] = Timer(timer[n], d, m)]
      /\ Return(a, s)
      /\ s = "RUNNING" => Lasting(a, n)
      /\ s # "RUNNING" => waited' = [waited EXCEPT ![a][n] = NotStarted]
  BY DEF Idle
<1>5. /\ timer'[n] = Timer(t, d, m)
      /\ \A k \in Nodes \ {n} : timer'[k] = timer[k]
  BY <1>1, <1>2, <1>4 DEF StateTypes
<1>6. status'[a] = s
  BY <1>1, <1>4 DEF Return, StackTypes
<1>7. /\ s = "RUNNING" => waited'[a][n] = IF w = NotStarted THEN 0 ELSE IF w + d > m THEN m ELSE w + d
      /\ s # "RUNNING" => waited'[a][n] = NotStarted
      /\ \A k \in Nodes \ {n} : waited'[a][k] = waited[a][k]
  BY <1>1, <1>2, <1>4 DEF Lasting, HistoryTypes
<1>8. TimerIs(a, n)
  BY <1>3 DEF IdleInv
<1> DEFINE Ends == waited[a][n] # NotStarted /\ waited[a][n] + delta[a] >= Millis[n]
<1> SUFFICES TimerIs(a, n)' /\ (status'[a] = "FINISHED" => Ends)
  BY <1>3, <1>5, <1>7 DEF OfType
<1>9. CASE Over(t, d)
  <2>1. t # NotStarted /\ t - d <= 0 /\ s = "FINISHED"
    BY <1>9 DEF Over
  <2>2. t \in Nat /\ w \in Nat /\ t + w = m
    BY <1>8, <2>1 DEF TimerIs
  <2>3. timer'[n] = NotStarted
    BY <1>5, <1>9, <2>1 DEF Timer
  <2>4. waited'[a][n] = NotStarted
    BY <1>7, <2>1
  <2>5. w # NotStarted /\ w + d >= m
    <3>1. \A x \in Nat : x # NotStarted
      BY DEF NotStarted
    <3> QED
      BY <1>3, <2>1, <2>2, <3>1
  <2> QED
    BY <2>3, <2>4, <2>5 DEF TimerIs
<1>10. CASE ~ Over(t, d)
  <2>1. s = "RUNNING" /\ (t = NotStarted \/ ~ (t - d <= 0))
    BY <1>10 DEF Over
  <2>2. CASE t = NotStarted
    <3>1. timer'[n] = m /\ waited'[a][n] = 0
      BY <1>5, <1>7, <1>8, <2>1, <2>2 DEF Timer, TimerIs, NotStarted
    <3> QED
      BY <1>3, <1>6, <2>1, <3>1 DEF TimerIs
  <2>3. CASE t # NotStarted
    <3>1. t \in Nat /\ w \in Nat /\ t + w = m
      BY <1>8, <2>3 DEF TimerIs
    <3>2. timer'[n] = t - d
      BY <1>5, <1>10, <2>3 DEF Timer
    <3>3. ~ (w + d > m) /\ w # NotStarted
      BY <1>3, <2>1, <2>3, <3>1 DEF NotStarted
    <3>4. waited'[a][n] = w + d
      BY <1>7, <2>1, <3>3
    <3>5. timer'[n] \in Nat /\ waited'[a][n] \in Nat /\ timer'[n] + waited'[a][n] = m
      BY <1>3, <2>1, <2>3, <3>1, <3>2, <3>4
    <3> QED
      BY <1>6, <2>1, <3>5 DEF TimerIs
  <2> QED
    BY <2>2, <2>3
<1> QED
  BY <1>9, <1>10

\* Every other step leaves the timers alone, and none of them ends an Idle.
LEMMA OtherSteps ==
  ASSUME NEW a \in AIs, AIs = {a}, TreeInv, [TreeNext]_treeVars, ~ Idle(a)
  PROVE  /\ timer' = timer /\ waited' = waited
         /\ \A n \in OfType({"Idle"}) : ~ (at[a] = n /\ at'[a] # n /\ status'[a] = "FINISHED")
<1>1. StackTypes /\ StackOK(a) /\ \A n \in OfType({"Idle"}) : n \in Nodes /\ Type[n] = "Idle"
  BY DEF TreeInv, AllOK, OfType
<1>2. NoNode \notin Nodes
  BY TreeAssumption
<1>3. CASE Tick(a) \/ ResetState(a) \/ SetBehaviour(a)
  <2>1. phase[a] = "idle" /\ timer' = timer /\ waited' = waited
    BY <1>3 DEF Tick, ResetState, SetBehaviour, history
  <2> QED
    BY <1>1, <1>2, <2>1 DEF StackOK
<1>4. CASE UNCHANGED treeVars
  BY <1>4 DEF treeVars, stack, states, history
<1>5. CASE CannotExecute(a)
  <2>1. status'[a] = "CANNOTEXECUTE"
    BY <1>1, <1>5 DEF CannotExecute, Return, StackTypes
  <2> QED
    BY <1>5, <2>1 DEF CannotExecute, Untouched, states, history
<1>6. CASE Task(a) \/ Childless(a) \/ CallLimited(a) \/ CallDecorated(a)
  BY <1>1, <1>6 DEF Task, Childless, CallLimited, CallDecorated, Calling, Composites, Decorators,
     Untouched, states, history
<1>7. CASE ReturnLimited(a) \/ ReturnDecorated(a)
  BY <1>1, <1>7 DEF ReturnLimited, ReturnDecorated, Returning, Decorators, Untouched, states, history
<1>8. CASE CallSequence(a) \/ CallPriority(a) \/ CallParallel(a) \/ CallRandom(a)
  BY <1>1, <1>8 DEF CallSequence, CallPriority, CallParallel, CallRandom, Calling, states, history
<1>9. CASE ReturnSequence(a) \/ ReturnPriority(a) \/ ReturnParallel(a) \/ ReturnRandom(a)
  BY <1>1, <1>9 DEF ReturnSequence, ReturnPriority, ReturnParallel, ReturnRandom, Returning
<1> QED
  BY <1>3, <1>4, <1>5, <1>6, <1>7, <1>8, <1>9 DEF TreeNext, Execute

\* The only AI that has the tree is in an Idle for its time.
THEOREM OneAIIdlesLongEnough ==
  ASSUME \A b, c \in AIs : b = c
  PROVE  TreeSpec => IdleIsLongEnough
<1> DEFINE Inv == TreeInv /\ \A a \in AIs : IdleInv(a)
<1>1. TreeInit => Inv
  BY InitTreeInv DEF IdleInv, TimerIs, TreeInit, OfType
<1>2. Inv /\ [TreeNext]_treeVars => Inv'
  <2> SUFFICES ASSUME Inv, [TreeNext]_treeVars PROVE Inv'
    OBVIOUS
  <2>1. TreeInv'
    BY NextTreeInv
  <2>2. ASSUME NEW a \in AIs, NEW n \in OfType({"Idle"}) PROVE TimerIs(a, n)'
    <3>1. IdleInv(a) /\ TimerIs(a, n) /\ AIs = {a}
      BY DEF IdleInv
    <3>2. CASE Idle(a)
      <4>1. PICK x : x = at[a]
        OBVIOUS
      <4>2. /\ TimerIs(a, x)'
            /\ \A k \in OfType({"Idle"}) \ {x} : timer'[k] = timer[k] /\ waited'[a][k] = waited[a][k]
        BY <3>1, <3>2, <4>1, IdleStep
      <4> QED
        BY <3>1, <4>2 DEF TimerIs
    <3>3. CASE ~ Idle(a)
      BY <3>1, <3>3, OtherSteps DEF TimerIs
    <3> QED
      BY <3>2, <3>3
  <2> QED
    BY <2>1, <2>2 DEF IdleInv
<1>3. Inv /\ [TreeNext]_treeVars =>
        [\A a \in AIs, n \in OfType({"Idle"}) :
           at[a] = n /\ at'[a] # n /\ status'[a] = "FINISHED"
             => waited[a][n] # NotStarted /\ waited[a][n] + delta[a] >= Millis[n]]_treeVars
  <2> SUFFICES ASSUME Inv, [TreeNext]_treeVars, NEW a \in AIs, NEW n \in OfType({"Idle"}),
                      at[a] = n, at'[a] # n, status'[a] = "FINISHED"
               PROVE  waited[a][n] # NotStarted /\ waited[a][n] + delta[a] >= Millis[n]
    OBVIOUS
  <2>1. IdleInv(a) /\ AIs = {a}
    OBVIOUS
  <2>2. Idle(a)
    BY <2>1, OtherSteps
  <2> QED
    BY <2>1, <2>2, IdleStep
<1> QED
  BY <1>1, <1>2, <1>3, PTL DEF TreeSpec, IdleIsLongEnough

----------------------------------------------------------------------------
(* The enemies of an AI.  They are the entries of a list without repeated  *)
(* ids, in which the comparison orders them strictly.                      *)

NoTwice(s) == \A i, j \in DOMAIN s : s[i].id = s[j].id => i = j
Sorted(s) == \A i, j \in DOMAIN s : i < j => Less(s[i], s[j])
Alive(s) == \A i \in DOMAIN s : s[i].aggro > 0
Enemies(s) == s \in Seq(Entry) /\ NoTwice(s) /\ Alive(s)

EnemiesInv ==
  /\ Enemies(entries) /\ dirty \in BOOLEAN /\ reducing \in BOOLEAN
  /\ ~ dirty => Sorted(entries)

LEMMA EntryIs ==
  ASSUME NEW s \in Seq(Entry), NEW i \in DOMAIN s
  PROVE  /\ DOMAIN s = 1 .. Len(s) /\ Len(s) \in Nat /\ i \in Nat
         /\ s[i] \in Entry /\ s[i].id \in Nat /\ s[i].aggro \in Nat
<1>1. DOMAIN s = 1 .. Len(s) /\ Len(s) \in Nat /\ i \in Nat /\ s[i] \in Entry
  OBVIOUS
<1>2. \A e \in Entry : e.id \in Ids /\ e.aggro \in 0 .. MaxAggro
  BY DEF Entry
<1>3. \A x \in Ids : x \in Nat
  BY AggroAssumption
<1>4. \A x \in 0 .. MaxAggro : x \in Nat
  BY AggroAssumption
<1> QED
  BY <1>1, <1>2, <1>3, <1>4

\* EntrySorter is a strict total order on the entries of a list.
LEMMA LessOrders ==
  ASSUME NEW s \in Seq(Entry), NoTwice(s)
  PROVE  /\ \A i, j \in DOMAIN s : i # j => Less(s[i], s[j]) \/ Less(s[j], s[i])
         /\ \A i \in DOMAIN s : ~ Less(s[i], s[i])
         /\ \A i, j, k \in DOMAIN s : Less(s[i], s[j]) /\ Less(s[j], s[k]) => Less(s[i], s[k])
<1>1. \A i \in DOMAIN s : s[i].id \in Nat /\ s[i].aggro \in Nat
  BY EntryIs
<1>2. \A i, j \in DOMAIN s : i # j => s[i].id # s[j].id
  BY DEF NoTwice
<1> QED
  BY <1>1, <1>2 DEF Less

\* Whatever is in the list, it can be sorted.
LEMMA SortSucceeds ==
  ASSUME NEW s \in Seq(Entry), NoTwice(s), NEW changed
  PROVE  Sort(s, changed) # {}
<1> DEFINE D == DOMAIN s
           Before(i) == {j \in D : Less(s[j], s[i])}
           r == [i \in D |-> Cardinality(Before(i)) + 1]
<1>1. D = 1 .. Len(s) /\ Len(s) \in Nat
  OBVIOUS
<1>2. IsFiniteSet(D) /\ Cardinality(D) = Len(s)
  BY <1>1, FS_Interval
<1>3. ASSUME NEW i \in D
      PROVE  IsFiniteSet(Before(i)) /\ Cardinality(Before(i)) \in Nat /\ Cardinality(Before(i)) < Len(s)
  <2>1. Before(i) \in SUBSET D /\ Before(i) # D
    BY LessOrders
  <2>2. IsFiniteSet(Before(i)) /\ Cardinality(Before(i)) <= Len(s) /\ Cardinality(Before(i)) # Len(s)
    BY <1>2, <2>1, FS_Subset
  <2>3. Cardinality(Before(i)) \in Nat
    BY <2>2, FS_CardinalityType
  <2> QED
    BY <1>1, <2>2, <2>3
<1>4. ASSUME NEW i \in D, NEW j \in D, Less(s[i], s[j]) PROVE r[i] < r[j]
  <2>1. Before(i) \in SUBSET Before(j) /\ Before(i) # Before(j)
    BY <1>4, LessOrders
  <2>2. Cardinality(Before(i)) <= Cardinality(Before(j)) /\ Cardinality(Before(i)) # Cardinality(Before(j))
    BY <1>3, <2>1, FS_Subset
  <2>3. Cardinality(Before(i)) \in Nat /\ Cardinality(Before(j)) \in Nat
    BY <1>3
  <2> HIDE DEF Before
  <2>4. Cardinality(Before(i)) + 1 < Cardinality(Before(j)) + 1
    BY <2>2, <2>3
  <2> QED
    BY <2>4
<1>5. r \in [D -> D]
  <2>1. ASSUME NEW i \in D PROVE Cardinality(Before(i)) + 1 \in 1 .. Len(s)
    <3>1. Cardinality(Before(i)) \in Nat /\ Cardinality(Before(i)) < Len(s)
      BY <1>3
    <3> HIDE DEF Before
    <3> QED
      BY <1>1, <3>1
  <2> HIDE DEF Before
  <2> QED
    BY <1>1, <2>1
<1>6. ASSUME NEW i \in D, NEW j \in D, r[i] = r[j] PROVE i = j
  <2>1. ~ (r[i] < r[j]) /\ ~ (r[j] < r[i])
    <3>1. r[i] \in Int /\ r[j] \in Int
      BY <1>1, <1>5
    <3> HIDE DEF r
    <3> QED
      BY <1>6, <3>1
  <2>2. ~ Less(s[i], s[j]) /\ ~ Less(s[j], s[i])
    BY <1>4, <2>1
  <2> QED
    BY <2>2, LessOrders
<1> HIDE DEF r, D
<1>7. r \in Surjection(D, D)
  <2>1. r \in Injection(D, D)
    BY <1>5, <1>6 DEF Injection, IsInjective
  <2> QED
    BY <1>2, <2>1, FS_Injection
<1>8. \A k \in D : \E i \in D : r[i] = k
  BY <1>7 DEF Surjection
<1> DEFINE p == [k \in D |-> CHOOSE i \in D : r[i] = k]
<1>9. \A k \in D : p[k] \in D /\ r[p[k]] = k
  BY <1>8
<1>10. p \in Bijection(D, D)
  <2>1. p \in [D -> D]
    BY <1>9
  <2>2. \A v, w \in D : p[v] = p[w] => v = w
    BY <1>9
  <2>3. \A w \in D : \E v \in D : p[v] = w
    BY <1>5, <1>6, <1>9
  <2> HIDE DEF p
  <2> QED
    BY <2>1, <2>2, <2>3 DEF Bijection, Injection, IsInjective, Surjection
<1> DEFINE t == [i \in D |-> s[p[i]]]
<1>11. t \in Shuffles(s)
  <2> HIDE DEF p
  <2> QED
    BY <1>10 DEF Shuffles, D
<1>12. ASSUME NEW i \in D, NEW j \in D, i < j PROVE Less(t[i], t[j])
  <2>1. p[i] \in D /\ p[j] \in D /\ r[p[i]] = i /\ r[p[j]] = j
    BY <1>9
  <2>2. ~ Less(s[p[j]], s[p[i]]) /\ p[i] # p[j]
    BY <1>1, <1>4, <1>12, <2>1
  <2> QED
    BY <2>1, <2>2, LessOrders DEF D
<1>13. DOMAIN t = D
  OBVIOUS
<1> QED
  BY <1>11, <1>12, <1>13 DEF Sort

\* Sorting loses no entry and adds none, and the result is sorted.
LEMMA SortKeeps ==
  ASSUME NEW s \in Seq(Entry), NoTwice(s), NEW changed \in BOOLEAN, changed \/ Sorted(s),
         NEW t \in Sort(s, changed)
  PROVE  /\ t \in Seq(Entry) /\ NoTwice(t) /\ Sorted(t)
         /\ \A i \in DOMAIN t : \E j \in DOMAIN s : t[i] = s[j]
         /\ \A j \in DOMAIN s : \E i \in DOMAIN t : t[i] = s[j]
<1>1. CASE ~ changed
  BY <1>1 DEF Sort
<1>2. CASE changed
  <2>1. t \in Shuffles(s) /\ Sorted(t)
    BY <1>2 DEF Sort, Sorted
  <2>2. PICK p \in Bijection(DOMAIN s, DOMAIN s) : t = [i \in DOMAIN s |-> s[p[i]]]
    BY <2>1 DEF Shuffles
  <2> DEFINE D == DOMAIN s
  <2>3. p \in [D -> D] /\ \A i, j \in D : p[i] = p[j] => i = j
       /\ \A w \in D : \E v \in D : p[v] = w
    BY DEF Bijection, Injection, IsInjective, Surjection
  <2>4. D = 1 .. Len(s) /\ Len(s) \in Nat
    OBVIOUS
  <2>5. t \in [1 .. Len(s) -> Entry]
    BY <2>2, <2>3, <2>4
  <2>6. t \in Seq(Entry) /\ DOMAIN t = D
    BY <2>2, <2>4, <2>5
  <2>7. NoTwice(t)
    BY <2>2, <2>3, <2>6 DEF NoTwice
  <2> QED
    BY <2>1, <2>2, <2>3, <2>6, <2>7
<1> QED
  BY <1>1, <1>2

LEMMA LeastNumber ==
  ASSUME NEW T \in SUBSET Nat, T # {}
  PROVE  \E m \in T : \A k \in T : m <= k
<1> DEFINE F == {0 .. k : k \in T}
           R == StrictSubsetOrdering(Nat)
<1>1. \A k \in Nat : 0 .. k \in FiniteSubsetsOf(Nat)
  <2> SUFFICES ASSUME NEW k \in Nat PROVE 0 .. k \in FiniteSubsetsOf(Nat)
    OBVIOUS
  <2>1. IsFiniteSet(0 .. k)
    BY FS_Interval
  <2> QED
    BY <2>1 DEF FiniteSubsetsOf
<1>2. F \subseteq FiniteSubsetsOf(Nat) /\ F # {}
  BY <1>1
<1>3. IsWellFoundedOn(R, FiniteSubsetsOf(Nat))
  BY FS_StrictSubsetOrderingWellFounded
<1>4. PICK x \in F : \A y \in F : ~ (<<y, x>> \in R)
  <2> HIDE DEF F, R
  <2> QED
    BY <1>2, <1>3, WFMin
<1>5. PICK m \in T : x = 0 .. m
  OBVIOUS
<1>6. ASSUME NEW k \in T PROVE m <= k
  <2>1. SUFFICES ASSUME k < m PROVE FALSE
    OBVIOUS
  <2>2. /\ 0 .. k \subseteq 0 .. m /\ m \in 0 .. m /\ m \notin 0 .. k
        /\ 0 .. k \in SUBSET Nat /\ 0 .. m \in SUBSET Nat
    BY <2>1
  <2>3. <<0 .. k, 0 .. m>> \in R
    <3>1. 0 .. k # 0 .. m
      BY <2>2
    <3> QED
      BY <2>2, <3>1 DEF StrictSubsetOrdering
  <2> QED
    BY <1>4, <1>5, <2>3
<1> QED
  BY <1>6

\* Of a sorted list cleanupList erases all entries without aggro, and no other.
LEMMA CleanupKeeps ==
  ASSUME NEW t \in Seq(Entry), NoTwice(t), Sorted(t)
  PROVE  /\ Enemies(Cleanup(t)) /\ Sorted(Cleanup(t))
         /\ \A i \in DOMAIN t : t[i].aggro > 0 => \E j \in DOMAIN Cleanup(t) : Cleanup(t)[j] = t[i]
<1> DEFINE front == {i \in DOMAIN t : \A j \in 1 .. i : t[j].aggro <= 0}
           live == {i \in DOMAIN t : t[i].aggro > 0}
           c == Cardinality(front)
<1>1. DOMAIN t = 1 .. Len(t) /\ Len(t) \in Nat
  OBVIOUS
<1>2. \A i \in DOMAIN t : i \in Nat /\ t[i] \in Entry /\ t[i].aggro \in Nat
  BY EntryIs
<1>3. PICK n \in 0 .. Len(t) : front = 1 .. n /\ live = n + 1 .. Len(t)
  <2>1. CASE live = {}
    <3>1. front = 1 .. Len(t)
      BY <1>1, <1>2, <2>1
    <3>2. live = Len(t) + 1 .. Len(t)
      BY <1>1, <2>1
    <3> QED
      BY <1>1, <3>1, <3>2
  <2>2. CASE live # {}
    <3>1. PICK m \in live : \A k \in live : m <= k
      <4>1. live \in SUBSET Nat
        BY <1>2
      <4> HIDE DEF live
      <4> QED
        BY <2>2, <4>1, LeastNumber
    <3>2. m \in 1 .. Len(t) /\ t[m].aggro > 0 /\ m - 1 \in 0 .. Len(t) /\ m \in Nat
      BY <1>1, <3>1
    <3>3. ASSUME NEW i \in DOMAIN t, i >= m PROVE t[i].aggro > 0
      <4>1. i = m \/ Less(t[m], t[i])
        BY <1>1, <3>2, <3>3 DEF Sorted
      <4>2. t[m].aggro \in Nat /\ t[i].aggro \in Nat
        BY <1>1, <1>2, <3>2
      <4> QED
        BY <3>2, <4>1, <4>2 DEF Less
    <3>4. \A i \in DOMAIN t : i < m => t[i].aggro <= 0
      BY <1>1, <1>2, <3>1, <3>2
    <3>5. live = m .. Len(t)
      BY <1>1, <1>2, <3>2, <3>3, <3>4
    <3>6. front = 1 .. m - 1
      <4>1. ASSUME NEW i \in front PROVE i \in 1 .. m - 1
        <5>1. i \in DOMAIN t /\ \A j \in 1 .. i : t[j].aggro <= 0
          OBVIOUS
        <5>2. ~ (m <= i)
          BY <1>1, <1>2, <3>2, <5>1
        <5> QED
          BY <1>1, <3>2, <5>1, <5>2
      <4>2. ASSUME NEW i \in 1 .. m - 1 PROVE i \in front
        <5>1. i \in DOMAIN t
          BY <1>1, <3>2
        <5>2. \A j \in 1 .. i : j \in DOMAIN t /\ j < m
          BY <1>1, <3>2
        <5> QED
          BY <3>4, <5>1, <5>2
      <4> HIDE DEF front
      <4> QED
        BY <4>1, <4>2
    <3>7. m - 1 + 1 = m
      BY <3>2
    <3> HIDE DEF front, live
    <3> QED
      BY <3>2, <3>5, <3>6, <3>7
  <2> QED
    BY <2>1, <2>2
<1>4. c = n
  <2>1. Cardinality(1 .. n) = n
    BY FS_Interval
  <2> HIDE DEF front
  <2> QED
    BY <1>3, <2>1
<1>5. Cleanup(t) = SubSeq(t, n + 1, Len(t))
  <2>1. Cleanup(t) = SubSeq(t, 1 + c, Len(t))
    BY DEF Cleanup
  <2> HIDE DEF c
  <2> QED
    BY <1>4, <2>1
<1> DEFINE u == Cleanup(t)
<1> HIDE DEF front, c
<1>6. /\ u \in Seq(Entry) /\ DOMAIN u = 1 .. Len(t) - n
      /\ \A i \in DOMAIN u : u[i] = t[n + i] /\ n + i \in DOMAIN t
  BY <1>1, <1>5
<1> HIDE DEF u
<1>7. NoTwice(u)
  BY <1>1, <1>6 DEF NoTwice
<1>8. Sorted(u)
  BY <1>1, <1>6 DEF Sorted
<1>9. Alive(u)
  BY <1>1, <1>3, <1>6 DEF Alive
<1>10. ASSUME NEW i \in DOMAIN t, t[i].aggro > 0 PROVE \E j \in DOMAIN u : u[j] = t[i]
  <2>1. i \in n + 1 .. Len(t)
    BY <1>3, <1>10
  <2>2. i - n \in DOMAIN u /\ n + (i - n) = i
    BY <1>1, <1>6, <2>1
  <2> QED
    BY <1>6, <2>2
<1> QED
  BY <1>6, <1>7, <1>8, <1>9, <1>10 DEF Enemies, u

LEMMA SettleKeeps ==
  ASSUME EnemiesInv, Settle
  PROVE  EnemiesInv'
<1>1. PICK s \in Sort(entries, dirty) : entries' = s /\ dirty' = FALSE /\ reducing' = reducing
  BY DEF Settle
<1>2. /\ s \in Seq(Entry) /\ NoTwice(s) /\ Sorted(s)
      /\ \A i \in DOMAIN s : \E j \in DOMAIN entries : s[i] = entries[j]
  BY SortKeeps DEF EnemiesInv, Enemies
<1>3. Alive(s)
  BY <1>2 DEF EnemiesInv, Enemies, Alive
<1> QED
  BY <1>1, <1>2, <1>3 DEF EnemiesInv, Enemies, Sorted, Alive, NoTwice

LEMMA AddAggroKeeps ==
  ASSUME EnemiesInv, NEW id \in Ids, NEW amount \in 1 .. MaxAggro, NEW reduce \in BOOLEAN,
         AddAggro(id, amount, reduce)
  PROVE  EnemiesInv'
<1>1. dirty' = TRUE /\ reducing' = reducing /\ amount \in 1 .. MaxAggro /\ MaxAggro \in Nat /\ amount > 0
  <2>1. MaxAggro \in Nat
    BY AggroAssumption
  <2>2. amount \in 1 .. MaxAggro /\ amount > 0
    BY <2>1
  <2>3. dirty' = TRUE /\ reducing' = reducing
    BY DEF AddAggro, MarkDirty
  <2> QED
    BY <2>1, <2>2, <2>3
<1>2. /\ entries \in Seq(Entry) /\ NoTwice(entries) /\ Alive(entries) /\ reducing \in BOOLEAN
      /\ DOMAIN entries = 1 .. Len(entries) /\ Len(entries) \in Nat
  BY DEF EnemiesInv, Enemies
<1>3. ASSUME NEW i \in DOMAIN entries, entries[i].id = id, entries[i].aggro + amount <= MaxAggro,
             entries' = [entries EXCEPT ![i] = [id |-> id, aggro |-> entries[i].aggro + amount,
                                                reduced |-> entries[i].reduced \/ reduce]]
      PROVE  Enemies(entries')
  <2> DEFINE e == [id |-> id, aggro |-> entries[i].aggro + amount,
                   reduced |-> entries[i].reduced \/ reduce]
  <2>1. entries[i] \in Entry
    BY <1>2
  <2>2. e \in Entry /\ e.id = entries[i].id /\ e.aggro > 0
    <3>1. /\ entries[i].id \in Ids /\ entries[i].aggro \in 0 .. MaxAggro
          /\ (entries[i].reduced \/ reduce) \in BOOLEAN
      BY <2>1 DEF Entry
    <3>2. entries[i].aggro + amount \in 0 .. MaxAggro /\ entries[i].aggro + amount > 0
      BY <1>1, <1>3, <3>1
    <3> QED
      BY <1>3, <3>1, <3>2 DEF Entry
  <2>3. entries' = [entries EXCEPT ![i] = e]
    BY <1>3
  <2> HIDE DEF e
  <2>4. /\ entries' \in Seq(Entry) /\ DOMAIN entries' = DOMAIN entries /\ entries'[i] = e
        /\ \A j \in DOMAIN entries \ {i} : entries'[j] = entries[j]
    BY <1>2, <2>2, <2>3
  <2>5. \A j \in DOMAIN entries : entries'[j].id = entries[j].id
    BY <2>2, <2>4
  <2>6. NoTwice(entries')
    BY <1>2, <2>4, <2>5 DEF NoTwice
  <2>7. Alive(entries')
    BY <1>2, <2>2, <2>4 DEF Alive
  <2> QED
    BY <2>4, <2>6, <2>7 DEF Enemies
<1>4. ASSUME NEW e \in Entry, \A i \in DOMAIN entries : entries[i].id # e.id, e.aggro > 0,
             entries' = Append(entries, e)
      PROVE  Enemies(entries')
  <2>1. /\ entries' \in Seq(Entry) /\ DOMAIN entries' = 1 .. Len(entries) + 1
        /\ entries'[Len(entries) + 1] = e
        /\ \A j \in DOMAIN entries : entries'[j] = entries[j]
    BY <1>2, <1>4
  <2>2. NoTwice(entries')
    BY <1>2, <1>4, <2>1 DEF NoTwice
  <2>3. Alive(entries')
    BY <1>2, <1>4, <2>1 DEF Alive
  <2> QED
    BY <2>1, <2>2, <2>3 DEF Enemies
<1>5. [id |-> id, aggro |-> amount, reduced |-> reducing \/ reduce] \in Entry
  BY <1>1, <1>2 DEF Entry
<1>6. Enemies(entries')
  <2>1. CASE \E i \in DOMAIN entries :
               /\ entries[i].id = id /\ entries[i].aggro + amount <= MaxAggro
               /\ entries' = [entries EXCEPT ![i] = [id |-> id, aggro |-> entries[i].aggro + amount,
                                                     reduced |-> entries[i].reduced \/ reduce]]
    BY <1>3, <2>1
  <2>2. CASE /\ \A i \in DOMAIN entries : entries[i].id # id
             /\ entries' = Append(entries, [id |-> id, aggro |-> amount, reduced |-> reducing \/ reduce])
    BY <1>1, <1>4, <1>5, <2>2
  <2> QED
    BY <1>2, <2>1, <2>2 DEF AddAggro
<1> QED
  BY <1>1, <1>2, <1>6 DEF EnemiesInv

LEMMA UpdateAggroKeeps ==
  ASSUME EnemiesInv, UpdateAggro
  PROVE  EnemiesInv'
<1> DEFINE D == DOMAIN entries
           changed == dirty \/ \E i \in D : entries[i].reduced
<1>1. PICK s \in [D -> UNION {Reductions(entries[i]) : i \in D}] :
        /\ \A i \in D : s[i] \in Reductions(entries[i])
        /\ \E t \in Sort(s, changed) : entries' = IF changed THEN Cleanup(t) ELSE t
  BY DEF UpdateAggro
<1>2. PICK t \in Sort(s, changed) : entries' = IF changed THEN Cleanup(t) ELSE t
  BY <1>1
<1>3. dirty' = FALSE /\ reducing' = reducing
  BY DEF UpdateAggro
<1>4. /\ entries \in Seq(Entry) /\ NoTwice(entries) /\ Alive(entries) /\ (~ dirty => Sorted(entries))
      /\ D = 1 .. Len(entries) /\ Len(entries) \in Nat /\ dirty \in BOOLEAN /\ reducing \in BOOLEAN
  BY DEF EnemiesInv, Enemies
<1>5. ASSUME NEW i \in D PROVE s[i] \in Entry /\ s[i].id = entries[i].id /\ (~ entries[i].reduced => s[i] = entries[i])
  <2>1. entries[i] \in Entry /\ s[i] \in Reductions(entries[i])
    BY <1>1, <1>4
  <2>2. CASE entries[i].reduced
    <3>1. PICK a \in 0 .. entries[i].aggro : s[i] = [entries[i] EXCEPT !.aggro = a]
      BY <2>1, <2>2 DEF Reductions
    <3>2. a \in 0 .. MaxAggro
      BY <2>1, <3>1, AggroAssumption DEF Entry
    <3> QED
      BY <2>1, <2>2, <3>1, <3>2 DEF Entry
  <2>3. CASE ~ entries[i].reduced
    BY <2>1, <2>3 DEF Reductions
  <2> QED
    BY <2>2, <2>3
<1>6. s \in Seq(Entry) /\ DOMAIN s = D
  <2>1. DOMAIN s = D
    OBVIOUS
  <2>2. s = [i \in D |-> s[i]]
    OBVIOUS
  <2>3. s \in [D -> Entry]
    BY <1>5, <2>2
  <2>4. s \in [1 .. Len(entries) -> Entry]
    BY <1>4, <2>3
  <2>5. \A n \in Nat : \A f \in [1 .. n -> Entry] : f \in Seq(Entry)
    OBVIOUS
  <2>6. s \in Seq(Entry)
    BY <1>4, <2>4, <2>5, Zenon
  <2> QED
    BY <2>1, <2>6
<1>7. NoTwice(s)
  BY <1>4, <1>5, <1>6 DEF NoTwice
<1>8. ASSUME ~ changed PROVE s = entries
  <2>1. \A i \in D : s[i] = entries[i]
    BY <1>5, <1>8
  <2>2. s = [i \in D |-> s[i]] /\ entries = [i \in D |-> entries[i]]
    BY <1>4
  <2> QED
    BY <2>1, <2>2, Zenon
<1>9. changed \in BOOLEAN /\ (changed \/ Sorted(s))
  <2>1. CASE changed
    BY <2>1
  <2>2. CASE ~ changed
    BY <1>4, <1>8, <2>2
  <2> QED
    BY <2>1, <2>2
<1>10. /\ t \in Seq(Entry) /\ NoTwice(t) /\ Sorted(t)
       /\ \A i \in DOMAIN t : \E j \in DOMAIN s : t[i] = s[j]
  <2> HIDE DEF changed
  <2> QED
    BY <1>2, <1>6, <1>7, <1>9, SortKeeps
<1>11. Enemies(entries') /\ Sorted(entries')
  <2>1. CASE changed
    <3>1. entries' = Cleanup(t)
      BY <1>2, <2>1
    <3>2. Enemies(Cleanup(t)) /\ Sorted(Cleanup(t))
      BY <1>10, CleanupKeeps
    <3> QED
      BY <3>1, <3>2, Zenon
  <2>2. CASE ~ changed
    <3>1. entries' = t
      BY <1>2, <2>2
    <3>2. Alive(t)
      BY <1>4, <1>8, <1>10, <2>2 DEF Alive
    <3> QED
      BY <1>10, <3>1, <3>2 DEF Enemies
  <2> QED
    BY <2>1, <2>2
<1> QED
  BY <1>3, <1>4, <1>11 DEF EnemiesInv

LEMMA InitEnemiesInv == Init => EnemiesInv
<1>1. <<>> \in Seq(Entry) /\ DOMAIN <<>> = {}
  OBVIOUS
<1>2. Enemies(<<>>) /\ Sorted(<<>>)
  BY <1>1 DEF Enemies, NoTwice, Alive, Sorted
<1> QED
  BY <1>2 DEF Init, AggroInit, EnemiesInv

LEMMA NextEnemiesInv == EnemiesInv /\ [Next]_vars => EnemiesInv'
<1> SUFFICES ASSUME EnemiesInv, [Next]_vars PROVE EnemiesInv'
  OBVIOUS
<1>1. CASE UNCHANGED aggroVars
  BY <1>1 DEF EnemiesInv, aggroVars
<1>2. ASSUME NEW on \in BOOLEAN, SetReduce(on) PROVE EnemiesInv'
  BY <1>2 DEF SetReduce, EnemiesInv
<1>3. CASE AggroNext
  BY <1>2, <1>3, AddAggroKeeps, UpdateAggroKeeps, SettleKeeps DEF AggroNext
<1>4. ASSUME NEW o, Apply(o) PROVE EnemiesInv'
  BY <1>1, <1>4, SettleKeeps DEF Apply
<1>5. ASSUME NEW c \in Conditions, Evaluate(c) \/ Watch(c) PROVE EnemiesInv'
  BY <1>4, <1>5 DEF Evaluate, Watch
<1>6. CASE Reset
  BY <1>1, <1>6 DEF Reset
<1>7. CASE ChangeAggro
  BY <1>3, <1>7 DEF ChangeAggro
<1>8. CASE World
  BY <1>1, <1>8 DEF World
<1>9. CASE UNCHANGED vars
  BY <1>1, <1>9 DEF vars
<1> QED
  BY <1>5, <1>6, <1>7, <1>8, <1>9 DEF Next, Enter, Leave, JoinGroup

LEMMA EnemiesInvAlways == Spec => []EnemiesInv
BY InitEnemiesInv, NextEnemiesInv, PTL DEF Spec

\* Whoever is asked for is the one with the most aggro, nobody is in the list twice
\* and nobody without aggro is, however the list was changed, reduced and looked at.
THEOREM TheHighestIsFound == Spec => []EnemiesAreRight
<1>1. EnemiesInv => EnemiesAreRight
  <2> SUFFICES ASSUME EnemiesInv PROVE EnemiesAreRight
    OBVIOUS
  <2>1. AggroTypeOK /\ SpentAreGone
    BY DEF EnemiesInv, Enemies, AggroTypeOK, SpentAreGone, Alive
  <2>2. entries \in Seq(Entry) /\ NoTwice(entries) /\ dirty \in BOOLEAN /\ (dirty \/ Sorted(entries))
    BY DEF EnemiesInv, Enemies
  <2>3. ASSUME NEW s \in Sort(entries, dirty), NEW i \in DOMAIN entries
        PROVE  entries[i] = s[Len(s)] \/ Less(entries[i], s[Len(s)])
    <3>1. s \in Seq(Entry) /\ Sorted(s) /\ \E k \in DOMAIN s : s[k] = entries[i]
      BY <2>2, SortKeeps
    <3>2. PICK k \in DOMAIN s : s[k] = entries[i]
      BY <3>1
    <3>3. Len(s) \in DOMAIN s /\ (k = Len(s) \/ k < Len(s))
      BY <3>1
    <3> QED
      BY <3>1, <3>2, <3>3 DEF Sorted
  <2>4. Sort(entries, dirty) # {}
    BY <2>2, SortSucceeds
  <2> QED
    BY <2>1, <2>2, <2>3, <2>4 DEF EnemiesAreRight, HighestIsHighest, NoTwice
<1> QED
  BY <1>1, EnemiesInvAlways, PTL

----------------------------------------------------------------------------
(* Recursion.  A function that is defined by what it is for the parts of   *)
(* its argument exists, and what holds for an argument if it does for its  *)
(* parts holds for all.                                                    *)

\* Part[x] has the parts of x, and nothing is a part of itself, however deep.
WellParted(S, Part) == \A T \in SUBSET S : T # {} => \E x \in T : Part[x] \intersect T = {}

\* What D makes of a function is a function too, and for an argument it depends on
\* the values for the parts only.
Determines(S, V, Part, D) ==
  /\ \A g \in [S -> V] : D[g] \in [S -> V]
  /\ \A g, h \in [S -> V] : \A x \in S :
       (\A y \in Part[x] \intersect S : g[y] = h[y]) => D[g][x] = D[h][x]

LEMMA PartsFirst ==
  ASSUME NEW S, NEW Part, WellParted(S, Part), NEW B,
         \A x \in S : Part[x] \intersect S \subseteq B => x \in B
  PROVE  S \subseteq B
<1> SUFFICES ASSUME S \ B # {} PROVE FALSE
  OBVIOUS
<1>1. PICK x \in S \ B : Part[x] \intersect (S \ B) = {}
  BY DEF WellParted
<1> QED
  BY <1>1

LEMMA RecursionWorks ==
  ASSUME NEW S, NEW V, NEW v \in V, NEW Part, WellParted(S, Part), NEW D,
         Determines(S, V, Part, D)
  PROVE  \E f \in [S -> V] : f = D[f]
<1>0. /\ \A g \in [S -> V] : D[g] \in [S -> V]
      /\ \A g, h \in [S -> V] : \A x \in S :
           (\A y \in Part[x] \intersect S : g[y] = h[y]) => D[g][x] = D[h][x]
  BY DEF Determines
<1> DEFINE Solves(g, T) ==
             /\ g \in [S -> V] /\ T \in SUBSET S
             /\ \A x \in T : Part[x] \intersect S \subseteq T /\ g[x] = D[g][x]
           Reached == {x \in S : \E T \in SUBSET S, g \in [S -> V] : x \in T /\ Solves(g, T)}
           G == [x \in S |-> IF x \in Reached
                             THEN CHOOSE u \in V : \E T \in SUBSET S, g \in [S -> V] : x \in T /\ Solves(g, T) /\ g[x] = u
                             ELSE v]
<1>1. ASSUME NEW g, NEW h, NEW T, NEW U, Solves(g, T), Solves(h, U), NEW x \in T \intersect U
      PROVE  g[x] = h[x]
  <2> DEFINE Bad == {y \in T \intersect U : g[y] # h[y]}
  <2> SUFFICES ASSUME Bad # {} PROVE FALSE
    OBVIOUS
  <2>1. PICK y \in Bad : Part[y] \intersect Bad = {}
    <3>1. Bad \in SUBSET S
      BY <1>1
    <3> HIDE DEF Bad
    <3> QED
      BY <3>1 DEF WellParted
  <2>2. \A z \in Part[y] \intersect S : z \in T \intersect U
    BY <1>1, <2>1
  <2>3. D[g][y] = D[h][y]
    BY <1>0, <1>1, <2>1, <2>2
  <2> QED
    BY <1>1, <2>1, <2>3
<1>2. ASSUME NEW T \in SUBSET S, NEW g \in [S -> V], Solves(g, T), NEW x \in T
      PROVE  x \in Reached /\ G[x] = g[x]
  <2>1. x \in Reached
    BY <1>2
  <2>2. g[x] \in V
    BY <1>2
  <2>3. \E u \in V : \E U \in SUBSET S, h \in [S -> V] : x \in U /\ Solves(h, U) /\ h[x] = u
    BY <1>2, <2>2
  <2>4. PICK U \in SUBSET S, h \in [S -> V] : x \in U /\ Solves(h, U) /\ h[x] = G[x]
    <3> HIDE DEF Solves
    <3> QED
      BY <2>1, <2>3
  <2> HIDE DEF Solves, Reached, G
  <2>5. h[x] = g[x]
    BY <1>1, <1>2, <2>4
  <2> QED
    BY <2>1, <2>4, <2>5
<1>3. G \in [S -> V]
  <2>1. \A x \in Reached : \E u \in V : \E T \in SUBSET S, g \in [S -> V] : x \in T /\ Solves(g, T) /\ g[x] = u
    OBVIOUS
  <2> HIDE DEF Solves, Reached
  <2> QED
    BY <2>1
<1>4. Solves(G, Reached)
  <2>1. ASSUME NEW x \in Reached
        PROVE  Part[x] \intersect S \subseteq Reached /\ G[x] = D[G][x]
    <3>1. PICK T \in SUBSET S, g \in [S -> V] : x \in T /\ Solves(g, T)
      OBVIOUS
    <3>2. \A y \in T : y \in Reached /\ G[y] = g[y]
      <4> HIDE DEF Solves, Reached, G
      <4> QED
        BY <1>2, <3>1
    <3>3. Part[x] \intersect S \subseteq T /\ g[x] = D[g][x]
      BY <3>1
    <3> HIDE DEF Solves, Reached, G
    <3>4. D[G][x] = D[g][x]
      BY <1>0, <1>3, <3>1, <3>2, <3>3
    <3> QED
      BY <3>1, <3>2, <3>3, <3>4
  <2>2. Reached \in SUBSET S
    OBVIOUS
  <2> HIDE DEF Reached, G
  <2> QED
    BY <1>3, <2>1, <2>2
<1>5. S \subseteq Reached
  <2> SUFFICES ASSUME NEW x \in S, Part[x] \intersect S \subseteq Reached PROVE x \in Reached
    <3> HIDE DEF Reached
    <3> QED
      BY PartsFirst
  <2> SUFFICES ASSUME x \notin Reached PROVE FALSE
    OBVIOUS
  <2> DEFINE H == [G EXCEPT ![x] = D[G][x]]
             T == Reached \union {x}
  <2>1. H \in [S -> V] /\ T \in SUBSET S
    <3>1. D[G][x] \in V
      <4> HIDE DEF G
      <4> QED
        BY <1>0, <1>3
    <3>2. Reached \in SUBSET S
      OBVIOUS
    <3> HIDE DEF Reached, G
    <3> QED
      BY <1>3, <3>1, <3>2
  <2>2. \A y \in Reached : H[y] = G[y]
    <3> HIDE DEF Reached, G
    <3> QED
      BY <1>3
  <2>3. ASSUME NEW y \in T
        PROVE  Part[y] \intersect S \subseteq T /\ H[y] = D[H][y]
    <3>1. Part[y] \intersect S \subseteq Reached
      BY <1>4, <2>3
    <3> HIDE DEF Reached, G, H
    <3>2. D[H][y] = D[G][y]
      BY <1>0, <1>3, <2>1, <2>2, <2>3, <3>1
    <3>3. H[y] = D[G][y]
      <4>1. CASE y = x
        BY <1>3, <4>1 DEF H
      <4>2. CASE y \in Reached
        BY <1>4, <2>2, <4>2
      <4> QED
        BY <4>1, <4>2
    <3> QED
      BY <3>1, <3>2, <3>3
  <2>4. Solves(H, T)
    <3> HIDE DEF H, T
    <3> QED
      BY <2>1, <2>3
  <2>5. x \in T /\ T \in SUBSET S /\ H \in [S -> V]
    BY <2>1
  <2> HIDE DEF H, T, Solves
  <2> QED
    BY <2>4, <2>5
<1>6. \A x \in S : G[x] = D[G][x]
  <2> HIDE DEF Reached, G
  <2> QED
    BY <1>4, <1>5
<1>7. G = D[G]
  <2>1. D[G] \in [S -> V]
    BY <1>0, <1>3
  <2> HIDE DEF G
  <2> QED
    BY <1>3, <1>6, <2>1
<1> HIDE DEF G
<1> QED
  BY <1>3, <1>7

\* The same for what is defined by its value at the number before.
LEMMA Counting ==
  ASSUME NEW m \in Nat, NEW n \in Nat, NEW B,
         m <= n => m \in B,
         \A k \in m .. n : k \in B /\ k < n => k + 1 \in B
  PROVE  m .. n \subseteq B
<1> SUFFICES ASSUME (m .. n) \ B # {} PROVE FALSE
  OBVIOUS
<1>1. (m .. n) \ B \in SUBSET Nat
  OBVIOUS
<1>2. PICK k \in (m .. n) \ B : \A j \in (m .. n) \ B : k <= j
  BY <1>1, LeastNumber
<1>3. k # m /\ k - 1 \in m .. n /\ k - 1 < n /\ (k - 1) + 1 = k
  BY <1>2
<1>4. k - 1 \in B
  BY <1>2, <1>3
<1> QED
  BY <1>2, <1>3, <1>4

CountsOn(m, n, V, D) ==
  /\ \A g \in [m .. n -> V] : D[g] \in [m .. n -> V]
  /\ \A g, h \in [m .. n -> V] : \A k \in m .. n :
       (k = m \/ g[k - 1] = h[k - 1]) => D[g][k] = D[h][k]

LEMMA CountingDefines ==
  ASSUME NEW m \in Nat, NEW n \in Nat, NEW V, NEW v \in V, NEW D, CountsOn(m, n, V, D)
  PROVE  \E f \in [m .. n -> V] : f = D[f]
<1> DEFINE Part == [k \in m .. n |-> {k - 1}]
<1>1. WellParted(m .. n, Part)
  <2> SUFFICES ASSUME NEW T \in SUBSET (m .. n), T # {} PROVE \E x \in T : Part[x] \intersect T = {}
    BY DEF WellParted
  <2>1. PICK k \in T : \A j \in T : k <= j
    <3>1. T \in SUBSET Nat
      OBVIOUS
    <3> QED
      BY <3>1, LeastNumber
  <2>2. k - 1 \notin T
    BY <2>1
  <2> QED
    BY <2>1, <2>2
<1>2. ASSUME NEW g \in [m .. n -> V], NEW h \in [m .. n -> V], NEW k \in m .. n,
             \A y \in Part[k] \intersect (m .. n) : g[y] = h[y]
      PROVE  D[g][k] = D[h][k]
  <2>1. k = m \/ k - 1 \in m .. n
    OBVIOUS
  <2>2. k = m \/ g[k - 1] = h[k - 1]
    BY <1>2, <2>1
  <2> QED
    BY <2>2 DEF CountsOn
<1> DEFINE S == m .. n
<1>3. Determines(S, V, Part, D)
  BY <1>2 DEF Determines, CountsOn
<1>4. WellParted(S, Part)
  BY <1>1
<1> HIDE DEF Part, S
<1>5. \E f \in [S -> V] : f = D[f]
  BY <1>3, <1>4, RecursionWorks
<1> QED
  BY <1>5 DEF S

\* What begins with b and goes on by E, which is given a number and what there was
\* for the number before.
StepsIn(m, n, V, b, E) == b \in V /\ E \in [(m + 1 .. n) \X V -> V]
Follows(f, m, n, b, E) == \A k \in m .. n : f[k] = IF k = m THEN b ELSE E[<<k, f[k - 1]>>]

LEMMA StepByStep ==
  ASSUME NEW m \in Nat, NEW n \in Nat, NEW V, NEW b, NEW E, StepsIn(m, n, V, b, E)
  PROVE  \E f \in [m .. n -> V] : Follows(f, m, n, b, E)
<1>0. b \in V /\ E \in [(m + 1 .. n) \X V -> V]
  BY DEF StepsIn
<1> DEFINE At(g, k) == IF k = m THEN b ELSE E[<<k, g[k - 1]>>]
           D == [g \in [m .. n -> V] |-> [k \in m .. n |-> At(g, k)]]
<1>1. ASSUME NEW g \in [m .. n -> V], NEW k \in m .. n PROVE At(g, k) \in V
  <2>1. k = m \/ (k - 1 \in m .. n /\ k \in m + 1 .. n)
    OBVIOUS
  <2>2. k = m \/ <<k, g[k - 1]>> \in (m + 1 .. n) \X V
    BY <2>1
  <2> QED
    BY <1>0, <2>2
<1>2. ASSUME NEW g \in [m .. n -> V], NEW h \in [m .. n -> V], NEW k \in m .. n,
             k = m \/ g[k - 1] = h[k - 1]
      PROVE  At(g, k) = At(h, k)
  BY <1>2
<1> HIDE DEF At
<1>3. ASSUME NEW g \in [m .. n -> V]
      PROVE  D[g] \in [m .. n -> V] /\ \A k \in m .. n : D[g][k] = At(g, k)
  <2>1. D[g] = [k \in m .. n |-> At(g, k)]
    OBVIOUS
  <2> HIDE DEF D
  <2> QED
    BY <1>1, <2>1
<1> HIDE DEF D
<1>4. CountsOn(m, n, V, D)
  BY <1>2, <1>3 DEF CountsOn
<1>5. PICK f \in [m .. n -> V] : f = D[f]
  BY <1>0, <1>4, CountingDefines
<1>6. \A k \in m .. n : f[k] = At(f, k)
  BY <1>3, <1>5
<1> QED
  BY <1>6 DEF At, Follows

----------------------------------------------------------------------------
(* Lists                                                                   *)

LEMMA Put ==
  ASSUME NEW A, NEW s \in Seq(A), NEW t \in Seq(A)
  PROVE  s \o t \in Seq(A) /\ ToSet(s \o t) = ToSet(s) \union ToSet(t)
<1>1. s \o t \in Seq(A) /\ Len(s \o t) = Len(s) + Len(t)
  OBVIOUS
<1>2. \A i \in 1 .. Len(s) : (s \o t)[i] = s[i]
  OBVIOUS
<1>3. \A i \in 1 .. Len(t) : (s \o t)[Len(s) + i] = t[i]
  OBVIOUS
<1>4. Len(s) \in Nat /\ Len(t) \in Nat /\ DOMAIN s = 1 .. Len(s) /\ DOMAIN t = 1 .. Len(t) /\ DOMAIN (s \o t) = 1 .. Len(s) + Len(t)
  BY <1>1
<1>5. ToSet(s \o t) \subseteq ToSet(s) \union ToSet(t)
  <2> SUFFICES ASSUME NEW i \in 1 .. Len(s) + Len(t) PROVE (s \o t)[i] \in ToSet(s) \union ToSet(t)
    BY <1>4 DEF ToSet
  <2>1. CASE i <= Len(s)
    BY <1>2, <1>4, <2>1 DEF ToSet
  <2>2. CASE i > Len(s)
    <3>1. i - Len(s) \in 1 .. Len(t) /\ Len(s) + (i - Len(s)) = i
      BY <1>4, <2>2
    <3> QED
      BY <1>3, <1>4, <3>1 DEF ToSet
  <2> QED
    BY <1>4, <2>1, <2>2
<1>6. ToSet(s) \subseteq ToSet(s \o t)
  BY <1>2, <1>4 DEF ToSet
<1>7. ToSet(t) \subseteq ToSet(s \o t)
  <2> SUFFICES ASSUME NEW i \in 1 .. Len(t) PROVE t[i] \in ToSet(s \o t)
    BY <1>4 DEF ToSet
  <2>1. Len(s) + i \in 1 .. Len(s) + Len(t)
    BY <1>4
  <2> QED
    BY <1>3, <1>4, <2>1 DEF ToSet
<1> QED
  BY <1>1, <1>5, <1>6, <1>7

LEMMA ConcatenatesAll ==
  ASSUME NEW A, NEW seqs \in Seq(Seq(A)), seqs # <<>>
  PROVE  /\ FlattenSeq(seqs) \in Seq(A)
         /\ \A x : x \in ToSet(FlattenSeq(seqs)) <=> \E i \in DOMAIN seqs : x \in ToSet(seqs[i])
<1> DEFINE n == Len(seqs)
           V == Seq(A)
           E == [p \in (1 + 1 .. n) \X V |-> p[2] \o seqs[p[1]]]
           F == CHOOSE f : f = [i \in 1 .. n |-> IF i = 1 THEN seqs[i] ELSE f[i - 1] \o seqs[i]]
<1>1. n \in Nat /\ n > 0 /\ DOMAIN seqs = 1 .. n /\ \A i \in 1 .. n : seqs[i] \in V
  OBVIOUS
<1>2. ASSUME NEW i \in 1 + 1 .. n, NEW s \in V
      PROVE  E[<<i, s>>] = s \o seqs[i] /\ E[<<i, s>>] \in V
  <2>1. i \in 1 .. n /\ seqs[i] \in V
    BY <1>1
  <2>2. E[<<i, s>>] = s \o seqs[i]
    OBVIOUS
  <2> HIDE DEF E
  <2> QED
    BY <2>1, <2>2, Put
<1>3. E \in [(1 + 1 .. n) \X V -> V]
  BY <1>2
<1>4. F = [i \in 1 .. n |-> IF i = 1 THEN seqs[i] ELSE F[i - 1] \o seqs[i]]
  <2>1. PICK f \in [1 .. n -> V] : \A i \in 1 .. n : f[i] = IF i = 1 THEN seqs[1] ELSE E[<<i, f[i - 1]>>]
    <3>1. StepsIn(1, n, V, seqs[1], E)
      BY <1>1, <1>3 DEF StepsIn
    <3> HIDE DEF n, V, E
    <3>2. \E f \in [1 .. n -> V] : Follows(f, 1, n, seqs[1], E)
      BY <1>1, <3>1, StepByStep
    <3> QED
      BY <3>2 DEF Follows
  <2>2. ASSUME NEW i \in 1 .. n
        PROVE  f[i] = IF i = 1 THEN seqs[i] ELSE f[i - 1] \o seqs[i]
    <3>1. i = 1 \/ (i - 1 \in 1 .. n /\ i \in 1 + 1 .. n)
      OBVIOUS
    <3> QED
      BY <1>2, <2>1, <3>1
  <2>3. f = [i \in 1 .. n |-> IF i = 1 THEN seqs[i] ELSE f[i - 1] \o seqs[i]]
    BY <2>2
  <2> QED
    BY <2>3
<1>5. FlattenSeq(seqs) = F[n]
  BY <1>1 DEF FlattenSeq
<1> HIDE DEF F, n, V, E
<1> DEFINE B == {k \in 1 .. n : F[k] \in V /\ \A x : x \in ToSet(F[k]) <=> \E i \in 1 .. k : x \in ToSet(seqs[i])}
<1>6. 1 \in B
  <2>1. F[1] = seqs[1] /\ 1 \in 1 .. n
    BY <1>1, <1>4
  <2>2. \A i \in 1 .. 1 : i = 1
    OBVIOUS
  <2> QED
    BY <1>1, <2>1, <2>2
<1>7. ASSUME NEW k \in 1 .. n, k \in B, k < n PROVE k + 1 \in B
  <2>1. F[k + 1] = F[k] \o seqs[k + 1] /\ k + 1 \in 1 .. n
    <3>1. k + 1 \in 1 .. n /\ k + 1 # 1 /\ (k + 1) - 1 = k
      BY <1>1, <1>7
    <3> QED
      BY <1>4, <3>1
  <2>2. F[k] \in V /\ seqs[k + 1] \in V
    BY <1>1, <1>7, <2>1
  <2>3. F[k + 1] \in V /\ ToSet(F[k + 1]) = ToSet(F[k]) \union ToSet(seqs[k + 1])
    BY <2>1, <2>2, Put DEF V
  <2>4. \A i : i \in 1 .. k + 1 <=> i \in 1 .. k \/ i = k + 1
    BY <1>1
  <2> QED
    BY <1>7, <2>1, <2>3, <2>4
<1>8. n \in B
  <2> HIDE DEF B
  <2>1. 1 .. n \subseteq B
    BY <1>1, <1>6, <1>7, Counting
  <2> QED
    BY <1>1, <2>1
<1> QED
  BY <1>1, <1>5, <1>8 DEF V

\* A choice of one result for each sub filter is what SubResults has.
LEMMA SubResultsAre ==
  ASSUME NEW W, NEW from, NEW f \in Filters, \A g \in ToSet(f.subs) : from[g] \in SUBSET Seq(W)
  PROVE  \A r : r \in SubResults(from, f) <=>
           /\ r \in Seq(Seq(W)) /\ Len(r) = Len(f.subs)
           /\ \A i \in 1 .. Len(f.subs) : r[i] \in from[f.subs[i]]
<1> DEFINE n == Len(f.subs)
           V == SUBSET Seq(Seq(W))
           Longer(k, R) == {Append(r, s) : r \in R, s \in from[f.subs[k]]}
           E == [p \in (0 + 1 .. n) \X V |-> Longer(p[1], p[2])]
           F == CHOOSE g : g = [k \in 0 .. n |-> IF k = 0 THEN {<<>>} ELSE Longer(k, g[k - 1])]
<1>1. n \in Nat /\ \A i \in 1 .. n : f.subs[i] \in Filters /\ from[f.subs[i]] \in SUBSET Seq(W)
  <2>1. f.subs \in Seq(Filters)
    BY SelectionAssumption
  <2>2. \A i \in 1 .. n : f.subs[i] \in ToSet(f.subs)
    BY <2>1 DEF ToSet
  <2> QED
    BY <2>1, <2>2
<1>2. ASSUME NEW i \in 1 .. n, NEW R \in V PROVE Longer(i, R) \in V
  <2>2. ASSUME NEW r \in R, NEW s \in from[f.subs[i]] PROVE Append(r, s) \in Seq(Seq(W))
    <3>1. r \in Seq(Seq(W)) /\ s \in Seq(W)
      BY <1>1
    <3> QED
      BY <3>1
  <2>3. \A q \in Longer(i, R) : \E r \in R, s \in from[f.subs[i]] : q = Append(r, s)
    OBVIOUS
  <2> HIDE DEF Longer
  <2>4. Longer(i, R) \subseteq Seq(Seq(W))
    BY <2>2, <2>3
  <2> QED
    BY <2>4
<1>5. SubResults(from, f) = F[n]
  BY <1>1 DEF SubResults
<1>3. \A k, R, r : r \in Longer(k, R) <=> \E q \in R, s \in from[f.subs[k]] : r = Append(q, s)
  OBVIOUS
<1> HIDE DEF Longer
<1>4. F = [k \in 0 .. n |-> IF k = 0 THEN {<<>>} ELSE Longer(k, F[k - 1])]
  <2>1. StepsIn(0, n, V, {<<>>}, E)
    <3>1. \A i \in 0 + 1 .. n : i \in 1 .. n
      OBVIOUS
    <3>2. {<<>>} \in V
      OBVIOUS
    <3> HIDE DEF n, V
    <3> QED
      BY <1>2, <3>1, <3>2 DEF StepsIn
  <2>2. PICK g \in [0 .. n -> V] : Follows(g, 0, n, {<<>>}, E)
    <3> HIDE DEF n, V, E
    <3> QED
      BY <1>1, <2>1, StepByStep
  <2>3. ASSUME NEW i \in 0 .. n
        PROVE  g[i] = IF i = 0 THEN {<<>>} ELSE Longer(i, g[i - 1])
    <3>1. i = 0 \/ (i - 1 \in 0 .. n /\ i \in 0 + 1 .. n)
      OBVIOUS
    <3> HIDE DEF n, V
    <3>2. i = 0 \/ E[<<i, g[i - 1]>>] = Longer(i, g[i - 1])
      BY <2>2, <3>1
    <3> HIDE DEF E
    <3> QED
      BY <2>2, <3>2 DEF Follows
  <2>4. g = [k \in 0 .. n |-> IF k = 0 THEN {<<>>} ELSE Longer(k, g[k - 1])]
    <3> HIDE DEF n, V
    <3> QED
      BY <2>3
  <2> HIDE DEF n
  <2> QED
    BY <2>4
<1> HIDE DEF F, n, V, E
<1> DEFINE Fits(r, k) == r \in Seq(Seq(W)) /\ Len(r) = k /\ \A i \in 1 .. k : r[i] \in from[f.subs[i]]
           B == {k \in 0 .. n : \A r : r \in F[k] <=> Fits(r, k)}
<1>6. 0 \in B
  <2>1. F[0] = {<<>>} /\ 0 \in 0 .. n
    BY <1>1, <1>4
  <2>2. \A r \in Seq(Seq(W)) : Len(r) = 0 <=> r = <<>>
    OBVIOUS
  <2>3. <<>> \in Seq(Seq(W)) /\ Len(<<>>) = 0 /\ 1 .. 0 = {}
    OBVIOUS
  <2> QED
    BY <2>1, <2>2, <2>3
<1>7. ASSUME NEW k \in 0 .. n, k \in B, k < n PROVE k + 1 \in B
  <2>1. F[k + 1] = Longer(k + 1, F[k]) /\ k + 1 \in 0 .. n /\ k + 1 \in 1 .. n /\ k \in Nat
    <3>1. k + 1 \in 0 .. n /\ k + 1 # 0 /\ (k + 1) - 1 = k /\ k + 1 \in 1 .. n
      BY <1>1, <1>7
    <3>2. \A i \in 0 .. n : F[i] = IF i = 0 THEN {<<>>} ELSE Longer(i, F[i - 1])
      BY <1>4
    <3> QED
      BY <3>1, <3>2
  <2>2. ASSUME NEW q, Fits(q, k), NEW s \in from[f.subs[k + 1]] PROVE Fits(Append(q, s), k + 1)
    <3>1. s \in Seq(W)
      BY <1>1, <2>1
    <3>2. Append(q, s) \in Seq(Seq(W)) /\ Len(Append(q, s)) = k + 1 /\ Append(q, s)[k + 1] = s
      BY <2>2, <3>1
    <3>3. \A i \in 1 .. k : Append(q, s)[i] = q[i]
      BY <2>2, <3>1
    <3>4. \A i \in 1 .. k + 1 : i \in 1 .. k \/ i = k + 1
      OBVIOUS
    <3> QED
      BY <2>2, <3>2, <3>3, <3>4
  <2>3. ASSUME NEW r, Fits(r, k + 1)
        PROVE  \E q, s : Fits(q, k) /\ s \in from[f.subs[k + 1]] /\ r = Append(q, s)
    <3> DEFINE q == [i \in 1 .. k |-> r[i]]
    <3>1. r \in Seq(Seq(W)) /\ Len(r) = k + 1 /\ DOMAIN r = 1 .. k + 1
      BY <2>1, <2>3
    <3>2. \A i \in 1 .. k + 1 : r[i] \in Seq(W)
      BY <3>1
    <3>3. q \in [1 .. k -> Seq(W)]
      BY <2>1, <3>2
    <3>4. q \in Seq(Seq(W)) /\ Len(q) = k
      BY <2>1, <3>3
    <3>5. Fits(q, k)
      BY <2>1, <2>3, <3>4
    <3>6. r = Append(q, r[k + 1])
      BY <2>1, <3>1, <3>2, <3>4
    <3>7. r[k + 1] \in from[f.subs[k + 1]]
      BY <2>1, <2>3
    <3> QED
      BY <3>5, <3>6, <3>7
  <2> HIDE DEF Fits
  <2>4. \A r : r \in F[k + 1] <=> \E q, s : q \in F[k] /\ s \in from[f.subs[k + 1]] /\ r = Append(q, s)
    BY <1>3, <2>1
  <2>5. \A q : q \in F[k] <=> Fits(q, k)
    BY <1>7
  <2>6. \A r : r \in F[k + 1] <=> Fits(r, k + 1)
    <3>1. ASSUME NEW r, r \in F[k + 1] PROVE Fits(r, k + 1)
      <4>1. PICK q, s : q \in F[k] /\ s \in from[f.subs[k + 1]] /\ r = Append(q, s)
        BY <2>4, <3>1
      <4>2. Fits(q, k)
        BY <2>5, <4>1
      <4> QED
        BY <2>2, <4>1, <4>2
    <3>2. ASSUME NEW r, Fits(r, k + 1) PROVE r \in F[k + 1]
      <4>1. PICK q, s : Fits(q, k) /\ s \in from[f.subs[k + 1]] /\ r = Append(q, s)
        BY <2>3, <3>2
      <4> QED
        BY <2>4, <2>5, <4>1
    <3> QED
      BY <3>1, <3>2
  <2> QED
    BY <2>1, <2>6
<1>8. n \in B
  <2> HIDE DEF B
  <2>1. 0 .. n \subseteq B
    BY <1>1, <1>6, <1>7, Counting
  <2> QED
    BY <1>1, <2>1
<1> QED
  BY <1>1, <1>5, <1>8 DEF n

----------------------------------------------------------------------------
(* Set operations                                                          *)

LEMMA ValuesAre == /\ Garbage \in Nat /\ Nobody \in Nat /\ Nobody \in Values /\ Garbage \in Values
                   /\ Ids \subseteq Values /\ Values \subseteq Nat /\ Values = 0 .. Garbage
<1>1. Ids \subseteq Nat /\ \E i \in Ids : \A j \in Ids : j <= i
  BY AggroAssumption, SelectionAssumption
<1>2. PICK i \in Ids : i = (CHOOSE k \in Ids : \A j \in Ids : j <= k) /\ \A j \in Ids : j <= i
  BY <1>1
<1>3. Garbage = 1 + i
  BY <1>2 DEF Garbage
<1>4. i \in Nat /\ \A j \in Ids : j \in Nat /\ j <= 1 + i
  <2>1. i \in Nat /\ \A j \in Ids : j \in Nat
    BY <1>1
  <2>2. \A j \in Ids : j <= i
    BY <1>2
  <2> QED
    BY <2>1, <2>2
<1>5. Garbage \in Nat /\ \A j \in Ids : j \in 0 .. Garbage
  BY <1>3, <1>4
<1> QED
  BY <1>5 DEF Values, Nobody

LEMMA TimesIs ==
  ASSUME NEW A, NEW s \in Seq(A), NEW x
  PROVE  Times(s, x) \in Nat /\ (Times(s, x) > 0 <=> x \in ToSet(s))
<1> DEFINE T == {i \in DOMAIN s : s[i] = x}
<1>1. IsFiniteSet(1 .. Len(s)) /\ DOMAIN s = 1 .. Len(s)
  BY FS_Interval
<1>2. IsFiniteSet(T)
  BY <1>1, FS_Subset
<1>3. Cardinality(T) \in Nat /\ (Cardinality(T) = 0 <=> T = {})
  BY <1>2, FS_CardinalityType, FS_EmptySet
<1>4. T = {} <=> x \notin ToSet(s)
  BY DEF ToSet
<1> QED
  BY <1>3, <1>4 DEF Times

LEMMA MeetIs ==
  ASSUME NEW type \in SetOperations, NEW m \in Nat, NEW n \in Nat
  PROVE  /\ Meet(type, m, n) \in Nat
         /\ Meet(type, m, n) <= m \/ Meet(type, m, n) <= n
         /\ type = "Union" => Meet(type, m, n) = IF m > n THEN m ELSE n
         /\ type = "Intersection" => Meet(type, m, n) = IF m < n THEN m ELSE n
         /\ type \notin {"Union", "Intersection"} => Meet(type, m, n) = IF m > n THEN m - n ELSE 0
BY DEF Meet, SetOperations, Largest, Least, Rest, RestOfAll

LEMMA LongestIs ==
  ASSUME NEW A, NEW lists \in Seq(Seq(A)), lists # <<>>
  PROVE  \E n \in {Len(lists[i]) : i \in DOMAIN lists} : n \in Nat /\ \A i \in DOMAIN lists : Len(lists[i]) <= n
<1> DEFINE B == {k \in 1 .. Len(lists) : \E j \in 1 .. k : \A i \in 1 .. k : Len(lists[i]) <= Len(lists[j])}
<1>1. Len(lists) \in Nat /\ Len(lists) > 0 /\ DOMAIN lists = 1 .. Len(lists)
  OBVIOUS
<1>2. \A i \in 1 .. Len(lists) : Len(lists[i]) \in Nat
  BY <1>1
<1>3. 1 \in B
  <2>1. 1 \in 1 .. Len(lists) /\ \A i \in 1 .. 1 : i = 1
    BY <1>1
  <2> QED
    BY <1>2, <2>1
<1>4. ASSUME NEW k \in 1 .. Len(lists), k \in B, k < Len(lists) PROVE k + 1 \in B
  <2>1. PICK j \in 1 .. k : \A i \in 1 .. k : Len(lists[i]) <= Len(lists[j])
    BY <1>4
  <2>2. k + 1 \in 1 .. Len(lists) /\ \A i \in 1 .. k + 1 : i \in 1 .. Len(lists) /\ (i \in 1 .. k \/ i = k + 1)
    BY <1>1, <1>4
  <2>3. CASE Len(lists[k + 1]) <= Len(lists[j])
    <3>1. j \in 1 .. k + 1
      BY <1>4
    <3> QED
      BY <2>1, <2>2, <2>3, <3>1
  <2>4. CASE Len(lists[k + 1]) > Len(lists[j])
    <3>1. ASSUME NEW i \in 1 .. k + 1 PROVE Len(lists[i]) <= Len(lists[k + 1])
      <4>1. Len(lists[i]) \in Nat /\ Len(lists[j]) \in Nat /\ Len(lists[k + 1]) \in Nat
        BY <1>2, <2>2, <1>4
      <4> QED
        BY <2>1, <2>2, <2>4, <4>1
    <3>2. k + 1 \in 1 .. k + 1
      BY <1>4
    <3> QED
      BY <2>2, <3>1, <3>2
  <2>5. Len(lists[k + 1]) \in Nat /\ Len(lists[j]) \in Nat
    BY <1>2, <1>4, <2>2
  <2> QED
    BY <2>3, <2>4, <2>5
<1>5. 1 .. Len(lists) \subseteq B
  <2> HIDE DEF B
  <2> QED
    BY <1>1, <1>3, <1>4, Counting
<1>6. Len(lists) \in B
  <2> HIDE DEF B
  <2> QED
    BY <1>1, <1>5
<1>7. PICK j \in 1 .. Len(lists) : \A i \in 1 .. Len(lists) : Len(lists[i]) <= Len(lists[j])
  BY <1>6
<1> QED
  BY <1>1, <1>2, <1>7

\* How often a value occurs in the result is counted list by list.
CountsUp(type, lists, x, max, count) ==
  /\ Occurs(type, lists, x) = count[Len(lists)]
  /\ count[2] = Meet(type, Times(lists[1], x), Times(lists[2], x)) + IF x = Nobody THEN max ELSE 0
  /\ \A k \in 3 .. Len(lists) : count[k] = Meet(type, count[k - 1], Times(lists[k], x))

LEMMA OccursIs ==
  ASSUME NEW type \in SetOperations, NEW A, NEW lists \in Seq(Seq(A)), Len(lists) > 1, NEW x
  PROVE  \E max \in Nat : \E count \in [2 .. Len(lists) -> Nat] : CountsUp(type, lists, x, max, count)
<1> DEFINE n == Len(lists)
           max == CHOOSE m \in {Len(lists[i]) : i \in DOMAIN lists} : \A i \in DOMAIN lists : Len(lists[i]) <= m
           b == Meet(type, Times(lists[1], x), Times(lists[2], x)) + IF x = Nobody THEN max ELSE 0
           NextOf(k, c) == Meet(type, c, Times(lists[k], x))
           E == [p \in (2 + 1 .. n) \X Nat |-> NextOf(p[1], p[2])]
           F == CHOOSE f : f = [k \in 2 .. n |-> IF k = 2 THEN b ELSE NextOf(k, f[k - 1])]
<1>1. n \in Nat /\ n > 1 /\ lists # <<>> /\ \A i \in 1 .. n : lists[i] \in Seq(A)
  OBVIOUS
<1>2. max \in Nat
  <2>1. \E m \in {Len(lists[i]) : i \in DOMAIN lists} : m \in Nat /\ \A i \in DOMAIN lists : Len(lists[i]) <= m
    BY <1>1, LongestIs
  <2>2. max \in {Len(lists[i]) : i \in DOMAIN lists}
    BY <2>1
  <2> HIDE DEF max
  <2>3. \A m \in {Len(lists[i]) : i \in DOMAIN lists} : m \in Nat
    BY <1>1
  <2> QED
    BY <2>2, <2>3
<1>3. \A k \in 1 .. n : Times(lists[k], x) \in Nat
  BY <1>1, TimesIs
<1>4. Occurs(type, lists, x) = F[n]
  BY DEF Occurs
<1> HIDE DEF max
<1>5. b \in Nat /\ \A k \in 1 .. n, c \in Nat : NextOf(k, c) \in Nat
  <2>1. 1 \in 1 .. n /\ 2 \in 1 .. n
    BY <1>1
  <2>2. Meet(type, Times(lists[1], x), Times(lists[2], x)) \in Nat
    BY <1>3, <2>1, MeetIs
  <2>3. b \in Nat
    BY <1>2, <2>2
  <2>4. \A k \in 1 .. n, c \in Nat : NextOf(k, c) \in Nat
    BY <1>3, MeetIs
  <2> QED
    BY <2>3, <2>4
<1> HIDE DEF n, b, NextOf
<1>6. StepsIn(2, n, Nat, b, E)
  <2>1. \A i \in 2 + 1 .. n : i \in 1 .. n
    BY <1>1
  <2> QED
    BY <1>5, <2>1 DEF StepsIn
<1>7. PICK f \in [2 .. n -> Nat] : Follows(f, 2, n, b, E)
  <2> HIDE DEF E
  <2> QED
    BY <1>1, <1>6, StepByStep
<1>8. ASSUME NEW k \in 2 .. n PROVE f[k] = IF k = 2 THEN b ELSE NextOf(k, f[k - 1])
  <2>1. k = 2 \/ (k - 1 \in 2 .. n /\ k \in 2 + 1 .. n)
    BY <1>1
  <2>2. k = 2 \/ E[<<k, f[k - 1]>>] = NextOf(k, f[k - 1])
    BY <1>7, <2>1
  <2> HIDE DEF E
  <2> QED
    BY <1>7, <2>2 DEF Follows
<1>9. f = [k \in 2 .. n |-> IF k = 2 THEN b ELSE NextOf(k, f[k - 1])]
  <2> HIDE DEF E
  <2> QED
    BY <1>8
<1>10. F = [k \in 2 .. n |-> IF k = 2 THEN b ELSE NextOf(k, F[k - 1])]
  BY <1>9
<1> HIDE DEF F, E
<1>11. \A k \in 2 .. n : F[k] = IF k = 2 THEN b ELSE NextOf(k, F[k - 1])
  BY <1>10
<1> DEFINE B == {k \in 2 .. n : F[k] \in Nat}
<1>12. 2 \in B
  <2>1. 2 \in 2 .. n
    BY <1>1
  <2>2. F[2] = b
    BY <1>11, <2>1
  <2> QED
    BY <1>5, <2>1, <2>2
<1>13. ASSUME NEW k \in 2 .. n, k \in B, k < n PROVE k + 1 \in B
  <2>1. k + 1 \in 2 .. n /\ k + 1 # 2 /\ (k + 1) - 1 = k /\ k + 1 \in 1 .. n
    BY <1>1, <1>13
  <2>2. F[k + 1] = NextOf(k + 1, F[k])
    BY <1>11, <2>1
  <2> QED
    BY <1>5, <1>13, <2>1, <2>2
<1>14. \A k \in 2 .. n : F[k] \in Nat
  <2> HIDE DEF B
  <2>1. 2 .. n \subseteq B
    BY <1>1, <1>12, <1>13, Counting
  <2> QED
    BY <2>1 DEF B
<1>15. F \in [2 .. n -> Nat]
  BY <1>10, <1>14
<1>16. F[2] = b /\ \A k \in 3 .. n : F[k] = NextOf(k, F[k - 1])
  <2>1. 2 \in 2 .. n /\ \A k \in 3 .. n : k \in 2 .. n /\ k # 2
    BY <1>1
  <2> QED
    BY <1>11, <2>1
<1> QED
  BY <1>2, <1>4, <1>15, <1>16 DEF n, b, NextOf, CountsUp

\* A value is in the result only if it is in a list, or is what the result is padded with.
LEMMA OccursSomewhere ==
  ASSUME NEW type \in SetOperations, NEW A, NEW lists \in Seq(Seq(A)), Len(lists) > 1, NEW x,
         x # Nobody, \A i \in DOMAIN lists : x \notin ToSet(lists[i])
  PROVE  Occurs(type, lists, x) = 0
<1>0. PICK max \in Nat, count \in [2 .. Len(lists) -> Nat] : CountsUp(type, lists, x, max, count)
  BY OccursIs
<1>1. /\ Occurs(type, lists, x) = count[Len(lists)]
      /\ count[2] = Meet(type, Times(lists[1], x), Times(lists[2], x)) + IF x = Nobody THEN max ELSE 0
      /\ \A k \in 3 .. Len(lists) : count[k] = Meet(type, count[k - 1], Times(lists[k], x))
  BY <1>0 DEF CountsUp
<1>2. /\ Len(lists) \in Nat /\ DOMAIN lists = 1 .. Len(lists)
      /\ \A i \in 1 .. Len(lists) : lists[i] \in Seq(A)
  OBVIOUS
<1>3. \A i \in 1 .. Len(lists) : Times(lists[i], x) = 0
  <2> SUFFICES ASSUME NEW i \in 1 .. Len(lists) PROVE Times(lists[i], x) = 0
    OBVIOUS
  <2>1. lists[i] \in Seq(A) /\ x \notin ToSet(lists[i])
    BY <1>2
  <2>2. Times(lists[i], x) \in Nat /\ ~ (Times(lists[i], x) > 0)
    BY <2>1, TimesIs
  <2> QED
    BY <2>2
<1>4. Meet(type, 0, 0) = 0
  BY MeetIs
<1> DEFINE B == {k \in 2 .. Len(lists) : count[k] = 0}
<1>5. 2 \in B
  BY <1>1, <1>2, <1>3, <1>4
<1>6. ASSUME NEW k \in 2 .. Len(lists), k \in B, k < Len(lists) PROVE k + 1 \in B
  <2>1. k + 1 \in 3 .. Len(lists) /\ k + 1 \in 2 .. Len(lists) /\ k + 1 \in 1 .. Len(lists) /\ (k + 1) - 1 = k
    BY <1>2, <1>6
  <2> QED
    BY <1>1, <1>3, <1>4, <1>6, <2>1
<1>7. 2 .. Len(lists) \subseteq B
  <2> HIDE DEF B
  <2> QED
    BY <1>2, <1>5, <1>6, Counting
<1>8. Len(lists) \in 2 .. Len(lists)
  BY <1>2
<1> QED
  BY <1>1, <1>7, <1>8

\* A result of a set operation has what occurs in it, and nothing from elsewhere.
LEMMA CombineIs ==
  ASSUME NEW type \in SetOperations, NEW W \in SUBSET Values, Nobody \in W,
         NEW lists \in Seq(Seq(W)), Len(lists) > 1
  PROVE  /\ Combine(type, lists) \in Seq(W)
         /\ \A x \in Values : x \in ToSet(Combine(type, lists)) <=> Occurs(type, lists, x) > 0
<1> DEFINE block(x) == [i \in 1 .. Occurs(type, lists, x) |-> x]
           blocks == [x \in 1 .. Garbage + 1 |-> block(x - 1)]
<1>1. \A x : Occurs(type, lists, x) \in Nat
  <2> SUFFICES ASSUME NEW x PROVE Occurs(type, lists, x) \in Nat
    OBVIOUS
  <2>1. PICK count \in [2 .. Len(lists) -> Nat] : Occurs(type, lists, x) = count[Len(lists)]
    BY OccursIs DEF CountsUp
  <2>2. Len(lists) \in 2 .. Len(lists)
    OBVIOUS
  <2> QED
    BY <2>1, <2>2
<1>2. \A x \in Values : Occurs(type, lists, x) > 0 => x \in W
  <2> SUFFICES ASSUME NEW x \in Values, x \notin W PROVE Occurs(type, lists, x) = 0
    BY <1>1
  <2>1. \A i \in DOMAIN lists : x \notin ToSet(lists[i])
    BY DEF ToSet
  <2> QED
    BY <2>1, OccursSomewhere
<1>3. ASSUME NEW x \in Values
      PROVE  block(x) \in Seq(W) /\ \A y : y \in ToSet(block(x)) <=> y = x /\ Occurs(type, lists, x) > 0
  <2>1. block(x) \in [1 .. Occurs(type, lists, x) -> W]
    BY <1>1, <1>2, <1>3
  <2>2. block(x) \in Seq(W) /\ DOMAIN block(x) = 1 .. Occurs(type, lists, x)
    <3>1. Occurs(type, lists, x) \in Nat
      BY <1>1
    <3> HIDE DEF block
    <3> QED
      BY <2>1, <3>1
  <2>3. \A y : y \in ToSet(block(x)) <=> \E i \in 1 .. Occurs(type, lists, x) : y = x
    BY DEF ToSet
  <2>4. (\E i \in 1 .. Occurs(type, lists, x) : TRUE) <=> Occurs(type, lists, x) > 0
    <3>1. Occurs(type, lists, x) \in Nat
      BY <1>1
    <3>2. Occurs(type, lists, x) > 0 => 1 \in 1 .. Occurs(type, lists, x)
      BY <3>1
    <3> QED
      BY <3>1, <3>2
  <2> QED
    BY <2>2, <2>3, <2>4
<1>4. \A k \in 1 .. Garbage + 1 : k - 1 \in Values
  BY ValuesAre
<1>5. Combine(type, lists) = FlattenSeq(blocks)
  BY DEF Combine
<1> HIDE DEF block
<1>6. blocks \in [1 .. Garbage + 1 -> Seq(W)]
  BY <1>3, <1>4
<1>7. blocks \in Seq(Seq(W)) /\ blocks # <<>> /\ DOMAIN blocks = 1 .. Garbage + 1
  <2>1. Garbage + 1 \in Nat /\ 1 \in 1 .. Garbage + 1
    BY ValuesAre
  <2> HIDE DEF blocks
  <2> QED
    BY <1>6, <2>1
<1>8. \A k \in 1 .. Garbage + 1 : blocks[k] = block(k - 1)
  OBVIOUS
<1> HIDE DEF blocks
<1>9. /\ FlattenSeq(blocks) \in Seq(W)
      /\ \A x : x \in ToSet(FlattenSeq(blocks)) <=> \E k \in 1 .. Garbage + 1 : x \in ToSet(blocks[k])
  BY <1>7, ConcatenatesAll
<1>10. ASSUME NEW x \in Values
       PROVE  (\E k \in 1 .. Garbage + 1 : x \in ToSet(blocks[k])) <=> Occurs(type, lists, x) > 0
  <2>1. x + 1 \in 1 .. Garbage + 1 /\ (x + 1) - 1 = x
    BY ValuesAre
  <2>2. ASSUME NEW k \in 1 .. Garbage + 1, x \in ToSet(blocks[k]) PROVE Occurs(type, lists, x) > 0
    BY <1>3, <1>4, <1>8, <2>2
  <2>3. ASSUME Occurs(type, lists, x) > 0 PROVE x \in ToSet(blocks[x + 1])
    BY <1>3, <1>8, <2>1, <2>3
  <2> QED
    BY <2>1, <2>2, <2>3
<1> QED
  BY <1>5, <1>9, <1>10

\* Is a value in the result, if it is in the first list or not, and in the second or not?
Both(type, a, b) ==
  \/ type = "Union" /\ (a \/ b)
  \/ type = "Intersection" /\ (a /\ b)
  \/ type \notin {"Union", "Intersection"} /\ a /\ ~ b

LEMMA MeetOfSets ==
  ASSUME NEW type \in SetOperations, NEW m \in {0, 1}, NEW n \in {0, 1}
  PROVE  Meet(type, m, n) = IF Both(type, m = 1, n = 1) THEN 1 ELSE 0
<1>1. m \in Nat /\ n \in Nat
  OBVIOUS
<1> QED
  BY <1>1, MeetIs DEF Both

\* What is in the lists as often as in sets is in the result if it is meant to be.
LEMMA OccursAsMeant ==
  ASSUME NEW type \in SetOperations, NEW A, NEW lists \in Seq(Seq(A)), Len(lists) > 1, NEW x,
         x # Nobody, \A i \in DOMAIN lists : Times(lists[i], x) <= 1
  PROVE  Occurs(type, lists, x) > 0 <=> x \in Meant(type, [i \in DOMAIN lists |-> ToSet(lists[i])])
<1>0. PICK max \in Nat, count \in [2 .. Len(lists) -> Nat] : CountsUp(type, lists, x, max, count)
  BY OccursIs
<1> DEFINE n == Len(lists)
           Is(i) == x \in ToSet(lists[i])
           T(i) == Times(lists[i], x)
           In(k) == \/ type = "Union" /\ \E i \in 1 .. k : Is(i)
                    \/ type = "Intersection" /\ \A i \in 1 .. k : Is(i)
                    \/ type \notin {"Union", "Intersection"} /\ Is(1) /\ \A i \in 2 .. k : ~ Is(i)
<1>1. n \in Nat /\ n > 1 /\ DOMAIN lists = 1 .. n /\ \A i \in 1 .. n : lists[i] \in Seq(A)
  OBVIOUS
<1>2. /\ Occurs(type, lists, x) = count[n]
      /\ count[2] = Meet(type, T(1), T(2)) + 0
      /\ \A k \in 3 .. n : count[k] = Meet(type, count[k - 1], T(k))
  BY <1>0 DEF CountsUp
<1>3. \A i \in 1 .. n : T(i) = IF Is(i) THEN 1 ELSE 0
  <2> SUFFICES ASSUME NEW i \in 1 .. n PROVE T(i) = IF Is(i) THEN 1 ELSE 0
    OBVIOUS
  <2>1. T(i) \in Nat /\ (T(i) > 0 <=> Is(i)) /\ T(i) <= 1
    BY <1>1, TimesIs
  <2> HIDE DEF T, Is
  <2> QED
    BY <2>1
<1>4. x \in Meant(type, [i \in DOMAIN lists |-> ToSet(lists[i])]) <=> In(n)
  <2> DEFINE sets == [i \in DOMAIN lists |-> ToSet(lists[i])]
  <2>1. /\ DOMAIN sets = 1 .. n /\ 1 \in 1 .. n /\ \A i \in 1 .. n : x \in sets[i] <=> Is(i)
        /\ \A i \in 2 .. n : i \in 1 .. n
    BY <1>1
  <2>2. Len(sets) = n
    BY <1>1
  <2> SUFFICES x \in Meant(type, sets) <=> In(n)
    OBVIOUS
  <2> HIDE DEF sets, n, Is
  <2>3. CASE type = "Union"
    <3>1. Meant(type, sets) = UNION {sets[i] : i \in DOMAIN sets}
      BY <2>3 DEF Meant
    <3>2. x \in Meant(type, sets) <=> \E i \in 1 .. n : x \in sets[i]
      BY <2>1, <3>1
    <3>3. In(n) <=> \E i \in 1 .. n : Is(i)
      BY <2>3
    <3> QED
      BY <2>1, <3>2, <3>3
  <2>4. CASE type = "Intersection"
    <3>1. Meant(type, sets) = {y \in sets[1] : \A i \in DOMAIN sets : y \in sets[i]}
      BY <2>4 DEF Meant
    <3>2. x \in Meant(type, sets) <=> \A i \in 1 .. n : x \in sets[i]
      BY <2>1, <3>1
    <3>3. In(n) <=> \A i \in 1 .. n : Is(i)
      BY <2>4
    <3> QED
      BY <2>1, <3>2, <3>3
  <2>5. CASE type \notin {"Union", "Intersection"}
    <3>1. Meant(type, sets) = sets[1] \ UNION {sets[i] : i \in 2 .. Len(sets)}
      BY <2>5 DEF Meant
    <3>2. x \in Meant(type, sets) <=> x \in sets[1] /\ \A i \in 2 .. n : x \notin sets[i]
      BY <2>2, <3>1
    <3>3. In(n) <=> Is(1) /\ \A i \in 2 .. n : ~ Is(i)
      BY <2>5
    <3> QED
      BY <2>1, <3>2, <3>3
  <2> QED
    BY <2>3, <2>4, <2>5
<1> HIDE DEF n, T
<1> DEFINE B == {k \in 2 .. n : count[k] = IF In(k) THEN 1 ELSE 0}
<1>5. 2 \in B
  <2>1. In(2) <=> Both(type, Is(1), Is(2))
    <3>1. 1 .. 2 = {1, 2} /\ 2 .. 2 = {2}
      OBVIOUS
    <3> HIDE DEF Is
    <3> QED
      BY <3>1 DEF Both
  <2>2. T(1) = (IF Is(1) THEN 1 ELSE 0) /\ T(2) = (IF Is(2) THEN 1 ELSE 0) /\ 2 \in 2 .. n
    BY <1>1, <1>3
  <2> HIDE DEF Is, In
  <2>3. T(1) \in {0, 1} /\ T(2) \in {0, 1} /\ (T(1) = 1 <=> Is(1)) /\ (T(2) = 1 <=> Is(2))
    BY <2>2
  <2>4. Meet(type, T(1), T(2)) = IF Both(type, T(1) = 1, T(2) = 1) THEN 1 ELSE 0
    BY <2>3, MeetOfSets
  <2>5. Both(type, T(1) = 1, T(2) = 1) <=> In(2)
    BY <2>1, <2>3 DEF Both
  <2> QED
    BY <1>2, <2>2, <2>4, <2>5
<1>6. ASSUME NEW k \in 2 .. n, k \in B, k < n PROVE k + 1 \in B
  <2>1. k + 1 \in 3 .. n /\ k + 1 \in 2 .. n /\ k + 1 \in 1 .. n /\ (k + 1) - 1 = k
    BY <1>1, <1>6
  <2>2. /\ \A i : i \in 1 .. k + 1 <=> i \in 1 .. k \/ i = k + 1
        /\ \A i : i \in 2 .. k + 1 <=> i \in 2 .. k \/ i = k + 1
    <3>1. k \in Nat /\ k >= 2
      BY <1>1, <1>6
    <3> QED
      BY <3>1
  <2>3. In(k + 1) <=> Both(type, In(k), Is(k + 1))
    <3> HIDE DEF Is
    <3> QED
      BY <2>2 DEF Both
  <2> HIDE DEF Is, In
  <2>4. count[k] \in {0, 1} /\ T(k + 1) \in {0, 1} /\ (count[k] = 1 <=> In(k)) /\ (T(k + 1) = 1 <=> Is(k + 1))
    BY <1>3, <1>6, <2>1
  <2>5. count[k + 1] = IF Both(type, count[k] = 1, T(k + 1) = 1) THEN 1 ELSE 0
    BY <1>2, <2>1, <2>4, MeetOfSets
  <2>6. Both(type, count[k] = 1, T(k + 1) = 1) <=> In(k + 1)
    BY <2>3, <2>4 DEF Both
  <2> QED
    BY <2>1, <2>5, <2>6
<1>7. n \in B
  <2> HIDE DEF B
  <2>1. 2 .. n \subseteq B
    BY <1>1, <1>5, <1>6, Counting
  <2> QED
    BY <1>1, <2>1
<1> QED
  <2> HIDE DEF In
  <2> QED
    BY <1>2, <1>4, <1>7

LEMMA TimesGrow ==
  ASSUME NEW A, NEW s \in Seq(A), NEW t \in Seq(A), NEW x
  PROVE  Times(s \o t, x) >= Times(s, x) /\ Times(s \o t, x) >= Times(t, x)
<1> DEFINE S == {i \in DOMAIN s : s[i] = x}
           T == {i \in DOMAIN t : t[i] = x}
           U == {i \in DOMAIN (s \o t) : (s \o t)[i] = x}
           f == [i \in T |-> Len(s) + i]
<1>1. /\ s \o t \in Seq(A) /\ DOMAIN (s \o t) = 1 .. Len(s) + Len(t)
      /\ DOMAIN s = 1 .. Len(s) /\ DOMAIN t = 1 .. Len(t) /\ Len(s) \in Nat /\ Len(t) \in Nat
  OBVIOUS
<1>2. \A i \in 1 .. Len(s) : (s \o t)[i] = s[i]
  OBVIOUS
<1>3. \A i \in 1 .. Len(t) : (s \o t)[Len(s) + i] = t[i]
  OBVIOUS
<1>4. IsFiniteSet(U)
  <2>1. IsFiniteSet(1 .. Len(s) + Len(t))
    BY <1>1, FS_Interval
  <2> QED
    BY <1>1, <2>1, FS_Subset
<1>5. S \in SUBSET U
  BY <1>1, <1>2
<1>6. f \in Injection(T, U)
  <2>1. \A i \in T : Len(s) + i \in U
    BY <1>1, <1>3
  <2>2. \A i, j \in T : Len(s) + i = Len(s) + j => i = j
    BY <1>1
  <2> HIDE DEF T, U
  <2>3. f \in [T -> U]
    BY <2>1
  <2> QED
    BY <2>2, <2>3 DEF Injection, IsInjective
<1>7. IsFiniteSet(S) /\ IsFiniteSet(T) /\ Cardinality(S) <= Cardinality(U) /\ Cardinality(T) <= Cardinality(U)
  <2> HIDE DEF S, T, U, f
  <2> QED
    BY <1>4, <1>5, <1>6, FS_Subset, FS_Injection
<1>8. Cardinality(S) \in Nat /\ Cardinality(T) \in Nat /\ Cardinality(U) \in Nat
  <2> HIDE DEF S, T, U
  <2> QED
    BY <1>4, <1>7, FS_CardinalityType
<1>9. Times(s, x) = Cardinality(S) /\ Times(t, x) = Cardinality(T) /\ Times(s \o t, x) = Cardinality(U)
  BY DEF Times
<1> HIDE DEF S, T, U
<1> QED
  BY <1>7, <1>8, <1>9

----------------------------------------------------------------------------
(* Filters.  W is a set that all the values are from which a filter may    *)
(* find in the world, or in memory: U has the types of the filters.        *)

FilterTypes == SetOperations \union OneBelow \union NoneBelow

Within(W, U) == W \in SUBSET Values /\ \A type \in U : Source(type) \subseteq W

LEMMA SourceIs ==
  /\ Source("SelectZone") = here /\ Source("SelectGroupMembers") = members
  /\ Source("SelectGroupLeader") = {leader} \ {Nobody}
  /\ Source("SelectHighestAggro") = {entries[i].id : i \in DOMAIN entries}
  /\ \A type \in SetOperations \union {"Random"} : Source(type) = {Nobody}
  /\ \A type \in {"First", "Last"} : Source(type) = {Garbage}
  /\ Source("SelectAll") = {} /\ Source("SelectEmpty") = {}
BY DEF Source, SetOperations

Keeps(kept, s) == \A x \in Values : Times(s, x) >= Times(kept, x)

\* The parts of a filter or a condition.
Parts(S) == [f \in S |-> ToSet(f.subs)]

LEMMA PartsOfParts == WellParted(Filters, Parts(Filters)) /\ WellParted(Conditions, Parts(Conditions))
BY SelectionAssumption DEF WellParted, Parts

LEMMA FilterIs ==
  ASSUME NEW f \in Filters
  PROVE  /\ f.subs \in Seq(Filters) /\ f.n \in Nat
         /\ \/ f.type \in SetOperations /\ Len(f.subs) > 1
            \/ f.type \in OneBelow /\ Len(f.subs) = 1
            \/ f.type \in NoneBelow
BY SelectionAssumption

LEMMA ListsWithin ==
  ASSUME NEW W, EnemiesInv
  PROVE  /\ \A S \in SUBSET W : S \subseteq Values => \A s \in SetToSeqs(S) : s \in Seq(W)
         /\ \A s \in Sort(entries, dirty) : s # <<>> => s[Len(s)].id \in Source("SelectHighestAggro")
<1>1. ASSUME NEW S \in SUBSET W, S \subseteq Values, NEW s \in SetToSeqs(S) PROVE s \in Seq(W)
  <2>1. IsFiniteSet(S)
    <3>1. IsFiniteSet(0 .. Garbage)
      BY ValuesAre, FS_Interval
    <3>2. S \subseteq 0 .. Garbage
      BY <1>1, ValuesAre
    <3> QED
      BY <3>1, <3>2, FS_Subset
  <2>2. Cardinality(S) \in Nat
    BY <2>1, FS_CardinalityType
  <2>3. s \in [1 .. Cardinality(S) -> S]
    BY DEF SetToSeqs
  <2>4. s \in Seq(S)
    BY <2>2, <2>3
  <2> QED
    BY <2>4
<1>2. ASSUME NEW s \in Sort(entries, dirty), s # <<>> PROVE s[Len(s)].id \in Source("SelectHighestAggro")
  <2>1. s \in Seq(Entry) /\ \A i \in DOMAIN s : \E j \in DOMAIN entries : s[i] = entries[j]
    BY SortKeeps DEF EnemiesInv, Enemies
  <2>2. Len(s) \in DOMAIN s
    BY <1>2, <2>1
  <2>3. \E j \in DOMAIN entries : s[Len(s)] = entries[j]
    BY <2>1, <2>2
  <2> QED
    BY <2>3, SourceIs
<1> QED
  BY <1>1, <1>2

LEMMA ShufflesWithin ==
  ASSUME NEW W, NEW r \in Seq(W), NEW s \in Shuffles(r)
  PROVE  s \in Seq(W) /\ Len(s) = Len(r)
<1>1. PICK p \in Bijection(DOMAIN r, DOMAIN r) : s = [i \in DOMAIN r |-> r[p[i]]]
  BY DEF Shuffles
<1>2. p \in [DOMAIN r -> DOMAIN r]
  BY DEF Bijection, Injection
<1>3. s \in [1 .. Len(r) -> W]
  BY <1>1, <1>2
<1> QED
  BY <1>3

LEMMA PutKeeps ==
  ASSUME NEW W, NEW kept \in Seq(W), NEW s \in Seq(W)
  PROVE  /\ kept \o s \in Seq(W) /\ Keeps(kept, kept \o s)
         /\ \A r \in Seq(W) : r \o (kept \o s) \in Seq(W) /\ Keeps(kept, r \o (kept \o s))
<1>1. \A t, u \in Seq(W) : /\ t \o u \in Seq(W)
                           /\ \A x : Times(t \o u, x) >= Times(t, x) /\ Times(t \o u, x) >= Times(u, x)
                           /\ \A x : Times(t, x) \in Nat
  BY Put, TimesGrow, TimesIs
<1>2. kept \o s \in Seq(W) /\ Keeps(kept, kept \o s)
  BY <1>1 DEF Keeps
<1>3. ASSUME NEW r \in Seq(W) PROVE r \o (kept \o s) \in Seq(W) /\ Keeps(kept, r \o (kept \o s))
  <2>1. r \o (kept \o s) \in Seq(W)
    BY <1>1, <1>2
  <2>2. ASSUME NEW x \in Values PROVE Times(r \o (kept \o s), x) >= Times(kept, x)
    <3>1. Times(r \o (kept \o s), x) >= Times(kept \o s, x) /\ Times(kept \o s, x) >= Times(kept, x)
      BY <1>1, <1>2
    <3>2. Times(r \o (kept \o s), x) \in Nat /\ Times(kept \o s, x) \in Nat /\ Times(kept, x) \in Nat
      BY <1>1, <1>2, <2>1
    <3> QED
      BY <3>1, <3>2
  <2> QED
    BY <2>1, <2>2 DEF Keeps
<1> QED
  BY <1>2, <1>3

LEMMA FilteredBy ==
  ASSUME NEW f, NEW from, NEW kept
  PROVE  /\ f.type = "SelectAll" => Filtered(from, f, kept) = {kept}
         /\ f.type = "SelectEmpty" => Filtered(from, f, kept) = {<<>>}
         /\ f.type = "SelectZone" => Filtered(from, f, kept) = SelectZone(kept)
         /\ f.type = "SelectGroupMembers" => Filtered(from, f, kept) = SelectGroupMembers(kept)
         /\ f.type = "SelectGroupLeader" => Filtered(from, f, kept) = SelectGroupLeader(kept)
         /\ f.type = "SelectHighestAggro" => Filtered(from, f, kept) = SelectHighestAggro(kept)
         /\ f.type \in SetOperations =>
              Filtered(from, f, kept) = {Refill(kept, Combine(f.type, r)) : r \in SubResults(from, f)}
         /\ f.type = "First" => Filtered(from, f, kept) = {PickFirst(kept, r[1]) : r \in SubResults(from, f)}
         /\ f.type = "Last" => Filtered(from, f, kept) = {PickLast(kept, r[1]) : r \in SubResults(from, f)}
         /\ f.type = "Random" =>
              Filtered(from, f, kept) = UNION {PickRandom(kept, r[1], f.n) : r \in SubResults(from, f)}
BY DEF Filtered, SetOperations

\* Every filter but SelectEmpty keeps what was selected, and finds nothing from elsewhere.
LEMMA FilteredIs ==
  ASSUME NEW W, NEW f \in Filters, Within(W, {f.type}), EnemiesInv, NEW from,
         \A g \in ToSet(f.subs) : from[g] \in SUBSET Seq(W), NEW kept \in Seq(W)
  PROVE  \A s \in Filtered(from, f, kept) : s \in Seq(W) /\ (f.type # "SelectEmpty" => Keeps(kept, s))
<1> DEFINE Good(s) == s \in Seq(W) /\ Keeps(kept, s)
           R == SubResults(from, f)
<1>1. \A s \in Seq(W) : Good(kept \o s) /\ \A r \in Seq(W) : Good(r \o (kept \o s))
  BY PutKeeps
<1>2. Good(kept)
  <2>1. \A x : Times(kept, x) \in Nat
    BY TimesIs
  <2> QED
    BY <2>1 DEF Keeps
<1>3. ASSUME NEW w \in W PROVE Good(Append(kept, w)) /\ Good(kept \o <<w>>)
  <2>1. <<w>> \in Seq(W) /\ Append(kept, w) = kept \o <<w>>
    OBVIOUS
  <2> HIDE DEF Good
  <2> QED
    BY <1>1, <2>1
<1>4. \A r \in R : /\ r \in Seq(Seq(W)) /\ Len(r) = Len(f.subs)
                   /\ Len(f.subs) > 0 => r[1] \in Seq(W)
  <2> SUFFICES ASSUME NEW r \in R
               PROVE  /\ r \in Seq(Seq(W)) /\ Len(r) = Len(f.subs)
                      /\ Len(f.subs) > 0 => r[1] \in Seq(W)
    OBVIOUS
  <2>1. \A q : q \in R <=> /\ q \in Seq(Seq(W)) /\ Len(q) = Len(f.subs)
                           /\ \A i \in 1 .. Len(f.subs) : q[i] \in from[f.subs[i]]
    <3> HIDE DEF Good
    <3> QED
      BY SubResultsAre
  <2> QED
    BY <2>1
<1>5. W \in SUBSET Values /\ Source(f.type) \subseteq W
  BY DEF Within
<1> HIDE DEF Good
<1>6. CASE f.type \in NoneBelow /\ f.type # "SelectEmpty"
  <2>1. CASE f.type = "SelectAll"
    <3>1. Filtered(from, f, kept) = {kept}
      BY <2>1, FilteredBy
    <3> QED
      BY <1>2, <3>1 DEF Good
  <2>2. CASE f.type = "SelectZone"
    <3>1. Filtered(from, f, kept) = SelectZone(kept)
      BY <2>2, FilteredBy
    <3>2. \A t \in SelectZone(kept) : \E s \in SetToSeqs(here) : t = kept \o s
      BY DEF SelectZone
    <3>3. \A s \in SetToSeqs(here) : s \in Seq(W)
      <4>1. here \subseteq W /\ here \subseteq Values
        BY <1>5, <2>2, SourceIs
      <4> QED
        BY <4>1, ListsWithin
    <3>4. \A t \in SelectZone(kept) : Good(t)
      BY <1>1, <3>2, <3>3
    <3> QED
      BY <3>1, <3>4 DEF Good
  <2>3. CASE f.type = "SelectGroupMembers"
    <3>1. Filtered(from, f, kept) = SelectGroupMembers(kept)
      BY <2>3, FilteredBy
    <3>2. \A t \in SelectGroupMembers(kept) : \E s \in SetToSeqs(members) : t = kept \o s
      BY DEF SelectGroupMembers
    <3>3. \A s \in SetToSeqs(members) : s \in Seq(W)
      <4>1. members \subseteq W /\ members \subseteq Values
        BY <1>5, <2>3, SourceIs
      <4> QED
        BY <4>1, ListsWithin
    <3>4. \A t \in SelectGroupMembers(kept) : Good(t)
      BY <1>1, <3>2, <3>3
    <3> QED
      BY <3>1, <3>4 DEF Good
  <2>4. CASE f.type = "SelectGroupLeader"
    <3>1. Filtered(from, f, kept) = {IF leader = Nobody THEN kept ELSE Append(kept, leader)}
      BY <2>4, FilteredBy DEF SelectGroupLeader
    <3>2. leader = Nobody \/ leader \in W
      BY <1>5, <2>4, SourceIs
    <3>3. Good(IF leader = Nobody THEN kept ELSE Append(kept, leader))
      BY <1>2, <1>3, <3>2
    <3> QED
      BY <3>1, <3>3 DEF Good
  <2>5. CASE f.type = "SelectHighestAggro"
    <3>1. Filtered(from, f, kept) =
            {IF s = <<>> THEN kept ELSE Append(kept, s[Len(s)].id) : s \in Sort(entries, dirty)}
      BY <2>5, FilteredBy DEF SelectHighestAggro
    <3>2. \A s \in Sort(entries, dirty) : s # <<>> => s[Len(s)].id \in W
      BY <1>5, <2>5, ListsWithin
    <3>3. ASSUME NEW s \in Sort(entries, dirty)
          PROVE  Good(IF s = <<>> THEN kept ELSE Append(kept, s[Len(s)].id))
      BY <1>2, <1>3, <3>2
    <3> QED
      BY <3>1, <3>3 DEF Good
  <2> QED
    BY <1>6, <2>1, <2>2, <2>3, <2>4, <2>5 DEF NoneBelow
<1>7. CASE f.type = "SelectEmpty"
  <2>1. Filtered(from, f, kept) = {<<>>}
    BY <1>7, FilteredBy
  <2> QED
    BY <1>7, <2>1
<1>8. CASE f.type \in SetOperations /\ Len(f.subs) > 1
  <2>1. Filtered(from, f, kept) = {kept \o Combine(f.type, r) : r \in R}
    BY <1>8, FilteredBy DEF Refill
  <2>3. Nobody \in W
    BY <1>5, <1>8, SourceIs
  <2>2. \A r \in R : Combine(f.type, r) \in Seq(W)
    BY <1>4, <1>5, <1>8, <2>3, CombineIs
  <2> QED
    BY <1>1, <2>1, <2>2 DEF Good
<1>9. CASE f.type \in OneBelow /\ Len(f.subs) = 1
  <2>0. \A r \in R : r[1] \in Seq(W)
    BY <1>4, <1>9
  <2>1. ASSUME f.type \in {"First", "Last"}, NEW place \in Nat, NEW found \in Seq(W)
        PROVE  ValueAt(place, kept, found) \in W
    <3>1. Garbage \in W
      BY <1>5, <2>1, SourceIs
    <3> QED
      BY <3>1 DEF ValueAt
  <2>2. CASE f.type = "First"
    <3>1. Filtered(from, f, kept) = {PickFirst(kept, r[1]) : r \in R}
      BY <2>2, FilteredBy
    <3>5. \A r \in R : PickFirst(kept, r[1]) = kept \o <<ValueAt(1, kept, r[1])>>
      BY DEF PickFirst, Refill
    <3> QED
      BY <1>3, <2>0, <2>1, <2>2, <3>1, <3>5 DEF Good
  <2>3. CASE f.type = "Last"
    <3>1. Filtered(from, f, kept) = {PickLast(kept, r[1]) : r \in R}
      BY <2>3, FilteredBy
    <3>5. \A r \in R : PickLast(kept, r[1]) = kept \o <<ValueAt(Len(r[1]), kept, r[1])>>
      BY DEF PickLast, Refill
    <3>2. \A r \in R : Len(r[1]) \in Nat
      BY <2>0
    <3> QED
      BY <1>3, <2>0, <2>1, <2>3, <3>1, <3>5, <3>2 DEF Good
  <2>4. CASE f.type = "Random"
    <3>1. Filtered(from, f, kept) = UNION {PickRandom(kept, r[1], f.n) : r \in R}
      BY <2>4, FilteredBy
    <3>5. \A r \in R : \A t \in PickRandom(kept, r[1], f.n) :
            \E s \in Shuffles(r[1]) : t = r[1] \o (kept \o Resize(s, f.n))
      BY DEF PickRandom, Refill
    <3>2. ASSUME NEW s \in Seq(W) PROVE Resize(s, f.n) \in Seq(W)
      <4>1. f.n \in Nat
        BY FilterIs
      <4>3. Nobody \in W
        BY <1>5, <2>4, SourceIs
      <4>2. Resize(s, f.n) \in [1 .. f.n -> W]
        BY <4>1, <4>3 DEF Resize
      <4> QED
        BY <4>1, <4>2
    <3>3. \A r \in R : \A s \in Shuffles(r[1]) : Good(r[1] \o (kept \o Resize(s, f.n)))
      BY <1>1, <2>0, <3>2, ShufflesWithin
    <3>6. \A t \in Filtered(from, f, kept) : \E r \in R : t \in PickRandom(kept, r[1], f.n)
      BY <3>1
    <3>4. \A t \in Filtered(from, f, kept) : \E r \in R : \E s \in Shuffles(r[1]) : t = r[1] \o (kept \o Resize(s, f.n))
      <4> HIDE DEF R
      <4> QED
        BY <3>5, <3>6
    <3> QED
      BY <3>3, <3>4 DEF Good
  <2> QED
    BY <1>9, <2>2, <2>3, <2>4 DEF OneBelow
<1> QED
  BY <1>6, <1>7, <1>8, <1>9, FilterIs

LEMMA SubResultsAgree ==
  ASSUME NEW W, NEW f \in Filters, NEW g, NEW h,
         \A x \in ToSet(f.subs) : g[x] \in SUBSET Seq(W) /\ g[x] = h[x]
  PROVE  SubResults(g, f) = SubResults(h, f)
<1>1. \A i \in 1 .. Len(f.subs) : f.subs[i] \in ToSet(f.subs)
  BY FilterIs DEF ToSet
<1>2. \A r : r \in SubResults(g, f) <=>
        r \in Seq(Seq(W)) /\ Len(r) = Len(f.subs) /\ \A i \in 1 .. Len(f.subs) : r[i] \in g[f.subs[i]]
  BY SubResultsAre
<1>3. \A r : r \in SubResults(h, f) <=>
        r \in Seq(Seq(W)) /\ Len(r) = Len(f.subs) /\ \A i \in 1 .. Len(f.subs) : r[i] \in h[f.subs[i]]
  BY SubResultsAre
<1>4. \A r : r \in SubResults(g, f) <=> r \in SubResults(h, f)
  BY <1>1, <1>2, <1>3
<1>5. SubResults(g, f) = {r \in SubResults(h, f) : TRUE} /\ SubResults(h, f) = {r \in SubResults(h, f) : TRUE}
  <2>1. SubResults(g, f) \subseteq SubResults(h, f)
    BY <1>4
  <2>2. SubResults(h, f) \subseteq SubResults(g, f)
    BY <1>4
  <2> QED
    BY <2>1, <2>2
<1> QED
  BY <1>5

LEMMA FilteredAgrees ==
  ASSUME NEW W, NEW f \in Filters, NEW g, NEW h,
         \A x \in ToSet(f.subs) : g[x] \in SUBSET Seq(W) /\ g[x] = h[x], NEW kept
  PROVE  Filtered(g, f, kept) = Filtered(h, f, kept)
<1>1. SubResults(g, f) = SubResults(h, f)
  BY SubResultsAgree
<1>2. f.type \in SetOperations \union OneBelow \union NoneBelow
  BY FilterIs
<1>3. CASE f.type \in SetOperations
  BY <1>1, <1>3, FilteredBy
<1>4. CASE f.type \in OneBelow
  <2>1. CASE f.type = "First"
    <3>1. Filtered(g, f, kept) = {PickFirst(kept, r[1]) : r \in SubResults(g, f)}
      BY <2>1, FilteredBy
    <3>2. Filtered(h, f, kept) = {PickFirst(kept, r[1]) : r \in SubResults(h, f)}
      BY <2>1, FilteredBy
    <3> QED
      BY <1>1, <3>1, <3>2, Zenon
  <2>2. CASE f.type = "Last"
    <3>1. Filtered(g, f, kept) = {PickLast(kept, r[1]) : r \in SubResults(g, f)}
      BY <2>2, FilteredBy
    <3>2. Filtered(h, f, kept) = {PickLast(kept, r[1]) : r \in SubResults(h, f)}
      BY <2>2, FilteredBy
    <3> QED
      BY <1>1, <3>1, <3>2, Zenon
  <2>3. CASE f.type = "Random"
    <3>1. Filtered(g, f, kept) = UNION {PickRandom(kept, r[1], f.n) : r \in SubResults(g, f)}
      BY <2>3, FilteredBy
    <3>2. Filtered(h, f, kept) = UNION {PickRandom(kept, r[1], f.n) : r \in SubResults(h, f)}
      BY <2>3, FilteredBy
    <3> QED
      BY <1>1, <3>1, <3>2, Zenon
  <2> QED
    BY <1>4, <2>1, <2>2, <2>3 DEF OneBelow
<1>5. CASE f.type \in NoneBelow
  BY <1>5, FilteredBy DEF NoneBelow
<1> QED
  BY <1>2, <1>3, <1>4, <1>5

LEMMA FromEmptyIs ==
  ASSUME NEW W, Within(W, FilterTypes), EnemiesInv
  PROVE  /\ FromEmpty \in [Filters -> SUBSET Seq(W)]
         /\ \A f \in Filters : FromEmpty[f] = Filtered(FromEmpty, f, <<>>)
<1> DEFINE V == SUBSET Seq(W)
           Part == Parts(Filters)
           D == [g \in [Filters -> V] |-> [f \in Filters |-> Filtered(g, f, <<>>)]]
<1>1. WellParted(Filters, Part) /\ \A f \in Filters : Part[f] = ToSet(f.subs) /\ Part[f] \subseteq Filters
  BY PartsOfParts, FilterIs DEF Parts, ToSet
<1>2. ASSUME NEW f \in Filters, NEW g, \A x \in Part[f] : g[x] \in V
      PROVE  Filtered(g, f, <<>>) \in V
  <2>1. \A s \in Filtered(g, f, <<>>) : s \in Seq(W)
    <3>1. <<>> \in Seq(W)
      OBVIOUS
    <3>2. Within(W, {f.type})
      BY FilterIs DEF Within, FilterTypes
    <3> QED
      BY <1>1, <1>2, <3>1, <3>2, FilteredIs
  <2> QED
    BY <2>1
<1>3. ASSUME NEW f \in Filters, NEW g, NEW h, \A x \in Part[f] : g[x] \in V /\ g[x] = h[x]
      PROVE  Filtered(g, f, <<>>) = Filtered(h, f, <<>>)
  <2>1. \A x \in ToSet(f.subs) : g[x] \in SUBSET Seq(W) /\ g[x] = h[x]
    BY <1>1, <1>3
  <2> QED
    BY <2>1, FilteredAgrees
<1>4. Determines(Filters, V, Part, D)
  <2> HIDE DEF Part, V
  <2>1. ASSUME NEW g \in [Filters -> V]
        PROVE  D[g] \in [Filters -> V] /\ \A f \in Filters : D[g][f] = Filtered(g, f, <<>>)
    BY <1>1, <1>2
  <2> HIDE DEF D
  <2>2. ASSUME NEW g \in [Filters -> V], NEW h \in [Filters -> V], NEW f \in Filters,
               \A x \in Part[f] \intersect Filters : g[x] = h[x]
        PROVE  D[g][f] = D[h][f]
    BY <1>1, <1>3, <2>1, <2>2
  <2> QED
    BY <2>1, <2>2 DEF Determines
<1>5. PICK g \in [Filters -> V] : g = D[g]
  <2>1. {} \in V
    OBVIOUS
  <2> HIDE DEF Part, V, D
  <2> QED
    BY <1>1, <1>4, <2>1, RecursionWorks
<1>6. FromEmpty = [f \in Filters |-> Filtered(FromEmpty, f, <<>>)]
  <2>1. g = [f \in Filters |-> Filtered(g, f, <<>>)]
    BY <1>5
  <2> QED
    BY <2>1 DEF FromEmpty
<1>7. Filters \subseteq {f \in Filters : FromEmpty[f] \in V}
  <2> DEFINE B == {f \in Filters : FromEmpty[f] \in V}
  <2>1. ASSUME NEW f \in Filters, Part[f] \intersect Filters \subseteq B PROVE f \in B
    <3>1. FromEmpty[f] = Filtered(FromEmpty, f, <<>>)
      BY <1>6
    <3> QED
      BY <1>1, <1>2, <2>1, <3>1
  <2> HIDE DEF B, Part
  <2>2. Filters \subseteq B
    BY <1>1, <2>1, PartsFirst
  <2> QED
    BY <2>2 DEF B
<1> QED
  BY <1>6, <1>7

LEMMA TypesAre ==
  /\ Types \in [Filters -> SUBSET FilterTypes]
  /\ \A f \in Filters : f.type \in Types[f] /\ \A g \in ToSet(f.subs) : Types[g] \subseteq Types[f]
<1> DEFINE V == SUBSET FilterTypes
           Part == Parts(Filters)
           At(g, f) == {f.type} \union UNION {g[f.subs[i]] : i \in DOMAIN f.subs}
           D == [g \in [Filters -> V] |-> [f \in Filters |-> At(g, f)]]
<1>1. /\ WellParted(Filters, Part)
      /\ \A f \in Filters : \A i \in DOMAIN f.subs : f.subs[i] \in Part[f] /\ f.subs[i] \in Filters
  BY PartsOfParts, FilterIs DEF Parts, ToSet
<1>2. ASSUME NEW g \in [Filters -> V], NEW f \in Filters PROVE At(g, f) \in V
  <2>1. f.type \in FilterTypes /\ \A i \in DOMAIN f.subs : g[f.subs[i]] \in V
    BY <1>1, FilterIs DEF FilterTypes
  <2> QED
    BY <2>1
<1>3. ASSUME NEW g, NEW h, NEW f \in Filters, \A x \in Part[f] \intersect Filters : g[x] = h[x]
      PROVE  At(g, f) = At(h, f)
  <2>1. \A i \in DOMAIN f.subs : g[f.subs[i]] = h[f.subs[i]]
    BY <1>1, <1>3
  <2> QED
    BY <2>1
<1> HIDE DEF At, Part, V
<1>4. PICK g \in [Filters -> V] : g = D[g]
  <2>1. ASSUME NEW g \in [Filters -> V]
        PROVE  D[g] \in [Filters -> V] /\ \A f \in Filters : D[g][f] = At(g, f)
    BY <1>2
  <2> HIDE DEF D
  <2>2. Determines(Filters, V, Part, D)
    BY <1>3, <2>1 DEF Determines
  <2>3. {} \in V
    BY DEF V
  <2> QED
    BY <1>1, <2>2, <2>3, RecursionWorks
<1>5. g = [f \in Filters |-> At(g, f)]
  BY <1>4
<1> DEFINE G == CHOOSE h : h = [f \in Filters |-> At(h, f)]
<1>6. Types = G
  BY Zenon DEF Types, At
<1>7. G = [f \in Filters |-> At(G, f)]
  BY <1>5
<1>8. \A f \in Filters : Types[f] = At(Types, f)
  BY <1>6, <1>7
<1>9. Filters \subseteq {f \in Filters : Types[f] \in V}
  <2> DEFINE B == {f \in Filters : Types[f] \in V}
  <2>1. ASSUME NEW f \in Filters, Part[f] \intersect Filters \subseteq B PROVE f \in B
    <3>1. \A i \in DOMAIN f.subs : Types[f.subs[i]] \in V
      BY <1>1, <2>1
    <3>2. At(Types, f) \in V
      BY <3>1, FilterIs DEF At, V, FilterTypes
    <3> QED
      BY <1>8, <3>2
  <2> HIDE DEF B
  <2>2. Filters \subseteq B
    BY <1>1, <2>1, PartsFirst
  <2> QED
    BY <2>2 DEF B
<1>10. Types \in [Filters -> V]
  <2>1. Types = [f \in Filters |-> At(Types, f)]
    BY <1>6, <1>7
  <2> QED
    BY <1>9, <2>1
<1>11. ASSUME NEW f \in Filters PROVE f.type \in Types[f] /\ \A s \in ToSet(f.subs) : Types[s] \subseteq Types[f]
  <2>1. Types[f] = {f.type} \union UNION {Types[f.subs[i]] : i \in DOMAIN f.subs}
    BY <1>8 DEF At
  <2>2. \A x \in ToSet(f.subs) : \E i \in DOMAIN f.subs : x = f.subs[i]
    BY DEF ToSet
  <2> QED
    BY <2>1, <2>2
<1> QED
  BY <1>10, <1>11 DEF V

\* With every selection from W the filter f makes one from W.
Stays(W, f) == \A kept \in Seq(W) : AfterFilter(f, kept) \subseteq Seq(W)

\* What a filter finds comes from where it and the filters below it look.
LEMMA AfterFilterIs ==
  ASSUME NEW W, NEW U \in SUBSET FilterTypes, Within(W, U), Within(Values, FilterTypes), EnemiesInv,
         NEW f \in Filters, Types[f] \subseteq U
  PROVE  /\ Stays(W, f) /\ FromEmpty[f] \in SUBSET Seq(W)
         /\ \A kept \in Seq(W) : \A s \in AfterFilter(f, kept) : f.type # "SelectEmpty" => Keeps(kept, s)
<1> DEFINE B == {g \in Filters : Types[g] \subseteq U => FromEmpty[g] \in SUBSET Seq(W)}
           Part == Parts(Filters)
<1>1. WellParted(Filters, Part) /\ \A g \in Filters : Part[g] = ToSet(g.subs) /\ Part[g] \subseteq Filters
  BY PartsOfParts, FilterIs DEF Parts, ToSet
<1>2. ASSUME NEW g \in Filters, Types[g] \subseteq U PROVE Within(W, {g.type})
  BY <1>2, TypesAre DEF Within
<1>3. ASSUME NEW g \in Filters, Part[g] \intersect Filters \subseteq B, Types[g] \subseteq U
      PROVE  FromEmpty[g] \in SUBSET Seq(W)
  <2>1. \A x \in ToSet(g.subs) : FromEmpty[x] \in SUBSET Seq(W)
    <3>1. \A x \in ToSet(g.subs) : x \in B /\ Types[x] \subseteq U
      BY <1>1, <1>3, TypesAre
    <3> QED
      BY <3>1
  <2>2. FromEmpty[g] = Filtered(FromEmpty, g, <<>>)
    BY FromEmptyIs
  <2>3. <<>> \in Seq(W)
    OBVIOUS
  <2>4. \A s \in Filtered(FromEmpty, g, <<>>) : s \in Seq(W)
    BY <1>2, <1>3, <2>1, <2>3, FilteredIs
  <2> QED
    BY <2>2, <2>4
<1>4. Filters \subseteq B
  <2>1. ASSUME NEW g \in Filters, Part[g] \intersect Filters \subseteq B PROVE g \in B
    <3>1. Types[g] \subseteq U => FromEmpty[g] \in SUBSET Seq(W)
      <4> HIDE DEF B
      <4> QED
        BY <1>3, <2>1
    <3> QED
      BY <3>1
  <2> HIDE DEF B, Part
  <2> QED
    BY <1>1, <2>1, PartsFirst
<1>5. \A x \in ToSet(f.subs) : FromEmpty[x] \in SUBSET Seq(W)
  <2>1. \A x \in ToSet(f.subs) : x \in B /\ Types[x] \subseteq U
    BY <1>1, <1>4, TypesAre
  <2> QED
    BY <2>1
<1>6. ASSUME NEW kept \in Seq(W), NEW s \in AfterFilter(f, kept)
      PROVE  s \in Seq(W) /\ (f.type # "SelectEmpty" => Keeps(kept, s))
  BY <1>2, <1>5, <1>6, FilteredIs DEF AfterFilter
<1> QED
  BY <1>4, <1>6 DEF Stays

----------------------------------------------------------------------------
(* Conditions                                                              *)

Picks(W) == {<<>>} \union {<<s>> : s \in Seq(W)}
Outcome(W) == [holds : BOOLEAN, picked : Picks(W), looked : BOOLEAN]

\* A target has been found.
Found(o) == o.picked # <<>> /\ o.picked[1] # <<>>

LEMMA ConditionIs ==
  ASSUME NEW c \in Conditions
  PROVE  /\ c.subs \in Seq(Conditions) /\ c.filters \in Seq(Filters)
         /\ \/ c.type \in {"And", "Or"} /\ Len(c.subs) > 1
            \/ c.type = "Not" /\ Len(c.subs) = 1
            \/ c.type \in Questions \union {"Filter"}
BY SelectionAssumption

LEMMA AnswerIs ==
  ASSUME NEW W, NEW holds \in BOOLEAN
  PROVE  Answer(holds) \in Outcome(W) /\ Answer(holds).holds = holds /\ Answer(holds).picked = <<>>
<1>1. Answer(holds) = [holds |-> holds, picked |-> <<>>, looked |-> FALSE]
  BY DEF Answer
<1>2. <<>> \in Picks(W)
  BY DEF Picks
<1> QED
  BY <1>1, <1>2 DEF Outcome

LEMMA ThenIs ==
  ASSUME NEW W, NEW o \in Outcome(W), NEW p \in Outcome(W)
  PROVE  /\ Then(o, p) \in Outcome(W) /\ Then(o, p).holds = p.holds
         /\ Then(o, p).picked = IF p.picked = <<>> THEN o.picked ELSE p.picked
<1> DEFINE picked == IF p.picked = <<>> THEN o.picked ELSE p.picked
           looked == p.looked \/ o.looked
<1>1. p.picked \in Picks(W) /\ o.picked \in Picks(W)
  BY DEF Outcome
<1>2. Then(o, p) = [p EXCEPT !.picked = picked, !.looked = looked]
  BY DEF Then
<1>3. picked \in Picks(W) /\ looked \in BOOLEAN
  BY <1>1
<1> HIDE DEF picked, looked
<1>4. Then(o, p) \in Outcome(W) /\ Then(o, p).holds = p.holds /\ Then(o, p).picked = picked
  BY <1>2, <1>3 DEF Outcome
<1> QED
  BY <1>4 DEF picked

\* What the condition sub makes of what there was before it.
Continued(from, sub, O, stop) ==
  {o \in O : o.holds = stop} \union {Then(o, p) : o \in {o \in O : o.holds # stop}, p \in from[sub]}

ChainsUp(from, subs, stop, after) ==
  /\ Chain(from, subs, stop) = after[Len(subs)]
  /\ after[0] = {Answer(~stop)}
  /\ \A k \in 1 .. Len(subs) : after[k] = Continued(from, subs[k], after[k - 1], stop)

\* How q has come of it.
Continues(from, sub, O, stop, q) ==
  \/ q \in O /\ q.holds = stop
  \/ \E o \in O, p \in from[sub] : o.holds # stop /\ q = Then(o, p)

LEMMA ContinuedIs ==
  ASSUME NEW W, NEW from, NEW sub, from[sub] \in SUBSET Outcome(W), NEW O \in SUBSET Outcome(W), NEW stop
  PROVE  /\ Continued(from, sub, O, stop) \in SUBSET Outcome(W)
         /\ \A q \in Continued(from, sub, O, stop) : Continues(from, sub, O, stop, q)
<1>1. \A q \in Continued(from, sub, O, stop) : Continues(from, sub, O, stop, q)
  BY DEF Continued, Continues
<1>2. \A q \in Continued(from, sub, O, stop) : q \in Outcome(W)
  BY <1>1, ThenIs DEF Continues
<1> QED
  BY <1>1, <1>2

\* The parts have outcomes, and so has what is made of them.
Known(W, from, subs) == \A x \in ToSet(subs) : from[x] \in SUBSET Outcome(W)
Chains(W, from, subs, stop) ==
  \E after \in [0 .. Len(subs) -> SUBSET Outcome(W)] : ChainsUp(from, subs, stop, after)

LEMMA ChainIs ==
  ASSUME NEW W, NEW from, NEW subs \in Seq(Conditions), NEW stop, stop \in BOOLEAN, Known(W, from, subs)
  PROVE  Chains(W, from, subs, stop)
<1> DEFINE n == Len(subs)
           V == SUBSET Outcome(W)
           b == {Answer(~stop)}
           NextOf(k, O) == Continued(from, subs[k], O, stop)
           E == [p \in (0 + 1 .. n) \X V |-> NextOf(p[1], p[2])]
           F == CHOOSE g : g = [k \in 0 .. n |->
                  IF k = 0 THEN b
                  ELSE LET O == g[k - 1]
                       IN  {o \in O : o.holds = stop}
                           \union {Then(o, p) : o \in {o \in O : o.holds # stop}, p \in from[subs[k]]}]
           G == CHOOSE g : g = [k \in 0 .. n |-> IF k = 0 THEN b ELSE NextOf(k, g[k - 1])]
<1>1. n \in Nat /\ \A i \in 1 .. n : from[subs[i]] \in V
  <2>1. \A i \in 1 .. n : subs[i] \in ToSet(subs)
    BY DEF ToSet
  <2> QED
    BY <2>1 DEF Known
<1>2. Chain(from, subs, stop) = F[n]
  BY DEF Chain
<1>3. F = G
  BY DEF Continued
<1>4. b \in V
  <2>1. Answer(~stop) \in Outcome(W)
    BY AnswerIs
  <2> QED
    BY <2>1
<1>5. \A k \in 1 .. n, O \in V : NextOf(k, O) \in V
  BY <1>1, ContinuedIs
<1> HIDE DEF F
<1> HIDE DEF b, NextOf, n, V
<1>6. StepsIn(0, n, V, b, E)
  <2>1. \A i \in 0 + 1 .. n : i \in 1 .. n
    OBVIOUS
  <2> QED
    BY <1>4, <1>5, <2>1 DEF StepsIn
<1>7. PICK g \in [0 .. n -> V] : Follows(g, 0, n, b, E)
  <2> HIDE DEF E
  <2> QED
    BY <1>1, <1>6, StepByStep
<1>8. ASSUME NEW k \in 0 .. n PROVE g[k] = IF k = 0 THEN b ELSE NextOf(k, g[k - 1])
  <2>1. k = 0 \/ (k - 1 \in 0 .. n /\ k \in 0 + 1 .. n)
    BY <1>1
  <2>2. k = 0 \/ E[<<k, g[k - 1]>>] = NextOf(k, g[k - 1])
    BY <2>1
  <2> HIDE DEF E
  <2> QED
    BY <1>7, <2>2 DEF Follows
<1>9. g = [k \in 0 .. n |-> IF k = 0 THEN b ELSE NextOf(k, g[k - 1])]
  BY <1>8
<1>10. G = [k \in 0 .. n |-> IF k = 0 THEN b ELSE NextOf(k, G[k - 1])]
  BY <1>9
<1> HIDE DEF G, E
<1>11. \A k \in 0 .. n : G[k] = IF k = 0 THEN b ELSE NextOf(k, G[k - 1])
  BY <1>10
<1> DEFINE B == {k \in 0 .. n : G[k] \in V}
<1>12. 0 \in B
  BY <1>1, <1>4, <1>11
<1>13. ASSUME NEW k \in 0 .. n, k \in B, k < n PROVE k + 1 \in B
  <2>1. k + 1 \in 0 .. n /\ k + 1 # 0 /\ (k + 1) - 1 = k /\ k + 1 \in 1 .. n
    BY <1>1, <1>13
  <2>2. G[k + 1] = NextOf(k + 1, G[k])
    BY <1>11, <2>1
  <2> QED
    BY <1>5, <1>13, <2>1, <2>2
<1>14. \A k \in 0 .. n : G[k] \in V
  <2> HIDE DEF B
  <2>1. 0 .. n \subseteq B
    BY <1>1, <1>12, <1>13, Counting
  <2> QED
    BY <2>1 DEF B
<1>15. G \in [0 .. n -> V]
  BY <1>10, <1>14
<1>16. G[0] = b /\ \A k \in 1 .. n : G[k] = NextOf(k, G[k - 1])
  <2>1. 0 \in 0 .. n /\ \A k \in 1 .. n : k \in 0 .. n /\ k # 0
    BY <1>1
  <2> QED
    BY <1>11, <2>1
<1> QED
  BY <1>2, <1>3, <1>15, <1>16 DEF n, b, V, NextOf, ChainsUp, Chains

\* One condition printed after the other.
PrintedNext(from, sub, O) == {Then(o, p) : o \in O, p \in from[sub]}

PrintsUp(from, subs, parts) ==
  /\ OneByOne(from, subs) = parts[Len(subs)]
  /\ parts[0] = {Answer(TRUE)}
  /\ \A k \in 1 .. Len(subs) : parts[k] = PrintedNext(from, subs[k], parts[k - 1])

Prints(W, from, subs) == \E parts \in [0 .. Len(subs) -> SUBSET Outcome(W)] : PrintsUp(from, subs, parts)

LEMMA OneByOneIs ==
  ASSUME NEW W, NEW from, NEW subs \in Seq(Conditions), Known(W, from, subs)
  PROVE  Prints(W, from, subs)
<1> DEFINE n == Len(subs)
           V == SUBSET Outcome(W)
           b == {Answer(TRUE)}
           NextOf(k, O) == PrintedNext(from, subs[k], O)
           E == [p \in (0 + 1 .. n) \X V |-> NextOf(p[1], p[2])]
           F == CHOOSE g : g = [k \in 0 .. n |->
                  IF k = 0 THEN b ELSE {Then(o, p) : o \in g[k - 1], p \in from[subs[k]]}]
           G == CHOOSE g : g = [k \in 0 .. n |-> IF k = 0 THEN b ELSE NextOf(k, g[k - 1])]
<1>1. n \in Nat /\ \A i \in 1 .. n : from[subs[i]] \in V
  <2>1. \A i \in 1 .. n : subs[i] \in ToSet(subs)
    BY DEF ToSet
  <2> QED
    BY <2>1 DEF Known
<1>2. OneByOne(from, subs) = F[n]
  BY DEF OneByOne
<1>3. F = G
  BY DEF PrintedNext
<1>4. b \in V
  <2>1. Answer(TRUE) \in Outcome(W)
    BY AnswerIs
  <2> QED
    BY <2>1
<1>5. \A k \in 1 .. n, O \in V : NextOf(k, O) \in V
  <2> SUFFICES ASSUME NEW k \in 1 .. n, NEW O \in V PROVE PrintedNext(from, subs[k], O) \subseteq Outcome(W)
    OBVIOUS
  <2>1. \A q \in PrintedNext(from, subs[k], O) : \E o \in O, p \in from[subs[k]] : q = Then(o, p)
    BY DEF PrintedNext
  <2>2. \A o \in O, p \in from[subs[k]] : Then(o, p) \in Outcome(W)
    BY <1>1, ThenIs
  <2> QED
    BY <2>1, <2>2
<1> HIDE DEF F
<1> HIDE DEF b, NextOf, n, V
<1>6. StepsIn(0, n, V, b, E)
  <2>1. \A i \in 0 + 1 .. n : i \in 1 .. n
    OBVIOUS
  <2> QED
    BY <1>4, <1>5, <2>1 DEF StepsIn
<1>7. PICK g \in [0 .. n -> V] : Follows(g, 0, n, b, E)
  <2> HIDE DEF E
  <2> QED
    BY <1>1, <1>6, StepByStep
<1>8. ASSUME NEW k \in 0 .. n PROVE g[k] = IF k = 0 THEN b ELSE NextOf(k, g[k - 1])
  <2>1. k = 0 \/ (k - 1 \in 0 .. n /\ k \in 0 + 1 .. n)
    BY <1>1
  <2>2. k = 0 \/ E[<<k, g[k - 1]>>] = NextOf(k, g[k - 1])
    BY <2>1
  <2> HIDE DEF E
  <2> QED
    BY <1>7, <2>2 DEF Follows
<1>9. g = [k \in 0 .. n |-> IF k = 0 THEN b ELSE NextOf(k, g[k - 1])]
  BY <1>8
<1>10. G = [k \in 0 .. n |-> IF k = 0 THEN b ELSE NextOf(k, G[k - 1])]
  BY <1>9
<1> HIDE DEF G, E
<1>11. \A k \in 0 .. n : G[k] = IF k = 0 THEN b ELSE NextOf(k, G[k - 1])
  BY <1>10
<1> DEFINE B == {k \in 0 .. n : G[k] \in V}
<1>12. 0 \in B
  BY <1>1, <1>4, <1>11
<1>13. ASSUME NEW k \in 0 .. n, k \in B, k < n PROVE k + 1 \in B
  <2>1. k + 1 \in 0 .. n /\ k + 1 # 0 /\ (k + 1) - 1 = k /\ k + 1 \in 1 .. n
    BY <1>1, <1>13
  <2>2. G[k + 1] = NextOf(k + 1, G[k])
    BY <1>11, <2>1
  <2> QED
    BY <1>5, <1>13, <2>1, <2>2
<1>14. \A k \in 0 .. n : G[k] \in V
  <2> HIDE DEF B
  <2>1. 0 .. n \subseteq B
    BY <1>1, <1>12, <1>13, Counting
  <2> QED
    BY <2>1 DEF B
<1>15. G \in [0 .. n -> V]
  BY <1>10, <1>14
<1>16. G[0] = b /\ \A k \in 1 .. n : G[k] = NextOf(k, G[k - 1])
  <2>1. 0 \in 0 .. n /\ \A k \in 1 .. n : k \in 0 .. n /\ k # 0
    BY <1>1
  <2> QED
    BY <1>11, <2>1
<1> QED
  BY <1>2, <1>3, <1>15, <1>16 DEF n, b, V, NextOf, PrintsUp, Prints

LEMMA OneByOneAgrees ==
  ASSUME NEW W, NEW subs \in Seq(Conditions), NEW g, NEW h,
         Known(W, g, subs), \A x \in ToSet(subs) : g[x] = h[x]
  PROVE  OneByOne(g, subs) = OneByOne(h, subs)
<1> DEFINE n == Len(subs)
<1>1. PICK s \in [0 .. n -> SUBSET Outcome(W)] : PrintsUp(g, subs, s)
  <2>1. Prints(W, g, subs)
    BY OneByOneIs
  <2> QED
    BY <2>1 DEF Prints
<1>2. PICK t \in [0 .. n -> SUBSET Outcome(W)] : PrintsUp(h, subs, t)
  <2>1. Known(W, h, subs)
    BY DEF Known
  <2>2. Prints(W, h, subs)
    BY <2>1, OneByOneIs
  <2> QED
    BY <2>2 DEF Prints
<1>3. n \in Nat /\ \A k \in 1 .. n : g[subs[k]] = h[subs[k]]
  <2>1. \A i \in 1 .. n : subs[i] \in ToSet(subs)
    BY DEF ToSet
  <2> QED
    BY <2>1
<1> DEFINE B == {k \in 0 .. n : s[k] = t[k]}
<1>4. 0 \in B
  <2>1. s[0] = t[0]
    BY <1>1, <1>2 DEF PrintsUp
  <2> QED
    BY <1>3, <2>1
<1>5. ASSUME NEW k \in 0 .. n, k \in B, k < n PROVE k + 1 \in B
  <2>1. k + 1 \in 1 .. n /\ k + 1 \in 0 .. n /\ (k + 1) - 1 = k
    BY <1>3, <1>5
  <2>2. /\ s[k + 1] = PrintedNext(g, subs[k + 1], s[k])
        /\ t[k + 1] = PrintedNext(h, subs[k + 1], t[k])
    BY <1>1, <1>2, <2>1 DEF PrintsUp
  <2>3. PrintedNext(g, subs[k + 1], s[k]) = PrintedNext(h, subs[k + 1], s[k])
    BY <1>3, <2>1 DEF PrintedNext
  <2> QED
    BY <1>5, <2>1, <2>2, <2>3
<1>6. n \in B
  <2> HIDE DEF B, n
  <2>1. 0 .. n \subseteq B
    BY <1>3, <1>4, <1>5, Counting
  <2> QED
    BY <1>3, <2>1
<1> QED
  BY <1>1, <1>2, <1>6 DEF PrintsUp

LEMMA ChainAgrees ==
  ASSUME NEW W, NEW subs \in Seq(Conditions), NEW stop, stop \in BOOLEAN, NEW g, NEW h,
         Known(W, g, subs), \A x \in ToSet(subs) : g[x] = h[x]
  PROVE  Chain(g, subs, stop) = Chain(h, subs, stop)
<1> DEFINE n == Len(subs)
<1>1. PICK s \in [0 .. n -> SUBSET Outcome(W)] : ChainsUp(g, subs, stop, s)
  <2>1. Chains(W, g, subs, stop)
    BY ChainIs
  <2> QED
    BY <2>1 DEF Chains
<1>2. PICK t \in [0 .. n -> SUBSET Outcome(W)] : ChainsUp(h, subs, stop, t)
  <2>1. Known(W, h, subs)
    BY DEF Known
  <2>2. Chains(W, h, subs, stop)
    BY <2>1, ChainIs
  <2> QED
    BY <2>2 DEF Chains
<1>3. n \in Nat /\ \A k \in 1 .. n : g[subs[k]] = h[subs[k]]
  <2>1. \A i \in 1 .. n : subs[i] \in ToSet(subs)
    BY DEF ToSet
  <2> QED
    BY <2>1
<1> DEFINE B == {k \in 0 .. n : s[k] = t[k]}
<1>4. 0 \in B
  <2>1. s[0] = t[0]
    BY <1>1, <1>2 DEF ChainsUp
  <2> QED
    BY <1>3, <2>1
<1>5. ASSUME NEW k \in 0 .. n, k \in B, k < n PROVE k + 1 \in B
  <2>1. k + 1 \in 1 .. n /\ k + 1 \in 0 .. n /\ (k + 1) - 1 = k
    BY <1>3, <1>5
  <2>2. /\ s[k + 1] = Continued(g, subs[k + 1], s[k], stop)
        /\ t[k + 1] = Continued(h, subs[k + 1], t[k], stop)
    BY <1>1, <1>2, <2>1 DEF ChainsUp
  <2>3. Continued(g, subs[k + 1], s[k], stop) = Continued(h, subs[k + 1], s[k], stop)
    BY <1>3, <2>1 DEF Continued
  <2> QED
    BY <1>5, <2>1, <2>2, <2>3
<1>6. n \in B
  <2> HIDE DEF B, n
  <2>1. 0 .. n \subseteq B
    BY <1>3, <1>4, <1>5, Counting
  <2> QED
    BY <1>3, <2>1
<1> QED
  BY <1>1, <1>2, <1>6 DEF ChainsUp

LEMMA SelectIs ==
  ASSUME NEW W, NEW filters \in Seq(Filters), \A i \in DOMAIN filters : Stays(W, filters[i])
  PROVE  \A o \in Select(filters) : o \in Outcome(W) /\ (o.holds => Found(o))
<1> DEFINE n == Len(filters)
           V == SUBSET Seq(W)
           b == {<<>>}
           NextOf(k, S) == UNION {AfterFilter(filters[k], s) : s \in S}
           E == [p \in (0 + 1 .. n) \X V |-> NextOf(p[1], p[2])]
           G == CHOOSE g : g = [k \in 0 .. n |->
                  IF k = 0 THEN b ELSE UNION {AfterFilter(filters[k], s) : s \in g[k - 1]}]
           looked == \E i \in DOMAIN filters : Looks[filters[i]]
<1>1. n \in Nat /\ \A i \in 1 .. n : filters[i] \in Filters
  OBVIOUS
<1>2. Select(filters) = {[holds |-> s # <<>>, picked |-> <<s>>, looked |-> looked] : s \in G[n]}
  BY DEF Select
<1>4. b \in V
  OBVIOUS
<1>5. \A k \in 1 .. n, S \in V : NextOf(k, S) \in V
  <2> SUFFICES ASSUME NEW k \in 1 .. n, NEW S \in V, NEW s \in S PROVE AfterFilter(filters[k], s) \in V
    OBVIOUS
  <2> QED
    BY <1>1 DEF Stays
<1>17. looked \in BOOLEAN
  OBVIOUS
<1> HIDE DEF b, NextOf, n, V, looked
<1>6. StepsIn(0, n, V, b, E)
  <2>1. \A i \in 0 + 1 .. n : i \in 1 .. n
    OBVIOUS
  <2> QED
    BY <1>4, <1>5, <2>1 DEF StepsIn
<1>7. PICK g \in [0 .. n -> V] : Follows(g, 0, n, b, E)
  <2> HIDE DEF E
  <2> QED
    BY <1>1, <1>6, StepByStep
<1>8. ASSUME NEW k \in 0 .. n PROVE g[k] = IF k = 0 THEN b ELSE NextOf(k, g[k - 1])
  <2>1. k = 0 \/ (k - 1 \in 0 .. n /\ k \in 0 + 1 .. n)
    BY <1>1
  <2>2. k = 0 \/ E[<<k, g[k - 1]>>] = NextOf(k, g[k - 1])
    BY <2>1
  <2> HIDE DEF E
  <2> QED
    BY <1>7, <2>2 DEF Follows
<1>9. g = [k \in 0 .. n |-> IF k = 0 THEN b ELSE NextOf(k, g[k - 1])]
  BY <1>8
<1>10. G = [k \in 0 .. n |-> IF k = 0 THEN b ELSE NextOf(k, G[k - 1])]
  BY <1>9 DEF NextOf
<1> HIDE DEF G, E
<1>11. \A k \in 0 .. n : G[k] = IF k = 0 THEN b ELSE NextOf(k, G[k - 1])
  BY <1>10
<1> DEFINE B == {k \in 0 .. n : G[k] \in V}
<1>12. 0 \in B
  BY <1>1, <1>4, <1>11
<1>13. ASSUME NEW k \in 0 .. n, k \in B, k < n PROVE k + 1 \in B
  <2>1. k + 1 \in 0 .. n /\ k + 1 # 0 /\ (k + 1) - 1 = k /\ k + 1 \in 1 .. n
    BY <1>1, <1>13
  <2>2. G[k + 1] = NextOf(k + 1, G[k])
    BY <1>11, <2>1
  <2> QED
    BY <1>5, <1>13, <2>1, <2>2
<1>14. \A k \in 0 .. n : G[k] \in V
  <2> HIDE DEF B
  <2>1. 0 .. n \subseteq B
    BY <1>1, <1>12, <1>13, Counting
  <2> QED
    BY <2>1 DEF B
<1>15. G \in [0 .. n -> V]
  BY <1>10, <1>14
<1>16. G[0] = b /\ \A k \in 1 .. n : G[k] = NextOf(k, G[k - 1])
  <2>1. 0 \in 0 .. n /\ \A k \in 1 .. n : k \in 0 .. n /\ k # 0
    BY <1>1
  <2> QED
    BY <1>11, <2>1
<1>18. G[n] \in SUBSET Seq(W)
  BY <1>1, <1>14 DEF V
<1>19. ASSUME NEW s \in Seq(W)
       PROVE  LET o == [holds |-> s # <<>>, picked |-> <<s>>, looked |-> looked]
              IN  o \in Outcome(W) /\ (o.holds => Found(o))
  <2>1. <<s>> # <<>> /\ <<s>>[1] = s /\ <<s>> \in Picks(W)
    BY DEF Picks
  <2>2. (s # <<>>) \in BOOLEAN
    OBVIOUS
  <2> QED
    BY <1>17, <2>1, <2>2 DEF Outcome, Found
<1> QED
  BY <1>2, <1>18, <1>19

LEMMA OutcomesBy ==
  ASSUME NEW c, NEW from
  PROVE  /\ c.type = "Filter" => Outcomes(from, c) = Select(c.filters)
         /\ c.type = "And" => Outcomes(from, c) = Chain(from, c.subs, FALSE)
         /\ c.type = "Or" => Outcomes(from, c) = Chain(from, c.subs, TRUE)
         /\ c.type = "Not" => Outcomes(from, c) = Not(from, c.subs[1])
         /\ c.type = "HasEnemies" => Outcomes(from, c) = HasEnemies(c.n)
         /\ c.type = "IsInGroup" => Outcomes(from, c) = IsInGroup
         /\ c.type = "IsGroupLeader" => Outcomes(from, c) = IsGroupLeader
         /\ c.type = "IsCloseToGroup" => Outcomes(from, c) = IsCloseToGroup
         /\ c.type = "True" => Outcomes(from, c) = {Answer(TRUE)}
         /\ c.type = "False" => Outcomes(from, c) = {Answer(FALSE)}
BY DEF Outcomes, And, Or

LEMMA ChainWithin ==
  ASSUME NEW W, NEW from, NEW subs \in Seq(Conditions), NEW stop, stop \in BOOLEAN, Known(W, from, subs)
  PROVE  Chain(from, subs, stop) \in SUBSET Outcome(W)
<1>1. PICK after \in [0 .. Len(subs) -> SUBSET Outcome(W)] : ChainsUp(from, subs, stop, after)
  BY ChainIs DEF Chains
<1>2. Len(subs) \in 0 .. Len(subs)
  OBVIOUS
<1> QED
  BY <1>1, <1>2 DEF ChainsUp

LEMMA OneByOneWithin ==
  ASSUME NEW W, NEW from, NEW subs \in Seq(Conditions), Known(W, from, subs)
  PROVE  OneByOne(from, subs) \in SUBSET Outcome(W)
<1>1. PICK parts \in [0 .. Len(subs) -> SUBSET Outcome(W)] : PrintsUp(from, subs, parts)
  BY OneByOneIs DEF Prints
<1>2. Len(subs) \in 0 .. Len(subs)
  OBVIOUS
<1> QED
  BY <1>1, <1>2 DEF PrintsUp

LEMMA NotIs ==
  ASSUME NEW W, NEW from, NEW sub, from[sub] \in SUBSET Outcome(W)
  PROVE  Not(from, sub) \in SUBSET Outcome(W)
<1>1. ASSUME NEW o \in Outcome(W) PROVE [o EXCEPT !.holds = ~@] \in Outcome(W)
  <2>1. (~ o.holds) \in BOOLEAN
    OBVIOUS
  <2>2. \A b \in BOOLEAN : [o EXCEPT !.holds = b] \in Outcome(W)
    BY DEF Outcome
  <2>3. [o EXCEPT !.holds = ~@] = [o EXCEPT !.holds = ~ o.holds]
    OBVIOUS
  <2> QED
    BY <2>1, <2>2, <2>3, Zenon
<1>2. \A q \in Not(from, sub) : \E o \in from[sub] : q = [o EXCEPT !.holds = ~@]
  BY DEF Not
<1> QED
  BY <1>1, <1>2, Zenon

LEMMA QuestionsAre ==
  ASSUME NEW W, NEW n
  PROVE  /\ HasEnemies(n) \in SUBSET Outcome(W) /\ IsInGroup \in SUBSET Outcome(W)
         /\ IsGroupLeader \in SUBSET Outcome(W) /\ IsCloseToGroup \in SUBSET Outcome(W)
<1>1. \A b \in BOOLEAN : Answer(b) \in Outcome(W)
  BY AnswerIs
<1>2. \A b \in BOOLEAN : [Answer(b) EXCEPT !.looked = TRUE] \in Outcome(W)
  BY <1>1 DEF Outcome
<1>3. /\ (entries # <<>>) \in BOOLEAN /\ (Len(entries) >= n) \in BOOLEAN
      /\ (Self \in members) \in BOOLEAN /\ (Self = leader) \in BOOLEAN
  OBVIOUS
<1>4. HasEnemies(n) \in SUBSET Outcome(W)
  <2>1. CASE n = -1
    BY <1>2, <1>3, <2>1 DEF HasEnemies
  <2>2. CASE n # -1
    BY <1>1, <1>3, <2>2 DEF HasEnemies
  <2> QED
    BY <2>1, <2>2
<1>5. IsInGroup \in SUBSET Outcome(W) /\ IsGroupLeader \in SUBSET Outcome(W)
  BY <1>1, <1>3 DEF IsInGroup, IsGroupLeader
<1>6. IsCloseToGroup \in SUBSET Outcome(W)
  BY <1>1 DEF IsCloseToGroup
<1> QED
  BY <1>4, <1>5, <1>6

LEMMA OutcomesAre ==
  ASSUME NEW W, NEW c \in Conditions, \A i \in DOMAIN c.filters : Stays(W, c.filters[i]),
         NEW from, Known(W, from, c.subs)
  PROVE  Outcomes(from, c) \in SUBSET Outcome(W)
<1>1. c.subs \in Seq(Conditions) /\ c.filters \in Seq(Filters)
  BY ConditionIs
<1>2. CASE c.type \in {"And", "Or"}
  <2>1. Chain(from, c.subs, FALSE) \in SUBSET Outcome(W)
    BY <1>1, ChainWithin
  <2>2. Chain(from, c.subs, TRUE) \in SUBSET Outcome(W)
    BY <1>1, ChainWithin
  <2> QED
    BY <1>2, <2>1, <2>2, OutcomesBy
<1>3. CASE c.type = "Not" /\ Len(c.subs) = 1
  <2>1. from[c.subs[1]] \in SUBSET Outcome(W)
    BY <1>1, <1>3 DEF Known, ToSet
  <2> QED
    <3>1. Not(from, c.subs[1]) \in SUBSET Outcome(W)
      BY <2>1, NotIs
    <3> QED
      BY <1>3, <3>1, OutcomesBy
<1>4. CASE c.type = "Filter"
  <2>1. \A o \in Select(c.filters) : o \in Outcome(W)
    BY <1>1, SelectIs
  <2> QED
    BY <1>4, <2>1, OutcomesBy
<1>5. CASE c.type \in {"True", "False"}
  <2>1. Answer(TRUE) \in Outcome(W) /\ Answer(FALSE) \in Outcome(W)
    BY AnswerIs
  <2> QED
    BY <1>5, <2>1, OutcomesBy
<1>6. CASE c.type \in {"HasEnemies", "IsInGroup", "IsGroupLeader", "IsCloseToGroup"}
  BY <1>6, QuestionsAre, OutcomesBy
<1> QED
  BY <1>2, <1>3, <1>4, <1>5, <1>6, ConditionIs DEF Questions

LEMMA OutcomesAgree ==
  ASSUME NEW W, NEW c \in Conditions, NEW g, NEW h, Known(W, g, c.subs), \A x \in ToSet(c.subs) : g[x] = h[x]
  PROVE  Outcomes(g, c) = Outcomes(h, c)
<1>1. c.subs \in Seq(Conditions)
  BY ConditionIs
<1>2. CASE c.type = "And"
  <2>1. Chain(g, c.subs, FALSE) = Chain(h, c.subs, FALSE)
    BY <1>1, ChainAgrees
  <2> QED
    BY <1>2, <2>1, OutcomesBy
<1>3. CASE c.type = "Or"
  <2>1. Chain(g, c.subs, TRUE) = Chain(h, c.subs, TRUE)
    BY <1>1, ChainAgrees
  <2> QED
    BY <1>3, <2>1, OutcomesBy
<1>4. CASE c.type = "Not" /\ Len(c.subs) = 1
  <2>1. g[c.subs[1]] = h[c.subs[1]]
    BY <1>1, <1>4 DEF ToSet
  <2>2. Not(g, c.subs[1]) = Not(h, c.subs[1])
    BY <2>1, Zenon DEF Not
  <2> QED
    BY <1>4, <2>2, OutcomesBy
<1>5. CASE c.type \in Questions \union {"Filter"}
  BY <1>5, OutcomesBy DEF Questions
<1> QED
  BY <1>2, <1>3, <1>4, <1>5, ConditionIs

\* All conditions together find what is in the world.
LEMMA AllStay ==
  ASSUME Within(Values, FilterTypes), EnemiesInv, NEW f \in Filters
  PROVE  Stays(Values, f)
<1>1. Types[f] \in SUBSET FilterTypes
  BY TypesAre
<1>2. PICK U \in SUBSET FilterTypes : U = FilterTypes
  OBVIOUS
<1> QED
  BY <1>1, <1>2, AfterFilterIs

LEMMA EvaluatedIs ==
  ASSUME NEW W, W = Values, Within(Values, FilterTypes), EnemiesInv
  PROVE  /\ Evaluated \in [Conditions -> SUBSET Outcome(W)]
         /\ \A c \in Conditions : Evaluated[c] = Outcomes(Evaluated, c)
<1> DEFINE V == SUBSET Outcome(W)
           Part == Parts(Conditions)
           D == [g \in [Conditions -> V] |-> [c \in Conditions |-> Outcomes(g, c)]]
<1>1. WellParted(Conditions, Part) /\ \A c \in Conditions : Part[c] = ToSet(c.subs) /\ Part[c] \subseteq Conditions
  BY PartsOfParts, ConditionIs DEF Parts, ToSet
<1>2. ASSUME NEW c \in Conditions, NEW g, \A x \in Part[c] : g[x] \in V
      PROVE  Outcomes(g, c) \in V
  <2>1. Known(W, g, c.subs)
    BY <1>1, <1>2 DEF Known
  <2>2. \A i \in DOMAIN c.filters : Stays(W, c.filters[i])
    BY AllStay, ConditionIs
  <2> QED
    BY <2>1, <2>2, OutcomesAre
<1>3. ASSUME NEW c \in Conditions, NEW g, NEW h, \A x \in Part[c] : g[x] \in V /\ g[x] = h[x]
      PROVE  Outcomes(g, c) = Outcomes(h, c)
  <2>1. Known(W, g, c.subs) /\ \A x \in ToSet(c.subs) : g[x] = h[x]
    BY <1>1, <1>3 DEF Known
  <2> QED
    BY <2>1, OutcomesAgree
<1>4. Determines(Conditions, V, Part, D)
  <2> HIDE DEF Part, V
  <2>1. ASSUME NEW g \in [Conditions -> V]
        PROVE  D[g] \in [Conditions -> V] /\ \A c \in Conditions : D[g][c] = Outcomes(g, c)
    BY <1>1, <1>2
  <2> HIDE DEF D
  <2>2. ASSUME NEW g \in [Conditions -> V], NEW h \in [Conditions -> V], NEW c \in Conditions,
               \A x \in Part[c] \intersect Conditions : g[x] = h[x]
        PROVE  D[g][c] = D[h][c]
    BY <1>1, <1>3, <2>1, <2>2
  <2> QED
    BY <2>1, <2>2 DEF Determines
<1>5. PICK g \in [Conditions -> V] : g = D[g]
  <2>1. {} \in V
    OBVIOUS
  <2> HIDE DEF Part, V, D
  <2> QED
    BY <1>1, <1>4, <2>1, RecursionWorks
<1>6. Evaluated = [c \in Conditions |-> Outcomes(Evaluated, c)]
  <2>1. g = [c \in Conditions |-> Outcomes(g, c)]
    BY <1>5
  <2> QED
    BY <2>1 DEF Evaluated
<1>7. \A c \in Conditions : Evaluated[c] \in V
  <2> DEFINE B == {c \in Conditions : Evaluated[c] \in V}
  <2>1. ASSUME NEW c \in Conditions, Part[c] \intersect Conditions \subseteq B PROVE c \in B
    <3>1. Evaluated[c] = Outcomes(Evaluated, c)
      BY <1>6
    <3>2. \A x \in Part[c] : Evaluated[x] \in V
      BY <1>1, <2>1
    <3> HIDE DEF V, Part
    <3> QED
      BY <1>2, <3>1, <3>2
  <2> HIDE DEF B, Part
  <2>2. Conditions \subseteq B
    BY <1>1, <2>1, PartsFirst
  <2> QED
    BY <2>2 DEF B
<1> QED
  BY <1>6, <1>7

LEMMA PrintedIs ==
  ASSUME NEW W, W = Values, Within(Values, FilterTypes), EnemiesInv
  PROVE  Printed \in [Conditions -> SUBSET Outcome(W)]
<1> DEFINE V == SUBSET Outcome(W)
           Part == Parts(Conditions)
           At(g, c) == {Then(o, p) : o \in OneByOne(g, c.subs), p \in Evaluated[c]}
           D == [g \in [Conditions -> V] |-> [c \in Conditions |-> At(g, c)]]
<1>1. WellParted(Conditions, Part) /\ \A c \in Conditions : Part[c] = ToSet(c.subs) /\ Part[c] \subseteq Conditions
  BY PartsOfParts, ConditionIs DEF Parts, ToSet
<1>2. ASSUME NEW c \in Conditions, NEW g, \A x \in Part[c] : g[x] \in V
      PROVE  At(g, c) \in V
  <2>1. Known(W, g, c.subs)
    BY <1>1, <1>2 DEF Known
  <2>2. OneByOne(g, c.subs) \in V /\ Evaluated[c] \in V
    BY <2>1, ConditionIs, OneByOneWithin, EvaluatedIs
  <2>3. \A q \in At(g, c) : \E o \in OneByOne(g, c.subs), p \in Evaluated[c] : q = Then(o, p)
    OBVIOUS
  <2> HIDE DEF At
  <2> QED
    BY <2>2, <2>3, ThenIs
<1>3. ASSUME NEW c \in Conditions, NEW g, NEW h, \A x \in Part[c] : g[x] \in V /\ g[x] = h[x]
      PROVE  At(g, c) = At(h, c)
  <2>1. Known(W, g, c.subs) /\ \A x \in ToSet(c.subs) : g[x] = h[x]
    BY <1>1, <1>3 DEF Known
  <2>2. OneByOne(g, c.subs) = OneByOne(h, c.subs)
    BY <2>1, ConditionIs, OneByOneAgrees
  <2> QED
    BY <2>2
<1>5. PICK g \in [Conditions -> V] : g = D[g]
  <2> HIDE DEF At, Part, V
  <2>1. ASSUME NEW g \in [Conditions -> V]
        PROVE  D[g] \in [Conditions -> V] /\ \A c \in Conditions : D[g][c] = At(g, c)
    BY <1>1, <1>2
  <2> HIDE DEF D
  <2>2. ASSUME NEW g \in [Conditions -> V], NEW h \in [Conditions -> V], NEW c \in Conditions,
               \A x \in Part[c] \intersect Conditions : g[x] = h[x]
        PROVE  D[g][c] = D[h][c]
    BY <1>1, <1>3, <2>1, <2>2
  <2>3. Determines(Conditions, V, Part, D)
    BY <2>1, <2>2 DEF Determines
  <2>4. {} \in V
    BY DEF V
  <2> QED
    BY <1>1, <2>3, <2>4, RecursionWorks
<1>6. Printed = [c \in Conditions |-> At(Printed, c)]
  <2>1. g = [c \in Conditions |-> At(g, c)]
    <3> HIDE DEF At
    <3> QED
      BY <1>5
  <2> DEFINE G == CHOOSE f : f = [c \in Conditions |-> At(f, c)]
  <2>2. Printed = G
    BY DEF Printed
  <2> HIDE DEF At
  <2>3. G = [c \in Conditions |-> At(G, c)]
    BY <2>1
  <2> QED
    BY <2>2, <2>3
<1> HIDE DEF At
<1>7. \A c \in Conditions : Printed[c] \in V
  <2> DEFINE B == {c \in Conditions : Printed[c] \in V}
  <2>1. ASSUME NEW c \in Conditions, Part[c] \intersect Conditions \subseteq B PROVE c \in B
    <3>1. Printed[c] = At(Printed, c)
      BY <1>6
    <3>2. \A x \in Part[c] : Printed[x] \in V
      BY <1>1, <2>1
    <3> HIDE DEF V, Part
    <3> QED
      BY <1>2, <3>1, <3>2
  <2> HIDE DEF B, Part
  <2>2. Conditions \subseteq B
    BY <1>1, <2>1, PartsFirst
  <2> QED
    BY <2>2 DEF B
<1> QED
  BY <1>6, <1>7

LEMMA UsesAre ==
  /\ Uses \in [Conditions -> SUBSET FilterTypes]
  /\ \A c \in Conditions : \A i \in DOMAIN c.filters : Types[c.filters[i]] \subseteq Uses[c]
  /\ \A c \in Conditions : \A i \in DOMAIN c.subs : Uses[c.subs[i]] \subseteq Uses[c]
<1> DEFINE V == SUBSET FilterTypes
           Part == Parts(Conditions)
           Own(c) == UNION {Types[c.filters[i]] : i \in DOMAIN c.filters}
           Deeper(g, c) == UNION {g[c.subs[i]] : i \in DOMAIN c.subs}
           At(g, c) == Own(c) \union Deeper(g, c)
           D == [g \in [Conditions -> V] |-> [c \in Conditions |-> At(g, c)]]
           G == CHOOSE h : h = [c \in Conditions |-> At(h, c)]
<1>1. /\ WellParted(Conditions, Part)
      /\ \A c \in Conditions : \A i \in DOMAIN c.subs : c.subs[i] \in Part[c] /\ c.subs[i] \in Conditions
  BY PartsOfParts, ConditionIs DEF Parts, ToSet
<1>2. Uses = G
  BY Zenon DEF Uses
<1> HIDE DEF Own, Deeper
<1>3. ASSUME NEW g, NEW c PROVE At(g, c) = Own(c) \union Deeper(g, c)
  OBVIOUS
<1> USE DEF Own, Deeper
<1>4. \A c \in Conditions : Own(c) \in V
  <2> SUFFICES ASSUME NEW c \in Conditions PROVE Own(c) \in V
    OBVIOUS
  <2>1. \A i \in DOMAIN c.filters : Types[c.filters[i]] \in V
    BY ConditionIs, TypesAre
  <2> QED
    BY <2>1
<1>5. \A c \in Conditions : \A i \in DOMAIN c.filters : Types[c.filters[i]] \subseteq Own(c)
  OBVIOUS
<1>6. ASSUME NEW g, NEW c \in Conditions, \A i \in DOMAIN c.subs : g[c.subs[i]] \in V PROVE Deeper(g, c) \in V
  BY <1>6
<1>7. \A g, c : \A i \in DOMAIN c.subs : g[c.subs[i]] \subseteq Deeper(g, c)
  OBVIOUS
<1>8. ASSUME NEW g, NEW h, NEW c \in Conditions, \A x \in Part[c] \intersect Conditions : g[x] = h[x]
      PROVE  At(g, c) = At(h, c)
  <2>1. \A i \in DOMAIN c.subs : g[c.subs[i]] = h[c.subs[i]]
    BY <1>1, <1>8
  <2> QED
    BY <2>1
<1> HIDE DEF At, Own, Deeper, Part
<1>9. ASSUME NEW g, NEW c \in Conditions, \A i \in DOMAIN c.subs : g[c.subs[i]] \in V PROVE At(g, c) \in V
  <2>1. Deeper(g, c) \in V /\ Own(c) \in V
    BY <1>4, <1>6, <1>9
  <2>2. At(g, c) = Own(c) \union Deeper(g, c)
    BY <1>3
  <2> QED
    BY <2>1, <2>2
<1> HIDE DEF V
<1>10. PICK g \in [Conditions -> V] : g = D[g]
  <2>1. ASSUME NEW g \in [Conditions -> V]
        PROVE  D[g] \in [Conditions -> V] /\ \A c \in Conditions : D[g][c] = At(g, c)
    <3>1. \A c \in Conditions : \A i \in DOMAIN c.subs : g[c.subs[i]] \in V
      BY <1>1
    <3> QED
      BY <1>9, <3>1
  <2> HIDE DEF D
  <2>2. Determines(Conditions, V, Part, D)
    BY <1>8, <2>1 DEF Determines
  <2>3. {} \in V
    BY DEF V
  <2> QED
    BY <1>1, <2>2, <2>3, RecursionWorks
<1>11. g = [c \in Conditions |-> At(g, c)]
  BY <1>10
<1>12. G = [c \in Conditions |-> At(G, c)]
  BY <1>11
<1>13. Uses = [c \in Conditions |-> At(Uses, c)]
  BY <1>2, <1>12
<1> HIDE DEF G, D
<1>14. \A c \in Conditions : Uses[c] = At(Uses, c) /\ Uses[c] = Own(c) \union Deeper(Uses, c)
  BY <1>3, <1>13
<1>15. Conditions \subseteq {c \in Conditions : Uses[c] \in V}
  <2> DEFINE B == {c \in Conditions : Uses[c] \in V}
  <2>1. ASSUME NEW c \in Conditions, Part[c] \intersect Conditions \subseteq B PROVE c \in B
    <3>1. \A i \in DOMAIN c.subs : Uses[c.subs[i]] \in V
      BY <1>1, <2>1
    <3>2. At(Uses, c) \in V
      BY <1>9, <3>1
    <3> QED
      BY <1>14, <3>2
  <2> HIDE DEF B
  <2>2. Conditions \subseteq B
    BY <1>1, <2>1, PartsFirst
  <2> QED
    BY <2>2 DEF B
<1>16. Uses \in [Conditions -> V]
  BY <1>13, <1>15
<1>17. \A c \in Conditions : \A i \in DOMAIN c.filters : Types[c.filters[i]] \subseteq Uses[c]
  BY <1>5, <1>14
<1>18. \A c \in Conditions : \A i \in DOMAIN c.subs : Uses[c.subs[i]] \subseteq Uses[c]
  BY <1>7, <1>14
<1> QED
  BY <1>16, <1>17, <1>18 DEF V

LEMMA UsesBelow ==
  ASSUME NEW c \in Conditions, NEW k \in ToSet(c.subs)
  PROVE  Uses[k] \subseteq Uses[c]
<1>1. PICK i \in DOMAIN c.subs : k = c.subs[i]
  BY DEF ToSet
<1> QED
  BY <1>1, UsesAre

\* What a condition selects comes from where its filters look.
LEMMA EvaluatedStays ==
  ASSUME NEW W, NEW U \in SUBSET FilterTypes, Within(W, U), Within(Values, FilterTypes), EnemiesInv,
         NEW c \in Conditions, Uses[c] \subseteq U
  PROVE  Evaluated[c] \in SUBSET Outcome(W)
<1> DEFINE B == {k \in Conditions : Uses[k] \subseteq U => Evaluated[k] \in SUBSET Outcome(W)}
           Part == Parts(Conditions)
<1>1. WellParted(Conditions, Part) /\ \A k \in Conditions : Part[k] = ToSet(k.subs) /\ Part[k] \subseteq Conditions
  BY PartsOfParts, ConditionIs DEF Parts, ToSet
<1>2. ASSUME NEW k \in Conditions, Part[k] \intersect Conditions \subseteq B, Uses[k] \subseteq U
      PROVE  Evaluated[k] \in SUBSET Outcome(W)
  <2>1. Known(W, Evaluated, k.subs)
    <3>1. ASSUME NEW x \in ToSet(k.subs) PROVE Evaluated[x] \in SUBSET Outcome(W)
      <4>1. x \in Part[k] \intersect Conditions
        BY <1>1
      <4>2. Uses[x] \subseteq U
        <5>1. Uses[x] \subseteq Uses[k]
          BY UsesBelow
        <5>2. Uses[k] \subseteq U
          BY <1>2
        <5> HIDE DEF B, Part
        <5> QED
          BY <5>1, <5>2
      <4>3. x \in B
        BY <1>2, <4>1
      <4> QED
        BY <4>2, <4>3
    <3> QED
      BY <3>1 DEF Known
  <2>2. \A i \in DOMAIN k.filters : Stays(W, k.filters[i])
    <3>1. \A i \in DOMAIN k.filters : k.filters[i] \in Filters /\ Types[k.filters[i]] \subseteq U
      BY <1>2, ConditionIs, UsesAre
    <3> QED
      BY <3>1, AfterFilterIs
  <2>3. Evaluated[k] = Outcomes(Evaluated, k)
    BY EvaluatedIs
  <2> QED
    BY <2>1, <2>2, <2>3, OutcomesAre
<1>3. ASSUME NEW k \in Conditions, Part[k] \intersect Conditions \subseteq B PROVE k \in B
  <2>1. Uses[k] \subseteq U => Evaluated[k] \in SUBSET Outcome(W)
    <3> HIDE DEF B
    <3> QED
      BY <1>2, <1>3
  <2> QED
    BY <2>1
<1>4. Conditions \subseteq B
  <2> HIDE DEF B, Part
  <2> QED
    BY <1>1, <1>3, PartsFirst
<1> QED
  BY <1>4

\* What Selects tells of a condition, if g tells it of its parts.
SelectsAll(g, subs) == \A i \in DOMAIN subs : g[subs[i]]
SelectsLast(g, subs) ==
  \E i \in DOMAIN subs :
    g[subs[i]] /\ \A j \in i + 1 .. Len(subs) : g[subs[j]] \/ \A o \in Evaluated[subs[j]] : o.picked = <<>>

LEMMA SelectsIs ==
  ASSUME NEW c \in Conditions
  PROVE  /\ c.type = "And" => (Selects[c] <=> SelectsLast(Selects, c.subs))
         /\ c.type = "Or" => (Selects[c] <=> SelectsAll(Selects, c.subs))
         /\ c.type \notin {"Filter", "And", "Or"} => ~ Selects[c]
<1> DEFINE Part == Parts(Conditions)
           At(g, k) == \/ k.type = "Filter"
                       \/ k.type = "And" /\ SelectsLast(g, k.subs)
                       \/ k.type = "Or" /\ SelectsAll(g, k.subs)
           D == [g \in [Conditions -> BOOLEAN] |-> [k \in Conditions |-> At(g, k)]]
           G == CHOOSE g : g = [k \in Conditions |-> At(g, k)]
<1>1. /\ WellParted(Conditions, Part)
      /\ \A k \in Conditions : Part[k] = ToSet(k.subs) /\ \A i \in DOMAIN k.subs : k.subs[i] \in Part[k] \intersect Conditions
  BY PartsOfParts, ConditionIs DEF Parts, ToSet
<1>2. Selects = G
  BY Zenon DEF Selects, SelectsLast, SelectsAll
<1>3. \A g, k : At(g, k) \in BOOLEAN
  BY DEF SelectsLast, SelectsAll
<1>4. ASSUME NEW g, NEW h, NEW k \in Conditions, \A x \in Part[k] \intersect Conditions : g[x] = h[x]
      PROVE  At(g, k) = At(h, k)
  <2>1. \A i \in DOMAIN k.subs : g[k.subs[i]] = h[k.subs[i]]
    BY <1>1, <1>4
  <2>2. \A i \in DOMAIN k.subs : \A j \in i + 1 .. Len(k.subs) : j \in DOMAIN k.subs
    BY ConditionIs
  <2>3. SelectsAll(g, k.subs) = SelectsAll(h, k.subs)
    BY <2>1 DEF SelectsAll
  <2>4. SelectsLast(g, k.subs) = SelectsLast(h, k.subs)
    BY <2>1, <2>2 DEF SelectsLast
  <2> QED
    BY <2>3, <2>4
<1> HIDE DEF At
<1>5. PICK g \in [Conditions -> BOOLEAN] : g = D[g]
  <2>1. ASSUME NEW g \in [Conditions -> BOOLEAN]
        PROVE  D[g] \in [Conditions -> BOOLEAN] /\ \A k \in Conditions : D[g][k] = At(g, k)
    BY <1>3
  <2> HIDE DEF D, Part
  <2> DEFINE V == BOOLEAN
  <2>2. Determines(Conditions, V, Part, D)
    BY <1>4, <2>1 DEF Determines
  <2>3. PICK v : v \in V
    OBVIOUS
  <2> SUFFICES \E f \in [Conditions -> V] : f = D[f]
    OBVIOUS
  <2> HIDE DEF V
  <2> QED
    BY <1>1, <2>2, <2>3, RecursionWorks
<1>6. g = [k \in Conditions |-> At(g, k)]
  BY <1>5
<1>7. G = [k \in Conditions |-> At(G, k)]
  BY <1>6
<1>8. Selects[c] = At(Selects, c)
  BY <1>2, <1>7
<1> QED
  BY <1>8 DEF At, SelectsLast, SelectsAll

\* When a condition holds that is made to select, it has found a target.
LEMMA SelectsFinds ==
  ASSUME NEW W, W = Values, Within(Values, FilterTypes), EnemiesInv
  PROVE  \A c \in Conditions : Selects[c] => \A o \in Evaluated[c] : o.holds => Found(o)
<1> DEFINE Finds(c) == \A o \in Evaluated[c] : o.holds => Found(o)
           B == {c \in Conditions : Selects[c] => Finds(c)}
           Part == Parts(Conditions)
<1>1. WellParted(Conditions, Part) /\ \A c \in Conditions : Part[c] = ToSet(c.subs) /\ Part[c] \subseteq Conditions
  BY PartsOfParts, ConditionIs DEF Parts, ToSet
<1>2. /\ \A c \in Conditions : Evaluated[c] = Outcomes(Evaluated, c)
      /\ \A c \in Conditions : Evaluated[c] \in SUBSET Outcome(W)
  BY EvaluatedIs
<1> SUFFICES ASSUME NEW c \in Conditions, Part[c] \intersect Conditions \subseteq B, Selects[c]
             PROVE  Finds(c)
  <2>1. ASSUME NEW c \in Conditions, Part[c] \intersect Conditions \subseteq B PROVE c \in B
    <3> HIDE DEF Finds, Part
    <3> QED
      BY <2>1
  <2> HIDE DEF B, Part
  <2>2. Conditions \subseteq B
    BY <1>1, <2>1, PartsFirst
  <2> QED
    BY <2>2 DEF B
<1> DEFINE subs == c.subs
           n == Len(subs)
<1>3. /\ subs \in Seq(Conditions) /\ n \in Nat /\ DOMAIN subs = 1 .. n
      /\ \A i \in 1 .. n : /\ subs[i] \in Conditions /\ Evaluated[subs[i]] \in SUBSET Outcome(W)
                           /\ Selects[subs[i]] => Finds(subs[i])
  <2>1. subs \in Seq(Conditions)
    BY ConditionIs
  <2>2. \A i \in 1 .. n : subs[i] \in Conditions /\ subs[i] \in Part[c]
    BY <1>1, <2>1 DEF ToSet
  <2> QED
    BY <1>2, <2>1, <2>2
<1>4. Known(W, Evaluated, subs)
  <2>1. ToSet(subs) \subseteq Conditions
    BY <1>1
  <2> QED
    BY <1>2, <2>1 DEF Known
<1> HIDE DEF B, Part
<1>5. CASE c.type = "Filter"
  <2>1. \A o \in Select(c.filters) : o.holds => Found(o)
    <3>1. c.filters \in Seq(Filters) /\ \A i \in DOMAIN c.filters : Stays(W, c.filters[i])
      BY AllStay, ConditionIs
    <3> QED
      BY <3>1, SelectIs
  <2> QED
    BY <1>2, <1>5, <2>1, OutcomesBy
<1>6. CASE c.type = "Or"
  <2>0. PICK stop \in BOOLEAN : stop = TRUE
    OBVIOUS
  <2>1. Evaluated[c] = Chain(Evaluated, subs, stop)
    BY <1>2, <1>6, <2>0, OutcomesBy
  <2>2. PICK after \in [0 .. n -> SUBSET Outcome(W)] : ChainsUp(Evaluated, subs, stop, after)
    <3>1. Chains(W, Evaluated, subs, stop)
      BY <1>3, <1>4, ChainIs
    <3> QED
      BY <3>1 DEF Chains
  <2>3. \A i \in 1 .. n : Finds(subs[i])
    <3>1. \A i \in DOMAIN subs : Selects[subs[i]]
      BY <1>6, SelectsIs DEF SelectsAll
    <3> HIDE DEF Finds
    <3> QED
      BY <1>3, <3>1
  <2> DEFINE C == {k \in 0 .. n : \A o \in after[k] : o.holds => Found(o)}
  <2> HIDE DEF subs, n
  <2>4. 0 \in C
    <3>1. ~ Answer(~ stop).holds
      <4>1. \A b \in BOOLEAN : Answer(b).holds = b
        BY AnswerIs
      <4>2. ~ Answer(FALSE).holds
        BY <4>1
      <4> QED
        BY <2>0, <4>2
    <3>2. after[0] = {Answer(~ stop)}
      BY <2>2 DEF ChainsUp
    <3> QED
      BY <1>3, <3>1, <3>2
  <2>5. ASSUME NEW k \in 0 .. n, k \in C, k < n PROVE k + 1 \in C
    <3>1. k + 1 \in 1 .. n /\ k + 1 \in 0 .. n /\ (k + 1) - 1 = k
      BY <1>3, <2>5
    <3>2. after[k + 1] = Continued(Evaluated, subs[k + 1], after[k], stop)
      <4>1. \A m \in 1 .. n : after[m] = Continued(Evaluated, subs[m], after[m - 1], stop)
        BY <2>2 DEF ChainsUp, n
      <4> QED
        BY <3>1, <4>1
    <3>8. Evaluated[subs[k + 1]] \in SUBSET Outcome(W) /\ after[k] \in SUBSET Outcome(W)
      BY <1>3, <3>1
    <3>3. ASSUME NEW q \in after[k + 1], q.holds PROVE Found(q)
      <4>1. q \in after[k] \/ \E o \in after[k], p \in Evaluated[subs[k + 1]] : q = Then(o, p)
        <5>1. Continues(Evaluated, subs[k + 1], after[k], stop, q)
          BY <3>2, <3>3, <3>8, ContinuedIs
        <5> QED
          BY <5>1 DEF Continues
      <4>2. CASE q \in after[k]
        BY <2>5, <3>3, <4>2
      <4>3. ASSUME NEW o \in after[k], NEW p \in Evaluated[subs[k + 1]], q = Then(o, p) PROVE Found(q)
        <5>1. o \in Outcome(W) /\ p \in Outcome(W)
          BY <1>3, <3>1
        <5>2. q.holds = p.holds /\ q.picked = IF p.picked = <<>> THEN o.picked ELSE p.picked
          BY <4>3, <5>1, ThenIs
        <5>3. Found(p)
          BY <2>3, <3>1, <3>3, <5>2
        <5> QED
          BY <5>2, <5>3 DEF Found
      <4> QED
        BY <4>1, <4>2, <4>3
    <3> QED
      BY <3>1, <3>3
  <2>6. n \in C
    <3> HIDE DEF C
    <3>1. 0 .. n \subseteq C
      BY <1>3, <2>4, <2>5, Counting
    <3> QED
      BY <1>3, <3>1
  <2> QED
    BY <2>1, <2>2, <2>6 DEF ChainsUp, n
<1>7. CASE c.type = "And"
  <2>0. PICK stop \in BOOLEAN : stop = FALSE
    OBVIOUS
  <2>1. Evaluated[c] = Chain(Evaluated, subs, stop)
    BY <1>2, <1>7, <2>0, OutcomesBy
  <2>2. PICK after \in [0 .. n -> SUBSET Outcome(W)] : ChainsUp(Evaluated, subs, stop, after)
    <3>1. Chains(W, Evaluated, subs, stop)
      BY <1>3, <1>4, ChainIs
    <3> QED
      BY <3>1 DEF Chains
  <2>3. PICK i \in 1 .. n :
          Finds(subs[i]) /\ \A j \in i + 1 .. n : Finds(subs[j]) \/ \A o \in Evaluated[subs[j]] : o.picked = <<>>
    <3>1. PICK i \in DOMAIN subs : Selects[subs[i]] /\ \A j \in i + 1 .. Len(subs) :
            Selects[subs[j]] \/ \A o \in Evaluated[subs[j]] : o.picked = <<>>
      BY <1>7, SelectsIs DEF SelectsLast
    <3>2. i \in 1 .. n /\ \A j \in i + 1 .. n : j \in 1 .. n
      BY <1>3
    <3> HIDE DEF Finds
    <3> QED
      BY <1>3, <3>1, <3>2
  <2> DEFINE C == {k \in i .. n : \A o \in after[k] : o.holds => Found(o)}
  <2> HIDE DEF subs, n
  <2>4. ASSUME NEW k \in 0 .. n, k < n, NEW q \in after[k + 1], q.holds
        PROVE  \E o \in after[k], p \in Evaluated[subs[k + 1]] :
                 /\ o.holds /\ p.holds /\ p \in Outcome(W)
                 /\ q.picked = IF p.picked = <<>> THEN o.picked ELSE p.picked
    <3>1. k + 1 \in 1 .. n /\ k + 1 \in 0 .. n /\ (k + 1) - 1 = k
      BY <1>3, <2>4
    <3>2. after[k + 1] = Continued(Evaluated, subs[k + 1], after[k], stop)
      <4>1. \A m \in 1 .. n : after[m] = Continued(Evaluated, subs[m], after[m - 1], stop)
        BY <2>2 DEF ChainsUp, n
      <4> QED
        BY <3>1, <4>1
    <3>8. Evaluated[subs[k + 1]] \in SUBSET Outcome(W) /\ after[k] \in SUBSET Outcome(W)
      BY <1>3, <3>1
    <3>3. \/ q \in after[k] /\ q.holds = stop
          \/ \E o \in after[k], p \in Evaluated[subs[k + 1]] : o.holds # stop /\ q = Then(o, p)
      <4>1. Continues(Evaluated, subs[k + 1], after[k], stop, q)
        BY <2>4, <3>2, <3>8, ContinuedIs
      <4> QED
        BY <4>1 DEF Continues
    <3>4. PICK o \in after[k], p \in Evaluated[subs[k + 1]] : o.holds # stop /\ q = Then(o, p)
      BY <2>0, <2>4, <3>3
    <3>5. o \in Outcome(W) /\ p \in Outcome(W)
      BY <1>3, <3>1
    <3>6. o.holds
      BY <2>0, <3>4, <3>5 DEF Outcome
    <3>7. q.holds = p.holds /\ q.picked = IF p.picked = <<>> THEN o.picked ELSE p.picked
      BY <3>4, <3>5, ThenIs
    <3> QED
      BY <2>4, <3>5, <3>6, <3>7
  <2>5. i \in C
    <3>1. i - 1 \in 0 .. n /\ i - 1 < n /\ (i - 1) + 1 = i /\ i \in i .. n
      BY <1>3
    <3>2. ASSUME NEW q \in after[i], q.holds PROVE Found(q)
      <4>1. PICK o \in after[i - 1], p \in Evaluated[subs[i]] :
              p.holds /\ q.picked = IF p.picked = <<>> THEN o.picked ELSE p.picked
        BY <2>4, <3>1, <3>2
      <4>2. Found(p)
        BY <2>3, <4>1
      <4> QED
        BY <4>1, <4>2 DEF Found
    <3> QED
      BY <3>1, <3>2
  <2>6. ASSUME NEW k \in i .. n, k \in C, k < n PROVE k + 1 \in C
    <3>1. k \in 0 .. n /\ k + 1 \in i .. n /\ k + 1 \in i + 1 .. n
      BY <1>3, <2>6
    <3>2. ASSUME NEW q \in after[k + 1], q.holds PROVE Found(q)
      <4>1. PICK o \in after[k], p \in Evaluated[subs[k + 1]] :
              o.holds /\ p.holds /\ q.picked = IF p.picked = <<>> THEN o.picked ELSE p.picked
        BY <2>4, <2>6, <3>1, <3>2
      <4>2. Found(o)
        BY <2>6, <4>1
      <4>3. Found(p) \/ p.picked = <<>>
        BY <2>3, <3>1, <4>1
      <4> QED
        BY <4>1, <4>2, <4>3 DEF Found
    <3> QED
      BY <3>1, <3>2
  <2>7. n \in C
    <3> HIDE DEF C
    <3>1. i .. n \subseteq C
      <4>1. i \in Nat /\ i <= n
        BY <1>3
      <4> QED
        BY <1>3, <2>5, <2>6, <4>1, Counting
    <3> QED
      BY <1>3, <3>1
  <2> QED
    BY <2>1, <2>2, <2>7 DEF ChainsUp, n
<1> QED
  BY <1>5, <1>6, <1>7, SelectsIs

----------------------------------------------------------------------------
(* What is selected.                                                       *)

SelectionInv == EnemiesInv /\ TargetIsThere

LEMMA WithinWorld ==
  ASSUME SelectionInv
  PROVE  /\ Within(Values, FilterTypes)
         /\ \A c \in Conditions : Uses[c] \in SUBSET FilterTypes /\ Within(Targets(c), Uses[c])
<1>1. /\ here \subseteq Ids /\ members \subseteq here /\ leader \in members \union {Nobody}
      /\ entries \in Seq(Entry)
  BY DEF SelectionInv, TargetIsThere, TypeOK, EnemiesInv, Enemies
<1>2. \A i \in DOMAIN entries : entries[i].id \in Ids
  <2>1. \A i \in DOMAIN entries : entries[i] \in Entry
    BY <1>1
  <2>2. \A e \in Entry : e.id \in Ids
    BY DEF Entry
  <2> QED
    BY <2>1, <2>2
<1>3. Ids \subseteq Values /\ Nobody \in Values /\ Garbage \in Values
  BY ValuesAre
<1>4. \A type \in FilterTypes : Source(type) \subseteq Values
  <2>1. Source("SelectZone") \subseteq Values /\ Source("SelectGroupMembers") \subseteq Values
    BY <1>1, <1>3, SourceIs
  <2>2. Source("SelectGroupLeader") \subseteq Values
    BY <1>1, <1>3, SourceIs
  <2>3. Source("SelectHighestAggro") \subseteq Values
    BY <1>2, <1>3, SourceIs
  <2>4. \A type \in SetOperations \union OneBelow \union {"SelectAll", "SelectEmpty"} : Source(type) \subseteq Values
    BY <1>3, SourceIs DEF OneBelow
  <2> QED
    BY <2>1, <2>2, <2>3, <2>4 DEF FilterTypes, NoneBelow
<1>5. Within(Values, FilterTypes)
  BY <1>4 DEF Within
<1>6. ASSUME NEW c \in Conditions PROVE Uses[c] \in SUBSET FilterTypes /\ Within(Targets(c), Uses[c])
  <2>1. Uses[c] \in SUBSET FilterTypes
    BY UsesAre
  <2>2. \A type \in Uses[c] : Source(type) \subseteq Targets(c)
    BY DEF Targets
  <2>3. Targets(c) \subseteq Values
    BY <1>4, <2>1 DEF Targets
  <2> QED
    BY <2>1, <2>2, <2>3 DEF Within
<1> QED
  BY <1>5, <1>6

LEMMA ApplyKeeps ==
  ASSUME SelectionInv, NEW W \in SUBSET Values, NEW o \in Outcome(W), Apply(o)
  PROVE  /\ here' = here /\ members' = members /\ leader' = leader
         /\ selection' \in Seq(Values)
         /\ Found(o) => selection' # <<>> /\ ToSet(selection') \subseteq W
<1>1. /\ selection' = IF o.picked = <<>> THEN selection ELSE o.picked[1]
      /\ here' = here /\ members' = members /\ leader' = leader
  BY DEF Apply, SelectedAfter, worldVars
<1>2. o.picked = <<>> \/ \E s \in Seq(W) : o.picked = <<s>>
  BY DEF Outcome, Picks
<1>3. \A s : <<s>>[1] = s /\ <<s>> # <<>>
  OBVIOUS
<1>4. o.picked # <<>> => selection' \in Seq(W)
  BY <1>1, <1>2, <1>3
<1>5. selection \in Seq(Values)
  BY DEF SelectionInv, TargetIsThere, TypeOK
<1>6. selection' \in Seq(Values)
  BY <1>1, <1>4, <1>5
<1>8. Found(o) => selection' # <<>> /\ ToSet(selection') \subseteq W
  <2> SUFFICES ASSUME Found(o) PROVE selection' # <<>> /\ ToSet(selection') \subseteq W
    OBVIOUS
  <2>1. selection' # <<>> /\ selection' \in Seq(W)
    BY <1>1, <1>4 DEF Found
  <2> QED
    BY <2>1 DEF ToSet
<1> QED
  BY <1>1, <1>6, <1>8

\* The world stays, and so do those whom a filter can find, when somebody looks at the enemies.
LEMMA TargetsStay ==
  ASSUME SelectionInv, NEW c, Settle \/ UNCHANGED aggroVars,
         here' = here, members' = members, leader' = leader
  PROVE  Targets(c) \subseteq Targets(c)'
<1>1. \A j \in DOMAIN entries : \E i \in DOMAIN entries' : entries'[i] = entries[j]
  <2>1. CASE Settle
    BY <2>1, SortKeeps DEF Settle, SelectionInv, EnemiesInv, Enemies
  <2>2. CASE UNCHANGED aggroVars
    BY <2>2 DEF aggroVars
  <2> QED
    BY <2>1, <2>2
<1>2. {entries[i].id : i \in DOMAIN entries} \subseteq {entries'[i].id : i \in DOMAIN entries'}
  BY <1>1
<1>3. \A type : Source(type) \subseteq Source(type)'
  BY <1>2 DEF Source
<1> QED
  BY <1>3 DEF Targets

LEMMA InitSelectionInv == Init => SelectionInv
<1> SUFFICES ASSUME Init PROVE SelectionInv
  OBVIOUS
<1>1. EnemiesInv
  BY InitEnemiesInv
<1>2. /\ here = {Self} /\ members = {} /\ leader = Nobody /\ selection = <<>> /\ aimed = {}
      /\ entries = <<>> /\ dirty = FALSE /\ reducing = FALSE
  BY DEF Init, AggroInit
<1>3. Self \in Ids
  BY SelectionAssumption
<1>4. TypeOK
  <2>1. <<>> \in Seq(Entry) /\ <<>> \in Seq(Values)
    OBVIOUS
  <2> QED
    BY <1>2, <1>3, <2>1 DEF TypeOK, AggroTypeOK
<1> QED
  BY <1>1, <1>2, <1>4 DEF SelectionInv, TargetIsThere

LEMMA NextSelectionInv == SelectionInv /\ [Next]_vars => SelectionInv'
<1> SUFFICES ASSUME SelectionInv, [Next]_vars PROVE SelectionInv'
  OBVIOUS
<1>1. EnemiesInv'
  BY NextEnemiesInv DEF SelectionInv
<1> SUFFICES TargetIsThere'
  BY <1>1 DEF SelectionInv
<1>2. AggroTypeOK'
  BY <1>1 DEF EnemiesInv, Enemies, AggroTypeOK
<1>3. /\ TypeOK /\ EnemiesInv
      /\ here \subseteq Ids /\ members \subseteq here /\ leader \in members \union {Nobody}
      /\ selection \in Seq(Values)
  BY DEF SelectionInv, TargetIsThere, TypeOK
<1>4. ASSUME aimed' = {}, here' \subseteq Ids, members' \subseteq here', leader' \in members' \union {Nobody},
             selection' \in Seq(Values)
      PROVE  TargetIsThere'
  <2>1. TypeOK'
    BY <1>2, <1>4 DEF TypeOK
  <2> QED
    BY <1>4, <2>1 DEF TargetIsThere
<1>5. /\ Within(Values, FilterTypes)
      /\ \A c \in Conditions : Uses[c] \in SUBSET FilterTypes /\ Within(Targets(c), Uses[c])
  BY WithinWorld
<1>6. ASSUME NEW c \in Conditions, Evaluate(c) PROVE TargetIsThere'
  <2>1. PICK o \in Evaluated[c] : Apply(o) /\ aimed' = IF o.holds /\ Selects[c] THEN {c} ELSE {}
    BY <1>6 DEF Evaluate
  <2>2. o \in Outcome(Targets(c)) /\ Targets(c) \in SUBSET Values
    <3>1. PICK U \in SUBSET FilterTypes : U = Uses[c]
      BY <1>5
    <3>2. Evaluated[c] \in SUBSET Outcome(Targets(c))
      BY <1>3, <1>5, <3>1, EvaluatedStays
    <3> QED
      BY <1>5, <2>1, <3>2 DEF Within
  <2>3. /\ here' = here /\ members' = members /\ leader' = leader /\ selection' \in Seq(Values)
        /\ Found(o) => selection' # <<>> /\ ToSet(selection') \subseteq Targets(c)
    BY <2>1, <2>2, ApplyKeeps
  <2>4. TypeOK'
    <3>1. aimed' \subseteq Conditions
      BY <2>1
    <3> QED
      BY <1>2, <1>3, <2>3, <3>1 DEF TypeOK
  <2>5. o.holds /\ Selects[c] => Found(o)
    BY <1>3, <1>5, <2>1, SelectsFinds
  <2>6. Targets(c) \subseteq Targets(c)'
    <3>1. Settle \/ UNCHANGED aggroVars
      BY <2>1 DEF Apply
    <3> QED
      BY <2>3, <3>1, TargetsStay
  <2>7. \A k \in aimed' : selection' # <<>> /\ ToSet(selection') \subseteq Targets(k)'
    <3>1. aimed' = {} \/ (aimed' = {c} /\ o.holds /\ Selects[c])
      BY <2>1
    <3>2. CASE aimed' = {}
      BY <3>2
    <3>3. CASE aimed' = {c} /\ o.holds /\ Selects[c]
      <4>1. selection' # <<>> /\ ToSet(selection') \subseteq Targets(c)'
        BY <2>3, <2>5, <2>6, <3>3
      <4> QED
        BY <3>3, <4>1
    <3> QED
      BY <3>1, <3>2, <3>3
  <2> QED
    BY <2>4, <2>7 DEF TargetIsThere
<1>7. ASSUME NEW c \in Conditions, Watch(c) PROVE TargetIsThere'
  <2>1. PICK o \in Printed[c] : Apply(o) /\ aimed' = {}
    BY <1>7 DEF Watch
  <2>2. o \in Outcome(Values)
    BY <1>3, <1>5, <2>1, PrintedIs
  <2>3. here' = here /\ members' = members /\ leader' = leader /\ selection' \in Seq(Values)
    BY <2>1, <2>2, ApplyKeeps
  <2> QED
    BY <1>3, <1>4, <2>1, <2>3
<1>8. CASE Reset
  <2>1. /\ selection' = <<>> /\ aimed' = {}
        /\ here' = here /\ members' = members /\ leader' = leader
    BY <1>8 DEF Reset, worldVars
  <2>2. <<>> \in Seq(Values)
    OBVIOUS
  <2>3. /\ here' \subseteq Ids /\ members' \subseteq here' /\ leader' \in members' \union {Nobody}
        /\ selection' \in Seq(Values)
    BY <1>3, <2>1, <2>2
  <2> QED
    BY <1>4, <2>1, <2>3
<1>9. CASE ChangeAggro
  <2>1. /\ selection' = selection /\ aimed' = {}
        /\ here' = here /\ members' = members /\ leader' = leader
    BY <1>9 DEF ChangeAggro, worldVars
  <2>3. /\ here' \subseteq Ids /\ members' \subseteq here' /\ leader' \in members' \union {Nobody}
        /\ selection' \in Seq(Values)
    BY <1>3, <2>1
  <2> QED
    BY <1>4, <2>1, <2>3
<1>10. ASSUME NEW id \in Ids, Enter(id) PROVE TargetIsThere'
  BY <1>3, <1>4, <1>10 DEF Enter, World
<1>11. ASSUME NEW id \in Ids, JoinGroup(id) PROVE TargetIsThere'
  BY <1>3, <1>4, <1>11 DEF JoinGroup, World
<1>12. ASSUME NEW id \in Ids, LeaveGroup(id) PROVE leader' \in members' \union {Nobody} /\ members' = members \ {id}
  BY <1>3, <1>12 DEF LeaveGroup
<1>13. ASSUME NEW id \in Ids, Leave(id) PROVE TargetIsThere'
  BY <1>3, <1>4, <1>12, <1>13 DEF Leave, World
<1>14. ASSUME NEW id \in Ids, id \in members /\ LeaveGroup(id) /\ UNCHANGED here /\ World PROVE TargetIsThere'
  BY <1>3, <1>4, <1>12, <1>14 DEF World
<1>15. CASE UNCHANGED vars
  <2>1. /\ selection' = selection /\ aimed' = aimed /\ entries' = entries
        /\ here' = here /\ members' = members /\ leader' = leader
    BY <1>15 DEF vars, aggroVars, worldVars
  <2>2. TypeOK'
    BY <1>2, <1>3, <2>1 DEF TypeOK
  <2>3. \A c : Targets(c)' = Targets(c)
    BY <2>1 DEF Targets, Source
  <2>4. \A c \in aimed' : selection' # <<>> /\ ToSet(selection') \subseteq Targets(c)'
    BY <2>1, <2>3 DEF SelectionInv, TargetIsThere
  <2> QED
    BY <2>2, <2>4 DEF TargetIsThere
<1>16. \/ \E c \in Conditions : Evaluate(c) \/ Watch(c)
       \/ Reset \/ ChangeAggro \/ UNCHANGED vars
       \/ \E id \in Ids : Enter(id) \/ Leave(id) \/ JoinGroup(id)
       \/ \E id \in Ids : id \in members /\ LeaveGroup(id) /\ UNCHANGED here /\ World
  BY DEF Next
<1>17. CASE \E c \in Conditions : Evaluate(c) \/ Watch(c)
  BY <1>6, <1>7, <1>17
<1>18. CASE \E id \in Ids : Enter(id) \/ Leave(id) \/ JoinGroup(id)
  BY <1>10, <1>11, <1>13, <1>18
<1>19. CASE \E id \in Ids : id \in members /\ LeaveGroup(id) /\ UNCHANGED here /\ World
  BY <1>14, <1>19
<1> QED
  BY <1>8, <1>9, <1>15, <1>16, <1>17, <1>18, <1>19, Zenon

LEMMA SelectionInvAlways == Spec => []SelectionInv
BY InitSelectionInv, NextSelectionInv, PTL DEF Spec

\* Whenever a condition that selects has let a node be executed, something is
\* selected, and nothing but what its own filters find in the zone, in the group and
\* among the enemies, or add by mistake: zeros and what is behind the end of a vector.
THEOREM TasksFindTheirTarget == Spec => []TargetIsThere
<1>1. SelectionInv => TargetIsThere
  BY DEF SelectionInv
<1> QED
  BY <1>1, SelectionInvAlways, PTL

\* Whatever was selected before, and however deep a filter is, it takes nothing away
\* unless it is SelectEmpty.
THEOREM FiltersOnlyAdd == Spec => []KeepsEarlier
<1>1. SelectionInv => KeepsEarlier
  <2> SUFFICES ASSUME SelectionInv, NEW f \in Filters, f.type # "SelectEmpty",
                      NEW s \in AfterFilter(f, selection), NEW x \in Values
               PROVE  Times(s, x) >= Times(selection, x)
    BY DEF KeepsEarlier
  <2>1. selection \in Seq(Values) /\ EnemiesInv /\ Within(Values, FilterTypes)
    BY WithinWorld DEF SelectionInv, TargetIsThere, TypeOK
  <2>2. Types[f] \in SUBSET FilterTypes
    BY TypesAre
  <2>3. PICK U \in SUBSET FilterTypes : U = FilterTypes
    OBVIOUS
  <2> QED
    BY <2>1, <2>2, <2>3, AfterFilterIs DEF Keeps
<1> QED
  BY <1>1, SelectionInvAlways, PTL

\* The filters of several filters are the operations on sets they are named for.
THEOREM FiltersCombineSets == Spec => []CombinesSets
<1>1. SelectionInv => CombinesSets
  <2> SUFFICES ASSUME SelectionInv, NEW f \in Filters, f.type \in SetOperations,
                      NEW r \in SubResults(FromEmpty, f),
                      \A i \in DOMAIN r, x \in Values \ {Nobody} : Times(r[i], x) <= 1
               PROVE  ToSet(Combine(f.type, r)) \ {Nobody}
                        = Meant(f.type, [i \in DOMAIN r |-> ToSet(r[i])]) \ {Nobody}
    BY DEF CombinesSets
  <2> DEFINE sets == [i \in DOMAIN r |-> ToSet(r[i])]
  <2>1. f.subs \in Seq(Filters) /\ Len(f.subs) > 1
    BY FilterIs DEF SetOperations, OneBelow, NoneBelow
  <2>2. r \in Seq(Seq(Values)) /\ Len(r) > 1
    <3>1. EnemiesInv /\ Within(Values, FilterTypes)
      BY WithinWorld DEF SelectionInv
    <3>2. \A g \in ToSet(f.subs) : FromEmpty[g] \in SUBSET Seq(Values)
      BY <2>1, <3>1, FromEmptyIs DEF ToSet
    <3>3. \A q : q \in SubResults(FromEmpty, f) <=>
            q \in Seq(Seq(Values)) /\ Len(q) = Len(f.subs) /\ \A i \in 1 .. Len(f.subs) : q[i] \in FromEmpty[f.subs[i]]
      BY <3>2, SubResultsAre
    <3> QED
      BY <2>1, <3>3
  <2>3. /\ Combine(f.type, r) \in Seq(Values)
        /\ \A x \in Values : x \in ToSet(Combine(f.type, r)) <=> Occurs(f.type, r, x) > 0
    BY <2>2, ValuesAre, CombineIs
  <2>4. ASSUME NEW x \in Values \ {Nobody}
        PROVE  x \in ToSet(Combine(f.type, r)) <=> x \in Meant(f.type, sets)
    <3>1. Occurs(f.type, r, x) > 0 <=> x \in Meant(f.type, sets)
      BY <2>2, OccursAsMeant
    <3> QED
      BY <2>3, <3>1
  <2>5. ToSet(Combine(f.type, r)) \subseteq Values
    BY <2>3 DEF ToSet
  <2>6. Meant(f.type, sets) \subseteq Values
    <3>1. \A i \in DOMAIN r : sets[i] \subseteq Values
      BY <2>2 DEF ToSet
    <3>2. 1 \in DOMAIN r /\ DOMAIN sets = DOMAIN r
      BY <2>2
    <3> HIDE DEF sets
    <3>3. CASE f.type = "Union"
      BY <3>1, <3>2, <3>3 DEF Meant
    <3>4. CASE f.type = "Intersection"
      BY <3>1, <3>2, <3>4 DEF Meant
    <3>5. CASE f.type \notin {"Union", "Intersection"}
      BY <3>1, <3>2, <3>5 DEF Meant
    <3> QED
      BY <3>3, <3>4, <3>5
  <2> HIDE DEF sets
  <2>7. ToSet(Combine(f.type, r)) \ {Nobody} = Meant(f.type, sets) \ {Nobody}
    BY <2>4, <2>5, <2>6
  <2> QED
    BY <2>7 DEF sets
<1> QED
  BY <1>1, SelectionInvAlways, PTL
=============================================================================
