------------------------------ MODULE Protocol ------------------------------
(***************************************************************************)
(* The messages of the remote debugger as bytes                            *)
(* (src/ai/server/IProtocolMessage.h and the message classes): every class *)
(* has a serialize and a constructor that reads, written down here as two  *)
(* layouts.  Bytes have Base values and numbers fewer of them than in the  *)
(* code, which changes where a number ends, not what happens there.        *)
(***************************************************************************)
EXTENDS Integers, Sequences, SequencesExt

CONSTANT Base

ASSUME ProtocolAssumption == Base \in Nat /\ Base > 12

----------------------------------------------------------------------------
(* Numbers and strings                                                     *)

Width == [byte |-> 1, short |-> 2, int |-> 3, float |-> 3, long |-> 4]

\* Little endian, negative numbers in two's complement.
Digits(v, w) == [i \in 1 .. w |-> ((v % Base^w) \div Base^(i - 1)) % Base]
Unsigned(ds) == FoldRight(LAMBDA d, v : d + Base * v, ds, 0)

\* Fault: the sign is lost.
SignedNot(ds) == Unsigned(ds)
Signed(ds) == IF 2 * Unsigned(ds) >= Base^Len(ds) THEN Unsigned(ds) - Base^Len(ds) ELSE Unsigned(ds)

\* A reader gives what it has read and what is left of the stream.
Read(v, s, n) == [value |-> v, rest |-> SubSeq(s, n + 1, Len(s))]

Number(type, s) ==
  LET ds == SubSeq(s, 1, Width[type])
  IN  Read(IF type = "byte" THEN Unsigned(ds) ELSE Signed(ds), s, Width[type])

String(s) == LET n == SelectInSeq(s, LAMBDA b : b = 0) IN Read(SubSeq(s, 1, n - 1), s, n)

----------------------------------------------------------------------------
(* The layouts: names of types, and of the lists and nodes below           *)

StateOut == <<"states">>
StateIn == <<"states">>
DetailsOut == <<"int", "aggros", "node">>
DetailsIn == <<"int", "aggros", "node">>
StaticOut == <<"int", "statics">>
StaticIn == <<"int", "statics">>
NamesOut == <<"names">>
NamesIn == <<"names">>
PauseOut == <<"bool">>
PauseIn == <<"bool">>
ChangeOut == <<"string">>
ChangeIn == <<"string">>
SelectOut == <<"int">>
SelectIn == <<"int">>
StepOut == <<"long">>
StepIn == <<"long">>
UpdateNodeOut == <<"int", "int", "string", "string", "string">>
UpdateNodeIn == <<"int", "int", "string", "string", "string">>
AddNodeOut == <<"int", "int", "string", "string", "string">>
AddNodeIn == <<"int", "int", "string", "string", "string">>
DeleteNodeOut == <<"int", "int">>
DeleteNodeIn == <<"int", "int">>

WorldOut == <<"int", "float", "float", "float", "float", "attributes">>
WorldIn == <<"int", "float", "float", "float", "float", "attributes">>
NodeOut == <<"int", "string", "long", "byte", "bool", "children">>
NodeIn == <<"int", "string", "long", "byte", "bool", "children">>
NodeStaticOut == <<"int", "string", "string", "string", "string", "string">>
NodeStaticIn == <<"int", "string", "string", "string", "string", "string">>

\* The lists: how their length is written and what their items are ...
ListsOut == [states |-> <<"int", WorldOut>>, attributes |-> <<"short", <<"string", "string">>>>,
             aggros |-> <<"short", <<"int", "float">>>>, children |-> <<"short", NodeOut>>,
             statics |-> <<"int", NodeStaticOut>>, names |-> <<"int", <<"string">>>>]

\* ... and how they are read.
ListsIn == [states |-> <<"int", WorldIn>>, attributes |-> <<"short", <<"string", "string">>>>,
            aggros |-> <<"short", <<"int", "float">>>>, children |-> <<"short", NodeIn>>,
            statics |-> <<"int", NodeStaticIn>>, names |-> <<"int", <<"string">>>>]

\* The children are counted with a byte: how many of n are read, before the counter
\* is back at zero and the loop goes on behind the message.
Loops(type, n) == IF type = "children" /\ n > Base - 1 THEN Base^2 ELSE n

----------------------------------------------------------------------------
(* Writing and reading                                                     *)

RECURSIVE Put(_, _), Get(_, _)

PutAll(layout, values) == FlattenSeq([i \in DOMAIN layout |-> Put(layout[i], values[i])])

Put(type, v) ==
  CASE type = "string" -> Append(v, 0)
    [] type = "bool" -> <<IF v THEN 1 ELSE 0>>
    [] type = "node" -> PutAll(NodeOut, v)
    [] type \in DOMAIN Width -> Digits(v, Width[type])
    [] OTHER -> Digits(Len(v), Width[ListsOut[type][1]])
                  \o FlattenSeq([i \in DOMAIN v |-> PutAll(ListsOut[type][2], v[i])])

GetAll(layout, s) ==
  FoldLeft(LAMBDA got, type : LET g == Get(type, got.rest)
                              IN  [value |-> Append(got.value, g.value), rest |-> g.rest],
           Read(<<>>, s, 0), layout)

GetMany(n, layout, s) ==
  FoldLeft(LAMBDA got, i : LET g == GetAll(layout, got.rest)
                           IN  [value |-> Append(got.value, g.value), rest |-> g.rest],
           Read(<<>>, s, 0), [i \in 1 .. n |-> i])

Get(type, s) ==
  CASE type = "string" -> String(s)
    [] type = "bool" -> Read(s[1] = 1, s, 1)
    [] type = "node" -> GetAll(NodeIn, s)
    [] type \in DOMAIN Width -> Number(type, s)
    [] OTHER -> LET n == Number(ListsIn[type][1], s)
                IN  GetMany(Loops(type, n.value), ListsIn[type][2], n.rest)

----------------------------------------------------------------------------
(* Messages, which begin with their id, and the frame                      *)

Kinds == <<"ping", "state", "static", "details", "select", "pause", "change", "names", "reset",
           "step", "updatenode", "deletenode", "addnode">>

Id(kind) == CHOOSE i \in 0 .. 12 : Kinds[i + 1] = kind

LayoutOut == [ping |-> <<>>, state |-> StateOut, static |-> StaticOut, details |-> DetailsOut,
              select |-> SelectOut, pause |-> PauseOut, change |-> ChangeOut, names |-> NamesOut,
              reset |-> <<>>, step |-> StepOut, updatenode |-> UpdateNodeOut,
              deletenode |-> DeleteNodeOut, addnode |-> AddNodeOut]

LayoutIn == [ping |-> <<>>, state |-> StateIn, static |-> StaticIn, details |-> DetailsIn,
             select |-> SelectIn, pause |-> PauseIn, change |-> ChangeIn, names |-> NamesIn,
             reset |-> <<>>, step |-> StepIn, updatenode |-> UpdateNodeIn,
             deletenode |-> DeleteNodeIn, addnode |-> AddNodeIn]

serialize(m) == <<Id(m[1])>> \o PutAll(LayoutOut[m[1]], m[2])
Framed(m) == Digits(Len(serialize(m)), Width.int) \o serialize(m)

peekInt(s) == IF Len(s) < Width.int THEN -1 ELSE Number("int", s).value

isNewMessageAvailable(s) == peekInt(s) # -1 /\ peekInt(s) <= Len(s) - Width.int

create(s) ==
  LET kind == Kinds[s[Width.int + 1] + 1]
      got == GetAll(LayoutIn[kind], SubSeq(s, Width.int + 2, Len(s)))
  IN  [value |-> <<kind, got.value>>, rest |-> got.rest]

----------------------------------------------------------------------------
(* What is to be checked                                                   *)

\* Messages with numbers at both ends of their range, short and long lists, deep
\* and wide trees.
Largest(w) == Base^w \div 2 - 1
Ints == {0, -1, Base, Largest(3), -Largest(3) - 1}
Strings == {<<>>, <<1>>, <<Base - 1, 1>>}

Leaf(n) == <<n, <<1>>, n, Base - 1, TRUE, <<>>>>
Crowd(n, children) == <<n, <<>>, -n, 0, FALSE, children>>
NodesOf(n) == {Crowd(n, <<>>), Crowd(n, <<Leaf(n), Crowd(n, <<Leaf(n)>>)>>), Crowd(n, [i \in 1 .. Base - 1 |-> Leaf(i)])}

Samples ==
  {<<kind, <<>>>> : kind \in {"ping", "reset"}}
  \union {<<"pause", <<b>>>> : b \in BOOLEAN}
  \union {<<"change", <<s>>>> : s \in Strings}
  \union {<<"select", <<n>>>> : n \in Ints}
  \union {<<"step", <<n>>>> : n \in Ints \union {Largest(4), -Largest(4) - 1}}
  \union {<<"names", <<[i \in 1 .. n |-> <<s>>]>>>> : n \in 0 .. 2, s \in Strings}
  \union {<<"deletenode", <<n, m>>>> : n, m \in Ints}
  \union {<<kind, <<n, m, s, <<1>>, s>>>> : kind \in {"updatenode", "addnode"}, n, m \in {-1, Base}, s \in Strings}
  \union {<<"static", <<n, [i \in 1 .. k |-> <<n, s, <<>>, s, <<2>>, s>>]>>>> : n \in {-1, Base}, k \in 0 .. 2, s \in Strings}
  \union {<<"state", <<[i \in 1 .. k |-> <<n, n, 0, n, 1, [j \in 1 .. i |-> <<s, s>>]>>]>>>> : n \in {-1, Base}, k \in 0 .. 2, s \in Strings}
  \union UNION {{<<"details", <<n, [i \in 1 .. k |-> <<n, n>>], node>>>> : k \in {0, 2, Base}, node \in NodesOf(n)} : n \in {-1, Base}}

Survives(next) == \A m \in Samples : create(Framed(m) \o next) = [value |-> m, rest |-> next]

Waits ==
  \A m \in Samples : LET f == Framed(m)
                      IN  \A n \in 0 .. Len(f) : isNewMessageAvailable(SubSeq(f, 1, n)) <=> n = Len(f)
============================================================================
