------------------------------ MODULE MCPartial -----------------------------
(***************************************************************************)
(* Programs, inputs and patterns for PartialEvaluation: a map `a` with a    *)
(* map `x` in it, a list `l`, a number `b`.                                 *)
(***************************************************************************)
EXTENDS PartialEvaluation

Take(op, argc)   == [op |-> op, argc |-> argc]
Id(x)            == [op |-> "ident", name |-> x]
Get(f)           == [op |-> "select", argc |-> 1, name |-> f]
Has(f)           == [op |-> "has", argc |-> 1, name |-> f]
Const(v)         == [op |-> "const", value |-> v]
Sum(kind)        == [op |-> "call", argc |-> 1, name |-> "sum", kinds |-> <<kind>>]
Size(kind)       == [op |-> "call", argc |-> 1, name |-> "size", kinds |-> <<kind>>]
Add              == [op |-> "call", argc |-> 2, name |-> "add", kinds |-> <<"int", "int">>]
Index            == Take("index", 2)
Equal            == Take("equal", 2)
And              == Take("and", 2)
ListOf(n)        == Take("list", n)
Key(k)           == Const([kind |-> "string", content |-> k])
X(y)             == [kind |-> "map", content |-> [y |-> IntOf(y)]]

A   == <<Id("a")>>
AX  == A \o <<Get("x")>>
AXY == AX \o <<Get("y")>>
AW  == A \o <<Get("w")>>
B   == <<Id("b")>>
L   == <<Id("l")>>
LB  == L \o B \o <<Index>>

MCPrograms == <<
  AXY \o AW \o <<Equal>>,
  A \o AX \o <<ListOf(2), Const(IntOf(1)), Index, Get("y"), Const(IntOf(1)), Equal>>,
  AX \o B \o <<Const(IntOf(1)), Equal>> \o L \o <<ListOf(3), Size("list")>>,
  AX \o <<Sum("map")>>,
  A \o <<Key("x"), Index, Const(X(1)), Equal>>,
  LB \o <<Const(IntOf(1)), Equal>>,
  LB \o AW \o <<Add>>,
  A \o <<Has("x")>> \o B \o <<Const(IntOf(0)), Equal, And>>,
  B \o <<Get("q")>> \o AW \o <<Const(IntOf(0)), Equal, And>>,
  AXY \o <<Const(IntOf(1)), Equal>> \o A \o <<Has("q"), And>>,
  AX \o <<Get("q")>> \o L \o <<Equal>>,
  AX \o <<Has("y")>> \o A \o <<Const(BoolOf(TRUE)), Index, And>>,
  B \o <<Key("q"), Index, Id("z"), ListOf(2), Size("list")>>,
  L \o AXY \o <<Index>> \o L \o <<Key("q"), Index, Equal>> \o B \o <<And>> >>

Input(y, w, b, l0) ==
  [a |-> [kind |-> "map", content |-> [x |-> X(y), w |-> IntOf(w)]],
   b |-> IntOf(b),
   l |-> [kind |-> "list", content |-> <<IntOf(l0), IntOf(1)>>]]

MCInputs ==
  {Input(y, w, b, l0) : y \in 0 .. 1, w \in 0 .. 1, b \in 0 .. 1, l0 \in 0 .. 1}

MCGivenInputs == {Input(0, 0, 1, 0), Input(1, 1, 0, 1)}

MCScalars == {<<"a", "x", "y">>, <<"a", "w">>, <<"b">>, <<"l", "0">>, <<"l", "1">>}

MCAttributes ==
  MCScalars \cup {<<"a">>, <<"a", "x">>, <<"a", "x", "q">>, <<"a", "q">>, <<"a", "w", "q">>,
                  <<"b", "q">>, <<"l">>, <<"z">>}

MCPatterns ==
  {<<"a">>, <<"a", "*">>, <<"a", "x">>, <<"a", "x", "*">>,
   <<"a", "x", "y">>, <<"b">>, <<"b", "*">>, <<"l", "*">>, <<"l", "0">>}

MCPlaces == MCScalars \cup {<<"a">>, <<"a", "x">>, <<"l">>}

MCValues ==
  [bool   |-> {BoolOf(TRUE)},
   int    |-> {IntOf(n) : n \in 0 .. 1},
   string |-> {[kind |-> "string", content |-> k] : k \in {"x", "q"}},
   map    |-> {X(y) : y \in 0 .. 1} \cup {values.a : values \in MCInputs},
   list   |-> {values.l : values \in MCInputs}]

MCHeights ==
  [n \in DOMAIN MCPrograms |->
     [i \in 0 .. Len(MCPrograms[n]) |->
        FoldLeft(LAMBDA height, step : height - ArgCount(step) + 1, 0,
                 SubSeq(MCPrograms[n], 1, i))]]
=============================================================================
