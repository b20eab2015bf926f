--------------------------- MODULE MCTypeChecker ---------------------------
(***************************************************************************)
(* Expressions and declarations for CheckedEvaluation.                      *)
(***************************************************************************)
EXTENDS CheckedEvaluation, CheckerLibrary

MCAttributes == {}
MCContainer  == <<"c">>
MCAliases    == "al" :> <<"p", "q">>

MCSpelling ==
  (".e" :> <<".", "e">>) @@ (".i" :> <<".", "i">>) @@ ("c.y" :> <<"c", "y">>)
  @@ (".y" :> <<".", "y">>) @@ (".c.y" :> <<".", "c", "y">>) @@ (".c" :> <<".", "c">>)
  @@ ("c.E" :> <<"c", "E">>) @@ ("c.E.A" :> <<"c", "E", "A">>)
  @@ (".c.E.A" :> <<".", "c", "E", "A">>) @@ ("pb.Int64Value" :> <<"pb", "Int64Value">>)
  @@ ("c.M" :> <<"c", "M">>) @@ ("p.q" :> <<"p", "q">>)
  @@ ("cel.@block" :> <<"cel", "@block">>)

Variable(name, type) == [name |-> name, type |-> type]

\* y is declared inside and outside of the container, e like a loop variable.
MCVariables ==
  (<<"i">> :> Variable("i", IntType)) @@ (<<"b">> :> Variable("b", BoolType))
  @@ (<<"xs">> :> Variable("xs", ListType(IntType)))
  @@ (<<"m">> :> Variable("m", MapType(IntType, BoolType)))
  @@ (<<"w">> :> Variable("w", IntWrapperType)) @@ (<<"d">> :> Variable("d", DynType))
  @@ (<<"e">> :> Variable("e", IntType)) @@ (<<"y">> :> Variable("y", BoolType))
  @@ (<<"c", "y">> :> Variable("c.y", IntType))
  @@ (<<"p", "q">> :> Variable("p.q", MapType(IntType, IntType)))
  @@ (<<"o">> :> Variable("o", OptionalType(MapType(IntType, IntType))))
  @@ (<<"any">> :> Variable("any", ListType(TypeParam("A"))))

NamedType(name, type, wellKnown, fields) ==
  [name |-> name, type |-> type, wellKnown |-> wellKnown, fields |-> fields]

\* A message, an enum, a basic type, and google.protobuf.Int64Value.
MCTypeNames ==
  (<<"c", "M">> :> NamedType("c.M", StructType("c.M"), FALSE,
                             ("f" :> IntType) @@ ("g" :> ListType(IntWrapperType))
                               @@ ("h" :> Simple("enum"))))
  @@ (<<"c", "E">> :> NamedType("c.E", Simple("enum"), FALSE, <<>>))
  @@ (<<"int">> :> NamedType("int", IntType, FALSE, <<>>))
  @@ (<<"pb", "Int64Value">> :> NamedType("pb.Int64Value", IntWrapperType, TRUE,
                                          "value" :> IntType))

MCEnumConstants == <<"c", "E", "A">> :> [name |-> "c.E.A", type |-> Simple("enum")]

\* c.f is a function in the container, e.f one whose namespace is also the
\* name of a variable.
MCFunctionDecls ==
  AddStandardLibraryDecls
  @@ FunctionDecl("c.f", <<"c", "f">>, <<MakeOverloadDecl("c_f", ListOfA, <<TypeParamA>>)>>)
  @@ FunctionDecl("e.f", <<"e", "f">>, <<MakeOverloadDecl("e_f", BoolType, <<IntType>>)>>)

-----------------------------------------------------------------------------
Int0 == Scalar(IntValue(0))
Int1 == Scalar(IntValue(1))
MapEntry(k, v) == [key |-> k, val |-> v]

NoExpectedType  == {<<>>}
MCExpected == {<<>>, <<ListType(IntType)>>}

\* Only the empty list is a list of whatever type is asked for.
MCWorlds ==
  {[i |-> Int1, b |-> Scalar(BoolValue(TRUE)), xs |-> PureList(<<Int0, Int1>>),
    m |-> Pure(MapValue(0), <<MapEntry(Int1, Scalar(BoolValue(FALSE)))>>),
    e |-> Int0, any |-> PureList(<<>>), y |-> Scalar(BoolValue(FALSE))]
     @@ ("c.y" :> Int1) @@ ("c.E.A" :> Int1) @@ (".c.E.A" :> Int1) @@ (".e" :> Int0) @@ (".i" :> Int1) @@ (".y" :> Scalar(BoolValue(FALSE))),
   [i |-> Int0, b |-> Scalar(BoolValue(FALSE)), xs |-> PureList(<<>>),
    m |-> Pure(MapValue(0), <<>>), e |-> Int1, any |-> PureList(<<>>), y |-> Scalar(BoolValue(TRUE))]
     @@ ("c.y" :> Int0) @@ ("c.E.A" :> Int1) @@ (".c.E.A" :> Int1) @@ (".e" :> Int1) @@ (".i" :> Int0) @@ (".y" :> Scalar(BoolValue(TRUE)))}

-----------------------------------------------------------------------------
I == Ident("i")
E == Ident("e")
Nil == ListOf(<<>>)
One == IntConst(1)
NullConst == Const(NullValue)
StringConst(s) == [Const([NullValue EXCEPT !.kind = "string"]) EXCEPT !.name = s]
OptSelect(e, field) == CallOf("_?._", <<e, StringConst(field)>>)

\* Expressions of every type the checker tells apart, open ones included.
Atoms ==
  {I, BoolConst(TRUE), NullConst, Nil, ListOf(<<One>>), ListOf(<<Nil>>), MapOf(<<>>),
   Ident("m"), Ident("w"), Ident("d"), Ident("y"), Ident(".y"), Ident("any"),
   CallOf("type", <<One>>), CallOf("type", <<Nil>>), MemberCall("none", <<Ident("optional")>>)}

BinaryOps == {"_+_", "_==_", "@in", "_[_]"}

Binaries(as, bs) == {CallOf(f, <<x, y>>) : f \in BinaryOps, x \in as, y \in bs}
Lists(as, bs)    == {ListOf(<<x, y>>) : x \in as, y \in bs}
Ternaries(as, bs) == {CallOf("_?_:_", <<Ident("b"), x, y>>) : x \in as, y \in bs}

\* What a comprehension's body may do with its variable e, one use after the
\* other: nothing is known of e when it ranges over [].
Uses ==
  {CallOf("_==_", <<E, One>>), CallOf("_==_", <<E, Ident(".e")>>), CallOf("_==_", <<E, E>>),
   CallOf("_==_", <<E, ListOf(<<E>>)>>), CallOf("_==_", <<CallOf("_+_", <<E, E>>), E>>),
   CallOf("@in", <<E, ListOf(<<E>>)>>), CallOf("@in", <<E, E>>), CallOf("@in", <<One, E>>),
   CallOf("_[_]", <<E, One>>), CallOf("_==_", <<E, Nil>>),
   TestOnly(E, "f"), MemberCall("f", <<E, E>>), CallOf("_==_", <<E, NullConst>>),
   CallOf("_==_", <<OptSelect(E, "f"), E>>), CallOf("!_", <<E>>)}

Ranges == {Nil, Ident("xs"), Ident("m"), Ident("d"), ListOf(<<Nil>>), I}

Loops ==
  {ExpandAllMacro(r, "e", CallOf("_&&_", <<u, w>>)) : r \in Ranges, u \in Uses, w \in Uses}

\* Three uses of a variable of which nothing is known.
OpenLoops ==
  {ExpandAllMacro(Nil, "e", CallOf("_&&_", <<u, w, x>>)) : u \in Uses, w \in Uses, x \in Uses}

Binds ==
  {BindMacro("e", a, CallOf("_&&_", <<u, w, Ident("b")>>)) :
     a \in {Nil, MapOf(<<>>), I, Ident("any")}, u \in Uses, w \in Uses}

Maps == {ExpandMap2Macro(r, "e", u) : r \in Ranges, u \in Uses \cup {E, ListOf(<<E, E>>)}}
Filters == {ExpandFilterMacro(r, "e", u) : r \in Ranges, u \in Uses}

\* Selections, names with a container and an alias, literals with optional
\* elements, blocks, messages.
Y == Ident("c")
Enumerator == Select(Ident("E"), "A")
Others ==
  {Select(Y, "y"), Select(Select(Y, "y"), "f"), Select(Ident("al"), "f"), Select(Ident("o"), "f"),
   Select(Ident("x"), "f"), TestOnly(Ident("m"), "f"), Select(Select(Y, "M"), "f"),
   Select(StructOf("M", <<"f", "g", "h">>, <<I, ListOf(<<Ident("w")>>), One>>), "h"),
   [StructOf("M", <<"f">>, <<MemberCall("of", <<Ident("optional"), I>>)>>) EXCEPT !.optional = {1}],
   StructOf("M", <<"f", "x">>, <<NullConst, I>>), StructOf("N", <<>>, <<>>),
   Select(Select(StructOf("M", <<>>, <<>>), "g"), "f"),
   CallOf("f", <<I>>), MemberCall("f", <<Y, I>>), MemberCall("size", <<Ident("xs")>>),
   MemberCall("size", <<Select(Y, "y")>>), MemberCall("f", <<Ident(".e"), I>>),
   MemberCall("orValue", <<Ident("o"), MapOf(<<>>)>>),
   MemberCall("or", <<MemberCall("none", <<Ident("optional")>>), Ident("o")>>),
   OptSelect(Ident("o"), "f"), OptSelect(I, "f"), OptSelect(StructOf("M", <<>>, <<>>), "x"),
   Select(OptSelect(OptSelect(Ident("o"), "f"), "f"), "f"),
   MemberCall("orValue", <<OptSelect(StructOf("M", <<>>, <<>>), "f"), One>>),
   MemberCall("orValue", <<OptSelect(Ident("m"), "f"), Nil>>),
   CallOf("_?._", <<Ident("o"), I>>), CallOf("_?._", <<Ident("o"), One>>),
   CallOf("_?._", <<Ident("o")>>), ListOf(<<CallOf("_?._", <<Ident("x"), I>>)>>),
   Enumerator, Select(Enumerator, "f"), CallOf("_+_", <<Enumerator, I>>),
   CallOf("_==_", <<Enumerator, BoolConst(TRUE)>>), Select(Select(Y, "E"), "B"),
   BindMacro("E", MapOf(<<>>), CallOf("_==_", <<Enumerator, Select(Select(Y, "E"), "A")>>)),
   BindMacro("c", One, CallOf("_+_", <<Y, Select(Select(Ident(".c"), "E"), "A")>>)),
   CallOf("_==_", <<CallOf("type", <<One>>), Ident("int")>>), Select(Ident("int"), "f"),
   CallOf("_==_", <<CallOf("type", <<Enumerator>>), Ident("E")>>),
   StructOf("int", <<>>, <<>>), StructOf("E", <<"A">>, <<One>>),
   StructOf("pb.Int64Value", <<"value">>, <<I>>), StructOf("pb.Int64Value", <<"x">>, <<I>>),
   CallOf("_+_", <<StructOf("pb.Int64Value", <<"value">>, <<I>>), I>>),
   CallOf("_==_", <<StructOf("pb.Int64Value", <<>>, <<>>), NullConst>>),
   CallOf("undeclared", <<I>>), CallOf("_&&_", <<I>>),
   [ListOf(<<I, MemberCall("of", <<Ident("optional"), I>>), I>>) EXCEPT !.optional = {2}],
   [ListOf(<<I, Ident("w")>>) EXCEPT !.optional = {1}],
   [MapOf(<<One, MemberCall("of", <<Ident("optional"), I>>), I, I>>) EXCEPT !.optional = {2, 4}],
   MapOf(<<One, Nil, I, ListOf(<<One>>), NullConst, I>>),
   BindMacro("c", MapOf(<<>>), CallOf("_==_", <<Select(Y, "y"), Select(Ident(".c"), "y")>>)),
   BindMacro("i", Nil, CallOf("_+_", <<Ident(".i"), Ident("i")>>)),
   ExpandAllMacro2(Ident("m"), "e", "v", CallOf("_==_", <<Ident("v"), CallOf("_==_", <<E, One>>)>>)),
   ExpandAllMacro2(Ident("xs"), "e", "e", CallOf("_==_", <<E, One>>)),
   ExpandAllMacro(Ident("xs"), "e", ExpandExistsMacro(ListOf(<<Ident("e")>>), "e",
                                      CallOf("_==_", <<E, Ident(".e")>>))),
   Block(<<Nil, CallOf("_+_", <<Ident("@index0"), ListOf(<<One>>)>>)>>,
         CallOf("_==_", <<Ident("@index1"), Ident("@index0")>>)),
   ListOf(<<I, I, I, I, I, Ident("x")>>), CallOf("_+_", <<Ident("x"), Ident("x")>>)}

MapLiterals == {MapOf(<<One, x, I, y>>) : x \in Atoms, y \in Atoms}

MCTrees ==
  Binaries(Atoms, Atoms) \cup Lists(Atoms, Atoms) \cup Ternaries(Atoms, Atoms)
    \cup MapLiterals \cup Loops \cup OpenLoops \cup Binds \cup Maps \cup Filters \cup Others
=============================================================================
