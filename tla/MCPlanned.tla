----------------------------- MODULE MCPlanned -----------------------------
(***************************************************************************)
(* Expressions, activations and options for PlannedEvaluation.              *)
(***************************************************************************)
EXTENDS PlannedEvaluation

MCIdentifiers   == {"x", "y", "xs"}
MCAttributes    == {"x", "y", "xs", "pending"}
MCMacroAccuVars == {AccuVarName}
MCBlockIndexes  == ("@index0" :> 0) @@ ("@index1" :> 1)

NoOverloads == [lazy |-> <<>>, eager |-> <<>>]
Add     == [kinds |-> <<"int", "int">>, strict |-> TRUE, impl |-> "add"]
Concat  == [kinds |-> <<"list", "list">>, strict |-> TRUE, impl |-> "concat"]
Pending == [kinds |-> <<>>, strict |-> TRUE, impl |-> "pending"]
IsErr   == [kinds |-> <<"any">>, strict |-> FALSE, impl |-> "is_err"]

\* plus is provided by the activation, its eager overloads are shadowed.
MCFunctions ==
  ("_+_" :> [lazy |-> <<>>, eager |-> <<Add, Concat>>])
  @@ ("plus" :> [lazy |-> <<Add>>, eager |-> <<Concat>>])
  @@ ("pending" :> [lazy |-> <<>>, eager |-> <<Pending>>])
  @@ ("is_err" :> [lazy |-> <<>>, eager |-> <<IsErr>>])

-----------------------------------------------------------------------------
\* Activations: a provider that answers differently from call to call, an
\* empty list and an overflow, an unknown with a map to iterate over, and an
\* unbound variable with something that is no list.
OneTwo == ListEntries(<<IntValue(1), IntValue(2)>>)
Table  == <<[key |-> IntValue(1), val |-> IntValue(2)],
            [key |-> IntValue(2), val |-> IntValue(1)]>>

Binding(x, y, xs) == [v \in MCIdentifiers |-> IF v = "x" THEN x ELSE IF v = "y" THEN y ELSE xs]

Volatile ==
  [vars |-> Binding({BoolValue(TRUE), BoolValue(FALSE)}, {IntValue(1)}, {ListValue(1)}),
   unknown |-> {}, functions |-> {"add"}, arena |-> <<OneTwo>>,
   broken |-> {}]
Empty ==
  [vars |-> Binding({BoolValue(TRUE)}, {IntValue(3)}, {ListValue(1)}),
   unknown |-> {}, functions |-> {"add"}, arena |-> <<<<>>>>,
   broken |-> {}]
Partial ==
  [vars |-> Binding({BoolValue(FALSE)}, {IntValue(1), Failing}, {MapValue(1)}),
   unknown |-> {"x"}, functions |-> {}, arena |-> <<Table>>,
   broken |-> {}]
Broken ==
  [vars |-> Binding({Unbound}, {IntValue(2)}, {IntValue(0)}),
   unknown |-> {}, functions |-> {"add"}, arena |-> <<>>,
   broken |-> {}]

AllActivations == {Volatile, Empty, Partial, Broken}
TwoActivations == {Volatile, Partial}

-----------------------------------------------------------------------------
X  == Ident("x")
Y  == Ident("y")
XS == Ident("xs")
E  == Ident("e")
Eq(a, b)   == CallOf("_==_", <<a, b>>)
Plus(a, b) == CallOf("_+_", <<a, b>>)
And(es)    == CallOf("_&&_", es)
Or(es)     == CallOf("_||_", es)
If(c, a, b) == CallOf("_?_:_", <<c, a, b>>)
YPlusOne   == Plus(Y, IntConst(1))

\* Operands, of every outcome the operators tell apart.
Operands ==
  <<X,
    BoolConst(FALSE),
    IntConst(1),
    ExpandExistsMacro(XS, "e", Eq(E, IntConst(1))),
    ExpandAllMacro2(XS, "e", "f", CallOf("_!=_", <<E, Ident("f")>>)),
    BindMacro("b", YPlusOne, Eq(Ident("b"), IntConst(2))),
    Eq(ExpandMap2Macro(XS, "e", Plus(E, IntConst(1))),
       ListOf(<<IntConst(2), IntConst(3)>>)),
    CallOf("is_err", <<CallOf("plus", <<Y, IntConst(1)>>)>>),
    CallOf("@in", <<ListOf(<<CallOf("pending", <<>>)>>), XS>>)>>

\* Scopes inside scopes: loops in lazy initialisers, lazy initialisers in
\* loops, shadowed names, inlinable initialisers, filters and nested maps.
Nested ==
  <<BindMacro("b", ExpandExistsMacro(XS, "e", Eq(E, Y)), And(<<Ident("b"), Ident("b"), X>>)),
    BindMacro("b", IntConst(2), ExpandExistsMacro(XS, "e", Eq(E, Ident("b")))),
    BindMacro("b", Y, Eq(Plus(Ident("b"), Ident("b")), IntConst(2))),
    BindMacro("b", YPlusOne, BindMacro("b", Plus(Ident("b"), IntConst(1)), Eq(Ident("b"), Y))),
    BindMacro("b", BindMacro("c", YPlusOne, Plus(Ident("c"), Ident("c"))),
              If(X, Eq(Ident("b"), IntConst(2)), BoolConst(FALSE))),
    ExpandAllMacro(XS, "e", BindMacro("b", Plus(E, IntConst(1)), Eq(Ident("b"), Plus(E, Y)))),
    ExpandExistsMacro(XS, "e",
      ExpandExistsOneMacro(XS, "e2", Eq(Plus(E, Ident("e2")), IntConst(3)))),
    ExpandFilterMacro(XS, "e", Or(<<Eq(E, Y), X>>)),
    ExpandMap2Macro(XS, "e", ExpandMap3Macro(XS, "d", X, Plus(E, Ident("d")))),
    BindMacro("b", ExpandMap2Macro(XS, "e", YPlusOne),
              ExpandMap2Macro(XS, "e", Ident("b"))),
    Block(<<YPlusOne, Plus(Ident("@index0"), IntConst(1))>>,
          ExpandExistsMacro(XS, "e", Eq(Plus(E, Ident("@index0")), Ident("@index1")))),
    Block(<<ExpandExistsMacro(XS, "e", X), ExpandAllMacro(XS, "e", Ident("@index0"))>>,
          BindMacro("b", Or(<<Ident("@index1"), Ident("@index0")>>),
                    And(<<Ident("b"), ExpandAllMacro(XS, "e", Ident("b"))>>))),
    \* rejected by the planner: a binding that refers to a later one
    Block(<<Ident("@index1"), YPlusOne>>, Eq(Ident("@index0"), Y)),
    ExpandAllMacro(ListOf(<<BoolConst(TRUE), IntConst(1)>>), "e", E),
    NewComprehension("e", "", XS, "acc", IntConst(0), If(X, Eq(E, E), IntConst(1)),
                     Plus(Ident("acc"), E), Ident("acc"))>>

\* Every pair of operands under an operator, or around a scope.
Pairs(op(_, _)) ==
  LET n == Len(Operands) IN
  [k \in 1 .. n * n |-> op(Operands[((k - 1) \div n) + 1], Operands[((k - 1) % n) + 1])]

AndPairs  == LET op(a, b) == And(<<a, b>>) IN Pairs(op)
OrPairs   == LET op(a, b) == Or(<<a, b, X>>) IN Pairs(op)
IfPairs   == LET op(a, b) == If(a, b, CallOf("!_", <<a>>)) IN Pairs(op)
BindPairs == LET op(a, b) == BindMacro("v", a, And(<<b, Ident("v"), Ident("v")>>)) IN Pairs(op)
LoopPairs == LET op(a, b) == ExpandExistsMacro(ListOf(<<a, b>>), "v", And(<<a, Ident("v")>>))
             IN  Pairs(op)

-----------------------------------------------------------------------------
Candidates(asts, opt) == [i \in DOMAIN asts |-> [ast |-> asts[i], opt |-> opt]]

Accepted(asts, opt) == SelectSeq(Candidates(asts, opt), LAMBDA c : Planned(c.ast, c.opt))

\* A step that holds a list, which the model has no constant for.
HasListConstant(p) ==
  \E i \in DOMAIN p.paths : \E j \in DOMAIN p.paths[i] : IsContainer(p.paths[i][j].value)

\* The cases the planner accepts, except those of the stale slot finding: only
\* plans that short-circuit leave a slot set behind.
Runnable(cases) ==
  LET plain(p)    == /\ p.shortCircuiting => ~ReusesIterationSlot(p)
                     /\ ~HasListConstant(p)
      fit(out, c) == out.st.ok /\ plain(FinishExpression(out, c.opt))
  IN  SelectSeq(cases, LAMBDA c : fit(Visit(c.ast, InitialVisitor, c.opt), c))

SmallOpt == PlannerOptions(TRUE, TRUE, TRUE, "attribute_and_function")
PlainOpt == PlannerOptions(TRUE, FALSE, FALSE, "disabled")
ExhaustiveOpt == PlannerOptions(FALSE, TRUE, FALSE, "attribute")
ExhaustivePlainOpt == PlannerOptions(FALSE, FALSE, TRUE, "disabled")

\* Short-circuiting plans, and plans that evaluate everything.
ShortCircuitCases ==
  Candidates(AndPairs \o IfPairs \o LoopPairs \o Nested, SmallOpt)
    \o Candidates(OrPairs \o BindPairs \o Nested, PlainOpt)

ExhaustiveCases ==
  Candidates(AndPairs \o IfPairs \o BindPairs \o Nested, ExhaustiveOpt)
    \o Candidates(OrPairs \o Nested, ExhaustivePlainOpt)

\* Constant parts in every context, folded to values, errors or not at all:
\* calls of the activation and pending ones, a variable that stands for a
\* constant, and jumps over what was folded.
OnePlusOne == Plus(IntConst(1), IntConst(1))
Foldable ==
  <<X,
    Eq(OnePlusOne, IntConst(2)),
    Plus(IntConst(4), IntConst(4)),
    CallOf("is_err", <<CallOf("pending", <<>>)>>),
    Eq(CallOf("plus", <<IntConst(1), OnePlusOne>>), IntConst(3)),
    CallOf("!_", <<CallOf("@not_strictly_false", <<CallOf("@in", <<Y, IntConst(1)>>)>>)>>),
    BindMacro("b", OnePlusOne, Eq(Plus(Ident("b"), Ident("b")), IntConst(4)))>>

FoldablePairs(op(_, _)) ==
  LET n == Len(Foldable) IN
  [k \in 1 .. n * n |-> op(Foldable[((k - 1) \div n) + 1], Foldable[((k - 1) % n) + 1])]

FoldedLoops ==
  LET op(a, b) == ExpandExistsMacro(XS, "v", And(<<a, Eq(Ident("v"), OnePlusOne), b>>))
  IN  FoldablePairs(op)
FoldedBranches ==
  LET op(a, b) == If(a, b, CallOf("!_", <<b>>)) IN FoldablePairs(op)
FoldedBindings ==
  LET op(a, b) == BindMacro("v", a, Or(<<CallOf("!_", <<Ident("v")>>), b, Ident("v")>>))
  IN  FoldablePairs(op)
FoldedMaps ==
  <<ExpandMap2Macro(XS, "e", OnePlusOne),
    ExpandMap3Macro(XS, "e", Eq(OnePlusOne, IntConst(2)), Plus(E, OnePlusOne)),
    Block(<<OnePlusOne, Plus(Ident("@index0"), IntConst(1))>>,
          ExpandExistsMacro(XS, "e", Eq(Plus(E, Ident("@index0")), Ident("@index1"))))>>

FoldingCases ==
  LET folding(opt) == [opt EXCEPT !.constantFolding = TRUE]
  IN  Candidates(FoldedLoops \o FoldedBranches \o FoldedMaps \o Nested, folding(SmallOpt))
        \o Candidates(FoldedBindings \o FoldedMaps, folding(ExhaustivePlainOpt))

EvaluationCases == Runnable(ShortCircuitCases \o ExhaustiveCases \o FoldingCases)

\* A few plans whose evaluator state is used again.
ReuseCases == Runnable(Candidates(Nested, SmallOpt))

\* Loops in loops, and in the initialiser of a variable a loop refers to,
\* with a budget that runs out in the middle of them.
BudgetLoops ==
  <<ExpandAllMacro(XS, "e", ExpandExistsMacro(XS, "e2", Eq(E, Ident("e2")))),
    ExpandMap2Macro(XS, "e", ExpandMap3Macro(XS, "d", X, Plus(E, Ident("d")))),
    BindMacro("b", ExpandMap2Macro(XS, "e", YPlusOne), ExpandMap2Macro(XS, "e", Ident("b"))),
    ExpandAllMacro2(XS, "e", "f", ExpandExistsOneMacro(XS, "d", Eq(Ident("d"), Ident("f"))))>>

BudgetCases ==
  LET limited(n) == [SmallOpt EXCEPT !.maxIterations = n]
  IN  Accepted(BudgetLoops, limited(2)) \o Accepted(BudgetLoops, limited(3))
        \o Accepted(BudgetLoops, limited(4)) \o Accepted(BudgetLoops, limited(8))

ReuseAndBudgetCases == ReuseCases \o BudgetCases

\* A variable bound after a loop that ends at its loop condition.
StaleSlotCases ==
  Accepted(<<And(<<ExpandExistsMacro(XS, "e", Eq(E, IntConst(1))),
                   BindMacro("b", YPlusOne, Eq(Ident("b"), IntConst(2)))>>)>>, SmallOpt)

\* A loop over a list of as many elements as the budget allows iterations.
OneLoopCases ==
  Accepted(<<ExpandMap2Macro(XS, "e", YPlusOne)>>, [SmallOpt EXCEPT !.maxIterations = 2])
=============================================================================
