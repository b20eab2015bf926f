--------------------------- MODULE PolicyComposer ---------------------------
(***************************************************************************)
(* PolicyComposer and Unnester (policy/compiler.cc): one expression from    *)
(* the rules, its type, and the bindings cut out of it.                     *)
(*                                                                         *)
(* A composition is [init, expr, wrapped, ok]: the bindings of the block so *)
(* far, the expression, whether it is an optional, and FALSE after an       *)
(* internal error or a failed assertion.  scope maps the variables in scope *)
(* to their bindings; the code's stack of scopes is the nesting of the      *)
(* operators' arguments.                                                    *)
(***************************************************************************)
EXTENDS PolicyCompiler

Composition(init, expr, wrapped, ok) ==
    [init |-> init, expr |-> expr, wrapped |-> wrapped, ok |-> ok]

OptionalNone  == NewCall("optional.none", <<>>)
OptionalOf(n) == NewCall("optional.of", <<n>>)
WrapIf(needed, c) == IF needed /\ ~c.wrapped THEN OptionalOf(c.expr) ELSE c.expr

\* Each variable in scope is replaced by the name of its binding.
RECURSIVE MapVariables(_, _)
MapVariables(n, scope) ==
    IF n.kind = "variable" THEN IF n.name \in DOMAIN scope THEN NewIdent(scope[n.name]) ELSE n
    ELSE [n EXCEPT !.args = [i \in DOMAIN @ |-> MapVariables(@[i], scope)]]

\* Mutant: a variable is in scope of its own expression.
AddVariableFirst(st, v) ==
    LET scope == (v.name :> Len(st.init)) @@ st.scope
    IN  [init |-> Append(st.init, MapVariables(v.expression, scope)), scope |-> scope]

\* Mutant: a variable of an enclosing rule comes before one of the same name.
AddVariableBelow(st, v) ==
    [init  |-> Append(st.init, MapVariables(v.expression, st.scope)),
     scope |-> st.scope @@ (v.name :> Len(st.init))]

AddVariable(st, v) ==
    [init  |-> Append(st.init, MapVariables(v.expression, st.scope)),
     scope |-> (v.name :> Len(st.init)) @@ st.scope]

ComposeRuleVariables(rule, init, scope) ==
    FoldLeft(AddVariable, [init |-> init, scope |-> scope], rule.variables)

RECURSIVE ComposeRule(_, _, _)

ComposeProduction(match, init, scope) ==
    IF HasRule(match) THEN ComposeRule(match.rule[1], init, scope)
    ELSE Composition(init, MapVariables(match.output[1], scope), FALSE, TRUE)

OrElse(needsWrap) == IF needsWrap THEN "or" ELSE "orValue"

\* The i-th match around what the matches behind it compose to.
Alternative(match, p, rest, needsWrap, scope) ==
    IF IsTriviallyTrueCondition(match)
    THEN Composition(rest.init, NewCall(OrElse(needsWrap), <<WrapIf(needsWrap, p), rest.expr>>),
                     rest.wrapped,
                     /\ p.ok /\ rest.ok
                     /\ p.wrapped /\ ~IsExhaustiveMatch(match))
    ELSE Composition(rest.init,
                     NewCall("_?_:_", <<MapVariables(match.condition[1], scope),
                                        WrapIf(needsWrap, p), rest.expr>>),
                     rest.wrapped,
                     /\ p.ok /\ rest.ok
                     /\ p.wrapped => needsWrap)

RECURSIVE ComposeMatches(_, _, _, _, _)
ComposeMatches(rule, i, needsWrap, init, scope) ==
    LET last == i = Len(rule.matches) /\ IsTriviallyTrueCondition(rule.matches[i])
        default(p) == Composition(p.init, WrapIf(needsWrap, p), needsWrap,
                                  p.ok /\ (p.wrapped => needsWrap))
        before(p)  == Alternative(rule.matches[i], p,
                                  ComposeMatches(rule, i + 1, needsWrap, p.init, scope),
                                  needsWrap, scope)
    IN  IF i > Len(rule.matches) THEN Composition(init, OptionalNone, TRUE, TRUE)
        ELSE IF last THEN default(ComposeProduction(rule.matches[i], init, scope))
        ELSE before(ComposeProduction(rule.matches[i], init, scope))

\* What an aggregate does with one match: an element, a ?-element when it may
\* be missing.
WithElement(st, match, scope) ==
    LET p == ComposeProduction(match, st.init, scope)
        always == IsTriviallyTrueCondition(match)
        element == IF always THEN p.expr
                   ELSE NewCall("_?_:_", <<MapVariables(match.condition[1], scope),
                                           WrapIf(TRUE, p), OptionalNone>>)
    IN  [init |-> p.init, ok |-> st.ok /\ p.ok,
         elements |-> Append(st.elements, element),
         optional |-> st.optional \cup IF always /\ ~p.wrapped THEN {}
                                       ELSE {Len(st.elements) + 1}]

ComposeAggregateRule(rule, init, scope) ==
    LET with(st, match) == WithElement(st, match, scope)
        all == FoldLeft(with, [init |-> init, elements |-> <<>>, optional |-> {}, ok |-> TRUE],
                        rule.matches)
    IN  Composition(all.init, NewList(all.elements, all.optional), FALSE, all.ok)

ComposeRule(rule, init, scope) ==
    LET declared == ComposeRuleVariables(rule, init, scope)
    IN  IF rule.aggregate THEN ComposeAggregateRule(rule, declared.init, declared.scope)
        ELSE ComposeMatches(rule, 1, ~IsExhaustive(rule), declared.init, declared.scope)

NewBlock(init, expr) == NewCall("cel.@block", <<NewList(init, {}), expr>>)

\* Compose, up to the check of the expression.
Compose(rule) ==
    LET c == ComposeRule(rule, <<>>, <<>>)
    IN  [ast |-> NewBlock(c.init, c.expr), ok |-> c.ok /\ c.wrapped = ~IsExhaustive(rule)]

-----------------------------------------------------------------------------
(***************************************************************************)
(* The check of the whole.  The parts have been checked, so the types of    *)
(* what the composer did not make are known.                                *)
(***************************************************************************)
LegacyNull == TRUE
NoBindings == [bind |-> <<>>, legacy |-> LegacyNull]

Typing(type, ctx, ok) == [type |-> type, ctx |-> ctx, ok |-> ok]

Segments(fn) == IF fn \in {"optional.of", "optional.none"}
                THEN <<"optional", IF fn = "optional.of" THEN "of" ELSE "none">>
                ELSE <<fn>>
ComposedDecls == AddLogicalOps @@ RegisterOptionalDecls

RECURSIVE CheckNode(_, _, _)

\* The arguments from left to right.
CheckArgs(n, slots, ctx) ==
    LET next(acc, arg) ==
          LET after(t) == [types |-> Append(acc.types, t.type), ctx |-> t.ctx,
                           ok |-> acc.ok /\ t.ok]
          IN  after(CheckNode(arg, slots, acc.ctx))
    IN  FoldLeft(next, [types |-> <<>>, ctx |-> ctx, ok |-> TRUE], n.args)

Resolved(r, ok) == Typing(r.result, r.ctx, ok /\ r.overloads # <<>>)

CheckCall(n, args) ==
    Resolved(ResolveOverload(ComposedDecls[Segments(n.name)], args.types,
                             n.name \in {"or", "orValue"}, args.ctx),
             args.ok)

\* Elements of types that do not fit make a list of dyn.
CheckList(n, args) ==
    LET element(i) == IF i \in n.optional THEN args.types[i].ps[1] ELSE args.types[i]
        start      == InstantiateTypeParams(<<TypeParam("E")>>, args.ctx)
        next(acc, i) ==
          LET after(a) == [type |-> IF a.ok THEN acc.type ELSE DynType, subs |-> a.subs]
          IN  after(IsAssignableInternal(element(i), acc.type, acc.subs, start.ctx))
        all == FoldLeft(next, [type |-> start.ts[1], subs |-> NoSubstitutions],
                        [i \in DOMAIN n.args |-> i])
        ctx == IF all.type = DynType THEN start.ctx
               ELSE UpdateTypeParameterBindings(all.subs, start.ctx)
    IN  IF \E i \in n.optional : ~IsOptional(args.types[i]) THEN Typing(ErrorType, args.ctx, FALSE)
        ELSE Typing(FullySubstitute(ListType(all.type), ctx), ctx, args.ok)

CheckComposed(n, args) == IF n.kind = "list" THEN CheckList(n, args) ELSE CheckCall(n, args)

CheckNode(n, slots, ctx) ==
    IF n.kind = "index"
    THEN IF n.at < Len(slots) THEN Typing(slots[n.at + 1], ctx, TRUE) ELSE Typing(ErrorType, ctx, FALSE)
    ELSE IF n.kind \in {"call", "list"} THEN CheckComposed(n, CheckArgs(n, slots, ctx))
    ELSE Typing(n.type, ctx, TRUE)

IsBlock(ast)  == ast.kind = "call" /\ ast.name = "cel.@block"
Bindings(ast) == IF IsBlock(ast) THEN ast.args[1].args ELSE <<>>
Body(ast)     == IF IsBlock(ast) THEN ast.args[2] ELSE ast

\* Bindings come into scope one by one, with what is left to infer fixed; the
\* body sees them all.
BodyTyping(all) == [type |-> Last(all.types), ok |-> all.ok]

Check(ast) ==
    LET next(acc, n) ==
          LET after(t) == [types |-> Append(acc.types, FinalizeType(t.type, t.ctx)),
                           ok |-> acc.ok /\ t.ok]
          IN  after(CheckNode(n, acc.types, NoBindings))
    IN  BodyTyping(FoldLeft(next, [types |-> <<>>, ok |-> TRUE], Append(Bindings(ast), Body(ast))))
=============================================================================
