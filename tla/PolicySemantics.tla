--------------------------- MODULE PolicySemantics ---------------------------
(***************************************************************************)
(* What a policy means, without composing anything, and what the composed   *)
(* expression evaluates to.                                                 *)
(*                                                                         *)
(* A world gives every atom that is a condition or a variable's expression  *)
(* true, false or an error.  Everything else evaluates to a term that keeps *)
(* its name and its arguments, so that two different evaluations never look *)
(* the same; a negation is there to make conditions of any height.          *)
(***************************************************************************)
EXTENDS PolicyCompilation

Term(tag, args) == [tag |-> tag, args |-> args]
True  == Term("true", <<>>)
False == Term("false", <<>>)
Err   == Term("error", <<>>)
None  == Term("optional.none", <<>>)
Some(v) == Term("optional.of", <<v>>)

Strict(vs, v) == IF \E i \in DOMAIN vs : vs[i] = Err THEN Err ELSE v

\* An optional with a value, or an error, is the answer; otherwise the right
\* side is.
EvalOptionalOr(fn, lhs, rhs) ==
    IF lhs = Err THEN Err
    ELSE IF lhs.tag = "optional.of" THEN IF fn = "orValue" THEN lhs.args[1] ELSE lhs
    ELSE IF lhs # None \/ (fn = "or" /\ ~(rhs.tag \in {"error", "optional.none", "optional.of"}))
         THEN Err
    ELSE rhs

\* The ?-elements without a value are left out, those with one are unwrapped.
EvalList(vs, optional) ==
    LET element(i) == IF i \notin optional THEN <<vs[i]>>
                      ELSE IF vs[i] = None THEN <<>> ELSE <<vs[i].args[1]>>
    IN  IF \E i \in optional : vs[i] # None /\ vs[i].tag # "optional.of" THEN Err
        ELSE Strict(vs, Term("list", FlattenSeq([i \in DOMAIN vs |-> element(i)])))

\* vars: the values of policy variables; slots: the bindings of the block,
\* evaluated when they are used.
RECURSIVE Evaluate(_, _, _, _)

EvalCall(n, vs, then, else) ==
    CASE n.name = "optional.of"   -> Strict(vs, Some(vs[1]))
      [] n.name = "optional.none" -> None
      [] n.name \in {"or", "orValue"} -> EvalOptionalOr(n.name, vs[1], vs[2])
      [] n.name = "_?_:_" -> IF vs[1] = True THEN then ELSE IF vs[1] = False THEN else ELSE Err

Evaluate(n, vars_, slots, world) ==
    LET vs == [i \in DOMAIN n.args |-> Evaluate(n.args[i], vars_, slots, world)] IN
    CASE n.kind = "const"    -> Term(n.name, <<>>)
      [] n.kind = "atom"     -> Term(IF n.name \in DOMAIN world THEN world[n.name] ELSE n.name, <<>>)
      [] n.kind = "variable" -> vars_[n.name]
      [] n.kind = "index"    -> Evaluate(slots[n.at + 1], vars_, slots, world)
      [] n.kind = "list"     -> EvalList(vs, n.optional)
      [] n.kind = "call"     -> EvalCall(n, vs, IF Len(vs) > 2 THEN vs[2] ELSE None,
                                         IF Len(vs) > 2 THEN vs[3] ELSE None)
      [] n.name = "!_"       -> Strict(vs, IF vs[1] = True THEN False ELSE True)
      [] OTHER               -> Strict(vs, Term(n.name, vs))

EvaluateAst(expr, world) == Evaluate(Body(expr), <<>>, Bindings(expr), world)

-----------------------------------------------------------------------------
(***************************************************************************)
(* Rules.  cel_policy.h: "Matches are evaluated in order and the first      *)
(* match is returned.  If the match contains a sub-rule, the sub-rule is    *)
(* evaluated only if the match condition evaluates to true."  A match       *)
(* without a condition whose sub-rule has no output is passed over.         *)
(***************************************************************************)
VariableValues(r, outer, world) ==
    LET with(env, v) == (v.name :> Evaluate(v.expression, env, <<>>, world)) @@ env
    IN  FoldLeft(with, outer, r.variables)

ConditionValue(match, env, world) ==
    IF match.condition = <<>> THEN True ELSE Evaluate(match.condition[1], env, <<>>, world)

RECURSIVE RuleValue(_, _, _)

ProductionValue(match, env, world) ==
    IF HasRule(match) THEN RuleValue(match.rule[1], env, world)
    ELSE Evaluate(match.output[1], env, <<>>, world)

FirstMatchValue(ms, conds, outs) ==
    LET always(i) == ms[i].condition \in {<<>>, <<BoolLiteral(TRUE)>>}
        ends == {i \in DOMAIN ms : conds[i] # False /\ ~(always(i) /\ outs[i] = None)}
    IN  IF ends = {} THEN None
        ELSE IF conds[Min(ends)] = Err THEN Err ELSE outs[Min(ends)]

\* "All matches are evaluated and the results are aggregated into a list."
AggregateValue(ms, conds, outs) ==
    LET holding == SelectSeq([i \in DOMAIN ms |-> i],
                             LAMBDA i : conds[i] = True /\ outs[i] # None)
        values == [i \in DOMAIN holding |-> outs[holding[i]]]
    IN  Strict(conds, Strict(values, Term("list", values)))

RuleValue(r, outer, world) ==
    LET env   == VariableValues(r, outer, world)
        ms    == r.matches
        conds == [i \in DOMAIN ms |-> ConditionValue(ms[i], env, world)]
        outs  == [i \in DOMAIN ms |-> ProductionValue(ms[i], env, world)]
    IN  IF r.aggregate THEN AggregateValue(ms, conds, outs) ELSE FirstMatchValue(ms, conds, outs)

\* A policy that may end without an output has an optional result.
PolicyValue(r, world) ==
    LET v == RuleValue(r, <<>>, world)
    IN  IF IsExhaustive(r) \/ v \in {None, Err} THEN v ELSE Some(v)

-----------------------------------------------------------------------------
RECURSIVE ConditionAtoms(_)
ConditionAtoms(n) == (IF n.kind = "atom" /\ n.type = BoolType THEN {n.name} ELSE {})
                       \cup UNION {ConditionAtoms(n.args[i]) : i \in DOMAIN n.args}

RECURSIVE Parts(_)
\* The expressions of the outputs, and all others, of a rule.
Parts(r) ==
    LET sub == {r.matches[i].rule[1] : i \in {j \in DOMAIN r.matches : HasRule(r.matches[j])}}
    IN  [outputs |-> {r.matches[i].output[1] : i \in {j \in DOMAIN r.matches : HasOutput(r.matches[j])}}
                       \cup UNION {Parts(s).outputs : s \in sub},
         others  |-> {r.variables[i].expression : i \in DOMAIN r.variables}
                       \cup UNION {ToSet(r.matches[i].condition) : i \in DOMAIN r.matches}
                       \cup UNION {Parts(s).others : s \in sub}]

\* Every truth value for every atom, and at most one error.
Worlds(r) ==
    LET atoms == UNION {ConditionAtoms(n) : n \in Parts(r).others}
        sane  == [atoms -> {"true", "false"}]
    IN  sane \cup {[w EXCEPT ![a] = "error"] : w \in sane, a \in atoms}

RECURSIVE Mentions(_, _)
Mentions(v, tag) == v.tag = tag \/ \E i \in DOMAIN v.args : Mentions(v.args[i], tag)

-----------------------------------------------------------------------------
\* Whatever its conditions evaluate to, a compiled policy gives the output the
\* rules select, all that apply in an aggregate, an error when the choice
\* depends on one, and an optional when no output may be selected
\* (compiler.cc, ComposeFirstMatchRule, ComposeAggregateRule, Slice).
ComposedMeansPolicy ==
    stage = "valid" => \A w \in Worlds(rule) : EvaluateAst(ast, w) = PolicyValue(rule, w)

\* What passes the checks of the rules can be composed: no internal error, no
\* failed assertion on what is an optional, and cutting the expression leaves it
\* well typed (compiler.cc, Compose and Unnest).
CompositionSucceeds == stage # "failed"

\* A rule is refused for outputs that are never selected exactly when there
\* are some: each output of an accepted policy is the result, or in it, for
\* some values of the conditions (compiler.cc, CheckMatchStructure).
UnreachableIsReported ==
    LET neverSelected(o) == \A w \in Worlds(rule) : ~Mentions(RuleValue(rule, <<>>, w), o.name)
    IN  stage \in {"composed", "refused"} /\ issues \subseteq {"unreachable outputs", "always false"}
          => ((\E o \in Parts(rule).outputs : neverSelected(o)) <=> issues # {})

\* A binding reads only bindings before it, as the planner requires, and the
\* body only bindings there are (compiler.cc, ComposeRuleVariables and
\* UnnestRewriter).
BindingsAreOrdered ==
    stage \in {"composed", "unnested"} =>
      LET init == Bindings(ast)
      IN  /\ \A i \in DOMAIN init : \A at \in IndexesIn(init[i]) : at < i - 1
          /\ \A at \in IndexesIn(Body(ast)) : at < Len(init)

\* The type of the result is compatible with the type CompileRule compared the
\* outputs with, under an optional exactly when there may be no output.
ResultTypeFits ==
    stage = "valid" =>
      LET plain == IF IsExhaustive(rule) THEN result ELSE result.ps[1]
      IN  /\ IsOptional(result) = ~IsExhaustive(rule)
          /\ OutputTypeIsCompatible(plain, type[1])
=============================================================================
