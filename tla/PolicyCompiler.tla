--------------------------- MODULE PolicyCompiler ---------------------------
(***************************************************************************)
(* CompilePolicy (policy/compiler.cc): the rules are checked, composed into *)
(* one expression over a cel.@block of their variables, checked again, and *)
(* cut into bindings of the block where they are too high.                  *)
(*                                                                         *)
(* An optional is <<>> or a sequence of one element.  Issues are sets: the *)
(* compiler goes on after each, and refuses the policy when there are any. *)
(***************************************************************************)
EXTENDS CheckerLibrary, FiniteSetsExt

-----------------------------------------------------------------------------
(***************************************************************************)
(* Policies (policy/cel_policy.h) and the expressions in them.             *)
(*                                                                         *)
(* An expression of a policy is opaque to the policy compiler except for   *)
(* its type, its height and the policy variables it reads: an atom reads   *)
(* none, apply is any function or operator of expressions, a comprehension *)
(* one that must not be cut.  The composer adds calls, lists and the names *)
(* of the bindings of a cel.@block.                                        *)
(***************************************************************************)
\* at: the binding an index names, from 0; optional: the positions of a list
\* that are ?-elements.
Node(kind, name, type, args) ==
    [kind |-> kind, name |-> name, type |-> type, args |-> args, at |-> 0, optional |-> {}]

BoolLiteral(b)          == Node("const", IF b THEN "true" ELSE "false", BoolType, <<>>)
Atom(name, type)        == Node("atom", name, type, <<>>)
Apply(name, type, args) == Node("apply", name, type, args)
Loop(name, type, args)  == Node("comprehension", name, type, args)
VariableRef(x)          == Node("variable", x, DynType, <<>>)
NewIdent(at)            == [Node("index", "", DynType, <<>>) EXCEPT !.at = at]
NewCall(fn, args)       == Node("call", fn, DynType, args)
NewList(args, optional) == [Node("list", "", DynType, args) EXCEPT !.optional = optional]

\* A rule is an aggregate or selects the first match.  A match has at most one
\* condition and produces at most one of an output and a rule.
PolicyRule(aggregate, variables, matches) ==
    [aggregate |-> aggregate, variables |-> variables, matches |-> matches]
PolicyVariable(name, expression) == [name |-> name, expression |-> expression]
PolicyMatch(condition, output, rule) ==
    [condition |-> condition, output |-> output, rule |-> rule]

HasRule(match)   == match.rule # <<>>
HasOutput(match) == match.output # <<>>

-----------------------------------------------------------------------------
RECURSIVE Height(_)
Height(n) == 1 + Max({0} \cup {Height(n.args[i]) : i \in DOMAIN n.args})

\* The policy variables an expression reads.
RECURSIVE Reads(_)
Reads(n) ==
    (IF n.kind = "variable" THEN {n.name} ELSE {})
      \cup UNION {Reads(n.args[i]) : i \in DOMAIN n.args}

\* The bindings of the block an expression reads.
RECURSIVE IndexesIn(_)
IndexesIn(n) ==
    (IF n.kind = "index" THEN {n.at} ELSE {})
      \cup UNION {IndexesIn(n.args[i]) : i \in DOMAIN n.args}

-----------------------------------------------------------------------------
(***************************************************************************)
(* PolicyCompiler: env maps the variables in scope to their types.          *)
(***************************************************************************)
FilterSpecialTypes(t) == IF IsParam(t) \/ t = ErrorType THEN DynType
                         ELSE IF t.k = "enum" THEN IntType
                         ELSE IF t.k = "type" THEN TypeOfDyn ELSE t

MessageLike == {"null", "struct", "opaque", "int_wrapper"}

RECURSIVE OutputTypeIsAssignable(_, _)
OutputTypeIsAssignable(from0, to0) ==
    LET from == FilterSpecialTypes(from0)
        to   == FilterSpecialTypes(to0)
    IN  \/ from.k \in {"any", "dyn"} \/ to.k \in {"any", "dyn"}
        \/ {from, to} = {IntType, IntWrapperType}
        \/ from = NullType /\ to.k \in MessageLike
        \/ /\ from # NullType
           /\ SameShape(from, to)
           /\ \A i \in DOMAIN from.ps : OutputTypeIsAssignable(from.ps[i], to.ps[i])

OutputTypeIsCompatible(from, to) ==
    OutputTypeIsAssignable(from, to) \/ OutputTypeIsAssignable(to, from)

\* Valid when what it reads is declared; its type is its root's.
CompileExpression(n, env) ==
    [valid |-> Reads(n) \subseteq DOMAIN env,
     type  |-> IF n.kind = "variable" /\ n.name \in DOMAIN env THEN env[n.name] ELSE n.type]

\* A variable is in scope of those that follow it, unless it is refused.
DeclareVariable(st, v) ==
    LET compiled == CompileExpression(v.expression, st.env)
    IN  IF v.name \in st.seen THEN [st EXCEPT !.issues = @ \cup {"overlapping identifier"}]
        ELSE IF ~compiled.valid
             THEN [st EXCEPT !.seen = @ \cup {v.name}, !.issues = @ \cup {"undeclared reference"}]
             ELSE [st EXCEPT !.seen = @ \cup {v.name},
                             !.env  = (v.name :> compiled.type) @@ @]

CompileCondition(n, env) ==
    LET compiled == CompileExpression(n, env)
    IN  IF ~compiled.valid THEN {"undeclared reference"}
        ELSE IF compiled.type # BoolType THEN {"condition not bool"} ELSE {}

\* The output of an expression that does not check is dyn.
CompileOutputBlock(n, env) ==
    LET compiled == CompileExpression(n, env)
    IN  [type   |-> <<IF compiled.valid THEN compiled.type ELSE DynType>>,
         issues |-> IF compiled.valid THEN {} ELSE {"undeclared reference"}]

\* Mutant: the list an aggregate makes is left out of its type.
ElementTypeOnly(rule, type) == type

ResultType(rule, type) ==
    IF type # <<>> /\ rule.aggregate THEN <<ListType(type[1])>> ELSE type

\* The first output's type is the one all others are compared with.
WithMatch(st, match) ==
    [type   |-> IF st.type = <<>> THEN match.type ELSE st.type,
     issues |-> st.issues \cup match.issues
                  \cup IF /\ st.type # <<>> /\ match.type # <<>>
                          /\ ~OutputTypeIsCompatible(match.type[1], st.type[1])
                       THEN {"incompatible output types"} ELSE {}]

RECURSIVE CompileRule(_, _)

CompileMatch(match, env) ==
    LET production == IF HasOutput(match) THEN CompileOutputBlock(match.output[1], env)
                      ELSE IF HasRule(match) THEN CompileRule(match.rule[1], env)
                      ELSE [type |-> <<>>, issues |-> {"no output or rule"}]
    IN  [production EXCEPT !.issues = @ \cup
            UNION {CompileCondition(match.condition[i], env) : i \in DOMAIN match.condition}]

CompileRule(rule, env) ==
    LET declared == FoldLeft(DeclareVariable, [env |-> env, seen |-> {}, issues |-> {}],
                             rule.variables)
        with(st, match) == WithMatch(st, CompileMatch(match, declared.env))
        compiled == FoldLeft(with, [type |-> <<>>, issues |-> declared.issues], rule.matches)
    IN  [compiled EXCEPT !.type = ResultType(rule, @)]

-----------------------------------------------------------------------------
(***************************************************************************)
(* The structure of the rules.                                              *)
(***************************************************************************)
IsTriviallyTrueCondition(match) ==
    match.condition = <<>> \/ match.condition = <<BoolLiteral(TRUE)>>
IsLiterallyFalseCondition(match) == match.condition = <<BoolLiteral(FALSE)>>

\* Mutant: a match that can end without an output is tolerated when a default
\* follows.
RECURSIVE HasDefault(_)
HasDefault(rule) ==
    rule.aggregate \/ \E i \in DOMAIN rule.matches :
        /\ IsTriviallyTrueCondition(rule.matches[i])
        /\ HasRule(rule.matches[i]) => HasDefault(rule.matches[i].rule[1])

\* Every evaluation of the rule gives an output: there is a default, and no
\* match that is selected by its condition ends without one.
RECURSIVE IsExhaustive(_)
IsExhaustiveMatch(match) == HasRule(match) => IsExhaustive(match.rule[1])
IsExhaustive(rule) ==
    \/ rule.aggregate
    \/ /\ \E i \in DOMAIN rule.matches :
            IsTriviallyTrueCondition(rule.matches[i]) /\ IsExhaustiveMatch(rule.matches[i])
       /\ \A i \in DOMAIN rule.matches :
            IsTriviallyTrueCondition(rule.matches[i]) \/ IsExhaustiveMatch(rule.matches[i])

\* Mutant: whatever its production, a match without condition ends the rule.
IsUnconditional(match) == IsTriviallyTrueCondition(match)

\* Nothing behind such a match is ever selected.
IsDefault(match) == IsTriviallyTrueCondition(match) /\ IsExhaustiveMatch(match)

MatchIssues(rule, i) ==
    (IF ~rule.aggregate /\ \E j \in 1..(i - 1) : IsDefault(rule.matches[j])
     THEN {"unreachable outputs"} ELSE {})
      \cup (IF IsLiterallyFalseCondition(rule.matches[i]) THEN {"always false"} ELSE {})

RECURSIVE CheckMatchStructure(_, _)
CheckMatchStructure(rule, hasAggregateAncestor) ==
    (IF hasAggregateAncestor /\ rule.aggregate THEN {"nested aggregate"} ELSE {})
      \cup (IF rule.matches = <<>> THEN {"no matches"} ELSE {})
      \cup UNION {MatchIssues(rule, i) : i \in DOMAIN rule.matches}
      \cup UNION {CheckMatchStructure(rule.matches[i].rule[1],
                                      hasAggregateAncestor \/ rule.aggregate) :
                    i \in {j \in DOMAIN rule.matches : HasRule(rule.matches[j])}}
=============================================================================
