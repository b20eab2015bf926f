------------------------------ MODULE Unparser ------------------------------
(***************************************************************************)
(* tools/cel_unparser.cc: an AST and its recorded macro calls printed as   *)
(* tokens.  Spaces do not matter to the parser and are left out.           *)
(***************************************************************************)
EXTENDS AstFactory

UnaryOperators == [fn \in {<<"-_">>, <<"!_">>} |-> IF fn = <<"-_">> THEN "-" ELSE "!"]
BinaryOperators ==
    [fn \in {<<"_||_">>, <<"_&&_">>, <<"_<_">>, <<"@in">>, <<"_+_">>, <<"_-_">>, <<"_*_">>} |->
       CASE fn = <<"_||_">> -> "||" [] fn = <<"_&&_">> -> "&&" [] fn = <<"_<_">> -> "<"
         [] fn = <<"@in">> -> "in" [] fn = <<"_+_">> -> "+" [] fn = <<"_-_">> -> "-"
         [] fn = <<"_*_">> -> "*"]

\* Higher binds looser; 0 for a function that is no operator.
LookupPrecedence(fn) ==
    CASE fn = <<"_?_:_">> -> 8
      [] fn = <<"_||_">> -> 7
      [] fn = <<"_&&_">> -> 6
      [] fn \in {<<"_<_">>, <<"@in">>} -> 5
      [] fn \in {<<"_+_">>, <<"_-_">>} -> 4
      [] fn = <<"_*_">> -> 3
      [] fn \in DOMAIN UnaryOperators -> 2
      [] fn = <<"_[_]">> -> 1
      [] OTHER -> 0

IsOperatorSamePrecedence(fn, e) ==
    IsCall(e) /\ LookupPrecedence(fn) = LookupPrecedence(e.fn)
IsOperatorLowerPrecedence(fn, e) ==
    IsCall(e) /\ LookupPrecedence(fn) < LookupPrecedence(e.fn)
IsLogicalOperator(fn) == fn \in {<<"_&&_">>, <<"_||_">>}
\* Mutant: every operator is taken for associative.
IsNeverLeftRecursive(fn) == FALSE

IsOperatorLeftRecursive(fn) == ~IsLogicalOperator(fn)

IsComplexOperator(e) == IsCall(e) /\ Len(e.args) >= 2
IsComplexOperatorWithRespectTo(e, fn) ==
    IsComplexOperator(e) /\ IsOperatorLowerPrecedence(fn, e)
IsBinaryOrTernaryOperator(e) ==
    /\ IsComplexOperator(e)
    /\ e.fn \in DOMAIN BinaryOperators \/ IsOperatorSamePrecedence(<<"_?_:_">>, e)

\* A constant as its tokens; the sign of a number is a token of its own.  A
\* double is printed with at most six digits and no trailing zeros: 1.0 is 1.
VisitConst(v) ==
    CASE v = "-1" -> <<"-", "1">>
      [] v = "-2^63" -> <<"-", "2^63">>
      [] v = "1.0" -> <<"1">>
      [] v = "-1.0" -> <<"-", "1">>
      [] OTHER -> <<v>>

\* A field name that is no simple identifier is quoted.
FormatField(f) == IF f = "b.c" THEN <<"<b.c>">> ELSE <<f>>

Separated(parts, sep) ==
    FlattenSeq([i \in DOMAIN parts |-> IF i = 1 THEN parts[i] ELSE sep \o parts[i]])

\* A qualified name is printed with its dots.
DottedName(n) ==
    IF n[1] = "." THEN <<".">> \o Separated([i \in 1..(Len(n) - 1) |-> <<n[i + 1]>>], <<".">>)
    ELSE Separated([i \in DOMAIN n |-> <<n[i]>>], <<".">>)

RECURSIVE Visit(_, _)

VisitMaybeNested(e, calls, nested) ==
    IF nested THEN <<"(">> \o Visit(e, calls) \o <<")">> ELSE Visit(e, calls)

VisitSelect(e, calls) ==
    LET nested == ~e.test_only /\ IsBinaryOrTernaryOperator(e.operand)
        body == VisitMaybeNested(e.operand, calls, nested) \o <<".">> \o FormatField(e.field)
    IN IF e.test_only THEN <<"has", "(">> \o body \o <<")">> ELSE body

VisitOptSelect(e, calls) ==
    VisitMaybeNested(e.args[1], calls, IsBinaryOrTernaryOperator(e.args[1]))
      \o <<".", "?">> \o FormatField(e.args[2].v)

VisitUnary(e, calls) ==
    <<UnaryOperators[e.fn]>> \o VisitMaybeNested(e.args[1], calls, IsComplexOperator(e.args[1]))

VisitBinary(e, calls) ==
    LET op == <<BinaryOperators[e.fn]>>
        complex(x) == IsComplexOperatorWithRespectTo(x, e.fn)
        rhs == e.args[2]
    IN IF IsLogicalOperator(e.fn)
       THEN Separated([i \in DOMAIN e.args |->
                         VisitMaybeNested(e.args[i], calls, complex(e.args[i]))], op)
       ELSE VisitMaybeNested(e.args[1], calls, complex(e.args[1])) \o op
              \o VisitMaybeNested(rhs, calls,
                   \/ complex(rhs)
                   \/ IsOperatorLeftRecursive(e.fn) /\ IsOperatorSamePrecedence(e.fn, rhs))

VisitIndex(e, calls) ==
    VisitMaybeNested(e.args[1], calls, IsBinaryOrTernaryOperator(e.args[1]))
      \o (IF e.fn = <<"_[?_]">> THEN <<"[", "?">> ELSE <<"[">>)
      \o Visit(e.args[2], calls) \o <<"]">>

VisitTernary(e, calls) ==
    LET arm(x) == VisitMaybeNested(x, calls,
                    IsOperatorSamePrecedence(<<"_?_:_">>, x) \/ IsComplexOperator(x))
    IN arm(e.args[1]) \o <<"?">> \o arm(e.args[2]) \o <<":">> \o arm(e.args[3])

VisitCall(e, calls) ==
    CASE e.fn \in DOMAIN UnaryOperators -> VisitUnary(e, calls)
      [] e.fn \in DOMAIN BinaryOperators -> VisitBinary(e, calls)
      [] e.fn \in {<<"_[_]">>, <<"_[?_]">>} -> VisitIndex(e, calls)
      [] e.fn = <<"_?._">> -> VisitOptSelect(e, calls)
      [] e.fn = <<"_?_:_">> -> VisitTernary(e, calls)
      [] OTHER ->
           (IF e.target = <<>> THEN <<>>
            ELSE VisitMaybeNested(e.target[1], calls, IsBinaryOrTernaryOperator(e.target[1]))
                   \o <<".">>)
             \o DottedName(e.fn) \o <<"(">>
             \o Separated([i \in DOMAIN e.args |-> Visit(e.args[i], calls)], <<",">>) \o <<")">>

Mark(optional) == IF optional THEN <<"?">> ELSE <<>>

VisitCreateList(e, calls) ==
    <<"[">> \o Separated([i \in DOMAIN e.elems |->
                 Mark(e.elems[i].optional) \o Visit(e.elems[i].value, calls)], <<",">>)
      \o <<"]">>

VisitCreateStruct(e, calls) ==
    LET name == IF e.k = "struct" THEN DottedName(e.name) ELSE <<>>
        items == IF e.k = "struct" THEN e.fields ELSE e.entries
        key(x) == IF e.k = "struct" THEN FormatField(x.key) ELSE Visit(x.key, calls)
    IN name \o <<"{">>
         \o Separated([i \in DOMAIN items |->
              Mark(items[i].optional) \o key(items[i]) \o <<":">>
                \o Visit(items[i].value, calls)], <<",">>)
         \o <<"}">>

\* Without a recorded call a comprehension is recognised by its loop step:
\* the conjunction of all().
VisitComprehension(e, calls) ==
    VisitMaybeNested(e.iter_range, calls, IsComplexOperator(e.iter_range)) \o <<".">>
      \o <<"all", "(">> \o e.iter_var \o <<",">>
      \o Visit(e.loop_step.args[2], calls) \o <<")">>

\* The recorded macro call, if any, is printed in place of its expansion.
Visit(e, calls) ==
    IF e.id \in DOMAIN calls THEN Visit(calls[e.id], calls)
    ELSE CASE e.k = "const" -> VisitConst(e.v)
           [] e.k = "ident" -> DottedName(e.name)
           [] e.k = "select" -> VisitSelect(e, calls)
           [] e.k = "call" -> VisitCall(e, calls)
           [] e.k = "list" -> VisitCreateList(e, calls)
           [] e.k \in {"map", "struct"} -> VisitCreateStruct(e, calls)
           [] e.k = "comprehension" -> VisitComprehension(e, calls)

Unparse(expr, macro_calls) == Visit(expr, macro_calls)
=============================================================================
