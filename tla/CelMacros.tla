----------------------------- MODULE CelMacros -----------------------------
(***************************************************************************)
(* The AST as the planner receives it: node constructors, and the macros    *)
(* the parser expands into comprehensions (parser/macro.cc,                 *)
(* extensions/comprehensions_v2_macros.cc, extensions/bindings_ext.cc).     *)
(***************************************************************************)
EXTENDS CelValues

Node(t) ==
  [t |-> t, name |-> "", iter |-> "", iter2 |-> "", accu |-> "", val |-> NullValue,
   args |-> <<>>, fields |-> <<>>, optional |-> {}]

Const(v)       == [Node("const") EXCEPT !.val = v]
BoolConst(b)   == Const(BoolValue(b))
IntConst(i)    == Const(IntValue(i))
Ident(x)       == [Node("ident") EXCEPT !.name = x]
\* field of an operand, and has(operand.field)
Select(e, field)   == [Node("select") EXCEPT !.name = field, !.args = <<e>>]
TestOnly(e, field) == [Node("has") EXCEPT !.name = field, !.args = <<e>>]
ListOf(es)     == [Node("list") EXCEPT !.args = es]
CallOf(f, es)  == [Node("call") EXCEPT !.name = f, !.args = es]
\* target.f(es): the target is the first of args
MemberCall(f, es) == [Node("member") EXCEPT !.name = f, !.args = es]
\* keys and values alternate; optional holds the positions of ?-entries
MapOf(kvs)     == [Node("map") EXCEPT !.args = kvs]
StructOf(name, fields, es) ==
  [Node("struct") EXCEPT !.name = name, !.fields = fields, !.args = es]

NewComprehension(iter, iter2, range, accu, init, cond, step, result) ==
  [Node("compr") EXCEPT !.iter = iter, !.iter2 = iter2, !.accu = accu,
                        !.args = <<range, init, cond, step, result>>]

AccuVarName == "@result"
AccuIdent   == Ident(AccuVarName)

ExpandAllMacro2(range, x, y, pred) ==
  NewComprehension(x, y, range, AccuVarName, BoolConst(TRUE),
                   CallOf("@not_strictly_false", <<AccuIdent>>),
                   CallOf("_&&_", <<AccuIdent, pred>>), AccuIdent)

ExpandExistsMacro2(range, x, y, pred) ==
  NewComprehension(x, y, range, AccuVarName, BoolConst(FALSE),
                   CallOf("@not_strictly_false", <<CallOf("!_", <<AccuIdent>>)>>),
                   CallOf("_||_", <<AccuIdent, pred>>), AccuIdent)

ExpandAllMacro(range, x, pred)    == ExpandAllMacro2(range, x, "", pred)
ExpandExistsMacro(range, x, pred) == ExpandExistsMacro2(range, x, "", pred)

ExpandExistsOneMacro(range, x, pred) ==
  NewComprehension(x, "", range, AccuVarName, IntConst(0), BoolConst(TRUE),
                   CallOf("_?_:_", <<pred, CallOf("_+_", <<AccuIdent, IntConst(1)>>), AccuIdent>>),
                   CallOf("_==_", <<AccuIdent, IntConst(1)>>))

AppendToAccu(elem) == CallOf("_+_", <<AccuIdent, ListOf(<<elem>>)>>)

ExpandMap2Macro(range, x, elem) ==
  NewComprehension(x, "", range, AccuVarName, ListOf(<<>>), BoolConst(TRUE),
                   AppendToAccu(elem), AccuIdent)

ExpandMap3Macro(range, x, pred, elem) ==
  NewComprehension(x, "", range, AccuVarName, ListOf(<<>>), BoolConst(TRUE),
                   CallOf("_?_:_", <<pred, AppendToAccu(elem), AccuIdent>>), AccuIdent)

ExpandFilterMacro(range, x, pred) == ExpandMap3Macro(range, x, pred, Ident(x))

\* cel.bind(x, init, body)
BindMacro(x, init, body) ==
  NewComprehension("#unused", "", ListOf(<<>>), x, init, BoolConst(FALSE), Ident(x), body)

\* cel.@block([b0, b1, ...], bound), built by hand or by a common
\* subexpression optimizer; bindings are referred to as @index0, @index1, ...
BlockName(i) == <<"@index0", "@index1", "@index2">>[i]

Block(bindings, bound) == CallOf("cel.@block", <<ListOf(bindings), bound>>)
=============================================================================
