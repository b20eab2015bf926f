----------------------------- MODULE AstFactory -----------------------------
(***************************************************************************)
(* The parsed syntax tree: the node kinds of common/expr.h, the factory    *)
(* operations of parser/internal/ast_factory.h that build them, and the    *)
(* macros a parser expands while it builds.  A node carries the id its     *)
(* position is recorded under; a name is the sequence of its tokens, so *)
(* .a is <<".", "a">> and the message name a.b is <<"a", "b">>.        *)
(*                                                                         *)
(* The operators are recursive over the tree, so no theorem uses them.     *)
(***************************************************************************)
EXTENDS Naturals, Sequences, SequencesExt, FiniteSets

NewUnspecified(id) == [k |-> "unspecified", id |-> id]
\* A default constructed cel::Expr.
NoExpr == NewUnspecified(0)
NewConst(id, v) == [k |-> "const", id |-> id, v |-> v]
NewIdent(id, name) == [k |-> "ident", id |-> id, name |-> name]
NewSelect(id, operand, field) ==
    [k |-> "select", id |-> id, operand |-> operand, field |-> field,
     test_only |-> FALSE]
NewPresenceTest(id, operand, field) ==
    [NewSelect(id, operand, field) EXCEPT !.test_only = TRUE]
\* The target is a sequence of at most one node: <<>> for a global call.
NewMemberCall(id, fn, target, args) ==
    [k |-> "call", id |-> id, fn |-> fn, target |-> target, args |-> args]
NewCall(id, fn, args) == NewMemberCall(id, fn, <<>>, args)
NewList(id, elems) == [k |-> "list", id |-> id, elems |-> elems]
NewMap(id, entries) == [k |-> "map", id |-> id, entries |-> entries]
NewStruct(id, name, fields) ==
    [k |-> "struct", id |-> id, name |-> name, fields |-> fields]
NewComprehension(id, var, range, init, cond, step, result) ==
    [k |-> "comprehension", id |-> id, iter_var |-> var, iter_range |-> range,
     accu_init |-> init, loop_condition |-> cond, loop_step |-> step,
     result |-> result]

\* An element of a list, an entry of a map, a field of a message.
Element(e, optional) == [value |-> e, optional |-> optional]
Entry(id, key, e, optional) ==
    [id |-> id, key |-> key, value |-> e, optional |-> optional]

IsIdent(e) == e.k = "ident"
IsSelect(e) == e.k = "select"
IsCall(e) == e.k = "call"
IsCallOf(e, fns) == IsCall(e) /\ e.fn \in fns

\* The children of a node, left to right.
Children(e) ==
    CASE e.k = "select" -> <<e.operand>>
      [] e.k = "call" -> e.target \o e.args
      [] e.k = "list" -> [i \in DOMAIN e.elems |-> e.elems[i].value]
      [] e.k = "map" ->
            FlattenSeq([i \in DOMAIN e.entries |->
                          <<e.entries[i].key, e.entries[i].value>>])
      [] e.k = "struct" -> [i \in DOMAIN e.fields |-> e.fields[i].value]
      [] e.k = "comprehension" ->
            <<e.iter_range, e.accu_init, e.loop_condition, e.loop_step, e.result>>
      [] OTHER -> <<>>

\* The ids of a node itself: map entries and message fields have their own.
OwnIds(e) ==
    <<e.id>> \o (CASE e.k = "map" -> [i \in DOMAIN e.entries |-> e.entries[i].id]
                   [] e.k = "struct" -> [i \in DOMAIN e.fields |-> e.fields[i].id]
                   [] OTHER -> <<>>)

RECURSIVE Nodes(_)
\* Every node of a tree, root first.
Nodes(e) ==
    <<e>> \o FlattenSeq([i \in DOMAIN Children(e) |-> Nodes(Children(e)[i])])

NodeSet(e) == ToSet(Nodes(e))

\* Every id of a tree, with repetitions.
AllIds(e) == FlattenSeq([i \in DOMAIN Nodes(e) |-> OwnIds(Nodes(e)[i])])

\* The node with other children, one for each of Children(e).
WithChildren(e, c) ==
    CASE e.k = "select" -> [e EXCEPT !.operand = c[1]]
      [] e.k = "call" -> [e EXCEPT !.target = SubSeq(c, 1, Len(@)),
                                   !.args = SubSeq(c, Len(e.target) + 1, Len(c))]
      [] e.k = "list" ->
            [e EXCEPT !.elems = [i \in DOMAIN @ |-> [@[i] EXCEPT !.value = c[i]]]]
      [] e.k = "map" ->
            [e EXCEPT !.entries = [i \in DOMAIN @ |->
               [@[i] EXCEPT !.key = c[2 * i - 1], !.value = c[2 * i]]]]
      [] e.k = "struct" ->
            [e EXCEPT !.fields = [i \in DOMAIN @ |-> [@[i] EXCEPT !.value = c[i]]]]
      [] e.k = "comprehension" ->
            [e EXCEPT !.iter_range = c[1], !.accu_init = c[2],
                      !.loop_condition = c[3], !.loop_step = c[4], !.result = c[5]]
      [] OTHER -> e

RECURSIVE NoIds(_)
\* The tree without its ids: what two parsers can be asked to agree on.
NoIds(e) ==
    LET x == [WithChildren(e, [i \in DOMAIN Children(e) |-> NoIds(Children(e)[i])])
                EXCEPT !.id = 0]
        zero(seq) == [i \in DOMAIN seq |-> [seq[i] EXCEPT !.id = 0]]
    IN CASE x.k = "map" -> [x EXCEPT !.entries = zero(@)]
         [] x.k = "struct" -> [x EXCEPT !.fields = zero(@)]
         [] OTHER -> x

(***************************************************************************)
(* Macros.  The registry is keyed by name, argument count and receiver     *)
(* style; has and all stand   for its global and its receiver macros.    *)
(* Expansion takes its ids from next onwards; fault is an error reported *)
(* through the factory, whose expansion is then the empty expression.      *)
(***************************************************************************)
FindMacro(fn, argc, receiver) ==
    \/ fn = <<"has">> /\ argc = 1 /\ ~receiver
    \/ fn = <<"all">> /\ argc = 2 /\ receiver

IsSimpleIdentifier(e) == IsIdent(e) /\ e.name[1] # "."

\* The hidden accumulator variable of the standard comprehensions.
AccuIdent(id) == NewIdent(id, <<"@result">>)

ExpandHasMacro(args, next) ==
    IF IsSelect(args[1]) /\ ~args[1].test_only
    THEN [e |-> NewPresenceTest(next, args[1].operand, args[1].field),
          ids |-> 1, fault |-> FALSE]
    ELSE [e |-> NoExpr, ids |-> 0, fault |-> TRUE]

ExpandAllMacro(target, args, next) ==
    IF IsSimpleIdentifier(args[1])
    THEN [e |-> NewComprehension(next + 6, args[1].name, target,
                  NewConst(next, "true"),
                  NewCall(next + 2, <<"@not_strictly_false">>, <<AccuIdent(next + 1)>>),
                  NewCall(next + 4, <<"_&&_">>, <<AccuIdent(next + 3), args[2]>>),
                  AccuIdent(next + 5)),
          ids |-> 7, fault |-> FALSE]
    ELSE [e |-> NoExpr, ids |-> 0, fault |-> TRUE]

ExpandMacro(target, args, next) ==
    IF target = <<>> THEN ExpandHasMacro(args, next)
    ELSE ExpandAllMacro(target[1], args, next)

RECURSIVE CopyAndReplace(_, _, _)
\* Copies a tree, leaving an unspecified node where a macro call is recorded
\* under the id; fails (<<>>) when the tree is deeper than the budget.
CopyAndReplace(e, recorded, budget) ==
    LET c == Children(e)
        copies == [i \in DOMAIN c |-> CopyAndReplace(c[i], recorded, budget - 1)]
    IN IF budget <= 0 THEN <<>>
       ELSE IF e.id \in recorded THEN <<NewUnspecified(e.id)>>
       ELSE IF \E i \in DOMAIN copies : copies[i] = <<>> THEN <<>>
       ELSE <<WithChildren(e, FlattenSeq(copies))>>
=============================================================================
