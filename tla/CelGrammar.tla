----------------------------- MODULE CelGrammar -----------------------------
(***************************************************************************)
(* The grammar of parser/internal/Cel.g4 with the tree the ANTLR visitor   *)
(* (parser/internal/antlr_parser.cc) builds for each rule: the reference   *)
(* the hand-written parser is compared with.                               *)
(*                                                                         *)
(* Every rule is the set of its derivations that start at token i, each a  *)
(* record [e, j] of the tree and the first token after it.  ANTLR rewrites *)
(* the left-recursive rules into left-associative chains, * binding      *)
(* tighter than + for the order of the alternatives.  An error the       *)
(* visitor reports makes the node Fault; a tree with a Fault is rejected.  *)
(* Ids are left out: the two parsers number their nodes in other orders.   *)
(***************************************************************************)
EXTENDS PrattParser

Fault == [k |-> "fault", id |-> 0]
FaultName == "<fault>"

At(t, i) == IF i > Len(t) THEN "EOF" ELSE t[i]
D(e, j) == [e |-> e, j |-> j]
\* The derivations that go on with token tok, after it.
Then(ds, t, tok) == {D(d.e, d.j + 1) : d \in {x \in ds : At(t, x.j) = tok}}

RECURSIVE GExpr(_, _, _), GMemberTail(_, _, _), GBinary(_, _, _, _),
          GBinaryTail(_, _, _, _), GTerms(_, _, _, _),
          GLogical(_, _, _, _), GExprList(_, _, _), GItems(_, _, _, _), GNames(_, _)

\* CallOrMacro without ids: macros expand to the same trees.
GCall(fn, target, args) ==
    IF FindMacro(fn, Len(args), target # <<>>)
    THEN LET x == ExpandMacro(target, args, 0) IN IF x.fault THEN Fault ELSE NoIds(x.e)
    ELSE NewMemberCall(0, fn, target, args)

\* exprList: one expression or more, separated by commas.
GExprList(t, i, o) ==
    UNION {{D(<<d.e>>, d.j)}
             \cup (IF At(t, d.j) = ","
                   THEN {D(<<d.e>> \o r.e, r.j) : r \in GExprList(t, d.j + 1, o)} ELSE {})
             : d \in GExpr(t, i, o)}

\* '(' exprList? ')' from the opening parenthesis on.
GArgs(t, i, o) ==
    IF At(t, i) # "(" THEN {}
    ELSE Then({D(<<>>, i + 1)} \cup GExprList(t, i + 1, o), t, ")")

\* escapeIdent and its text.
GEscapeIdent(t, i, o) ==
    IF At(t, i) \in Quoted
    THEN {D(IF o.enable_quoted_identifiers THEN "b.c" ELSE FaultName, i + 1)}
    ELSE IF IsName(At(t, i)) THEN {D(At(t, i), i + 1)} ELSE {}

IsPlainName(x) == IsName(x) /\ x \notin Quoted

\* One item of a list, map or message initializer, and where it ends.
GItem(kind, t, i, o) ==
    LET opt == At(t, i) = "?"
        j == IF opt THEN i + 1 ELSE i
        ok(x) == IF opt /\ ~o.enable_optional_syntax THEN Fault ELSE x
        values(ds) == UNION {{[key |-> d.e, v |-> v] : v \in GExpr(t, d.j, o)}
                               : d \in Then(ds, t, ":")}
    IN CASE kind = "list" -> {D(Element(ok(d.e), opt), d.j) : d \in GExpr(t, j, o)}
         [] kind = "map" -> {D(Entry(0, x.key, ok(x.v.e), opt), x.v.j)
                               : x \in values(GExpr(t, j, o))}
         [] kind = "struct" ->
              {D(Entry(0, x.key, IF x.key = FaultName THEN Fault ELSE ok(x.v.e), opt), x.v.j)
                 : x \in values(GEscapeIdent(t, j, o))}

GItems(kind, t, i, o) ==
    UNION {{D(<<d.e>>, d.j)}
             \cup (IF At(t, d.j) = ","
                   THEN {D(<<d.e>> \o r.e, r.j) : r \in GItems(kind, t, d.j + 1, o)}
                   ELSE {})
             : d \in GItem(kind, t, i, o)}

\* items? ','? close, from the opening token on.
GInit(kind, t, i, close, o) ==
    LET items == {D(<<>>, i + 1)} \cup GItems(kind, t, i + 1, o)
    IN Then(items \cup Then(items, t, ","), t, close)

\* ids+=IDENTIFIER (ops+='.' ids+=IDENTIFIER)*
GNames(t, i) ==
    IF ~IsPlainName(At(t, i)) THEN {}
    ELSE {D(<<At(t, i)>>, i + 1)}
           \cup (IF At(t, i + 1) = "."
                 THEN {D(<<At(t, i)>> \o r.e, r.j) : r \in GNames(t, i + 2)} ELSE {})

GLiteral(t, i) ==
    CASE At(t, i) = "-" ->
            IF At(t, i + 1) \notin Numbers THEN {}
            ELSE IF At(t, i + 1) \in DOMAIN NegatedLiteral
            THEN {D(NewConst(0, NegatedLiteral[At(t, i + 1)]), i + 2)}
            ELSE {D(Fault, i + 2)}
      [] At(t, i) \in TooLarge -> {D(Fault, i + 1)}
      [] At(t, i) \in (IntTokens \ TooLarge) \cup Literals -> {D(NewConst(0, At(t, i)), i + 1)}
      [] OTHER -> {}

\* Ident, GlobalCall and CreateMessage share their start: '.'? IDENTIFIER.
GNamed(t, i, o) ==
    LET dot == At(t, i) = "."
        j == IF dot THEN i + 1 ELSE i
        lead == IF dot THEN <<".">> ELSE <<>>
        reserved(e) == IF At(t, j) \in ReservedWords THEN Fault ELSE e
    IN IF ~IsPlainName(At(t, j)) THEN {}
       ELSE {D(reserved(NewIdent(0, lead \o <<At(t, j)>>)), j + 1)}
            \cup {D(reserved(GCall(lead \o <<At(t, j)>>, <<>>, a.e)), a.j)
                    : a \in GArgs(t, j + 1, o)}
            \cup UNION {{D(NewStruct(0, lead \o n.e, f.e), f.j)
                           : f \in GInit("struct", t, n.j, "}", o)}
                          : n \in {x \in GNames(t, j) : At(t, x.j) = "{"}}

GPrimary(t, i, o) ==
    GNamed(t, i, o) \cup GLiteral(t, i)
      \cup (CASE At(t, i) = "(" -> Then(GExpr(t, i + 1, o), t, ")")
              [] At(t, i) = "[" -> {D(NewList(0, d.e), d.j) : d \in GInit("list", t, i, "]", o)}
              [] At(t, i) = "{" -> {D(NewMap(0, d.e), d.j) : d \in GInit("map", t, i, "}", o)}
              [] OTHER -> {})

\* Select, MemberCall and Index, applied to the member d any number of times.
GMemberTail(d, t, o) ==
    LET opt == At(t, d.j + 1) = "?"
        j == IF opt THEN d.j + 2 ELSE d.j + 1
        guard(e) == IF opt /\ ~o.enable_optional_syntax THEN Fault ELSE e
        selects == IF At(t, d.j) # "." THEN {} ELSE
            {D(IF n.e = FaultName THEN Fault
               ELSE guard(IF opt
                          THEN NewCall(0, <<"_?._">>, <<d.e, NewConst(0, n.e)>>)
                          ELSE NewSelect(0, d.e, n.e)), n.j)
               : n \in GEscapeIdent(t, j, o)}
        calls == IF At(t, d.j) # "." \/ ~IsPlainName(At(t, d.j + 1)) THEN {} ELSE
            {D(GCall(<<At(t, d.j + 1)>>, <<d.e>>, a.e), a.j) : a \in GArgs(t, d.j + 2, o)}
        indexes == IF At(t, d.j) # "[" THEN {} ELSE
            {D(guard(NewCall(0, IF opt THEN <<"_[?_]">> ELSE <<"_[_]">>, <<d.e, x.e>>)), x.j)
               : x \in Then(GExpr(t, j, o), t, "]")}
    IN {d} \cup UNION {GMemberTail(x, t, o) : x \in selects \cup calls \cup indexes}

GMember(t, i, o) == UNION {GMemberTail(d, t, o) : d \in GPrimary(t, i, o)}

RunLength(t, i) == CHOOSE n \in 0..Len(t) :
    /\ \A m \in 0..(n - 1) : At(t, i + m) = At(t, i)
    /\ At(t, i + n) # At(t, i)

\* A minus before a number is the number's sign (MemberExpr is the first
\* alternative); otherwise the run of operators is taken whole.
GUnary(t, i, o) ==
    LET n == RunLength(t, i)
        kept == IF o.fold_unary_operators THEN n % 2 ELSE n
        op == IF At(t, i) = "!" THEN <<"!_">> ELSE <<"-_">>
        wrap(e) == FoldRight(LAMBDA k, x : NewCall(0, op, <<x>>), [k \in 1..kept |-> k], e)
    IN IF At(t, i) \notin {"!", "-"} \/ (n = 1 /\ GLiteral(t, i) # {})
       THEN GMember(t, i, o)
       ELSE {D(wrap(d.e), d.j) : d \in GMember(t, i + n, o)}

\* Left-associative chains of the operators of one precedence: relation is
\* GBinary(3), calc is GBinary(4).
GBinary(p, t, i, o) ==
    IF p > 5 THEN GUnary(t, i, o)
    ELSE UNION {GBinaryTail(p, d, t, o) : d \in GBinary(p + 1, t, i, o)}
GBinaryTail(p, d, t, o) ==
    LET op == GetBinaryOpInfo(At(t, d.j))
    IN {d} \cup
       (IF op.precedence # p THEN {}
        ELSE UNION {GBinaryTail(p, D(NewCall(0, op.name, <<d.e, r.e>>), r.j), t, o)
                      : r \in GBinary(p + 1, t, d.j + 1, o)})

\* conditionalAnd and conditionalOr: a chain of terms, balanced.
GTerms(tok, t, i, o) ==
    UNION {{D(<<d.e>>, d.j)}
             \cup (IF At(t, d.j) = tok
                   THEN {D(<<d.e>> \o r.e, r.j) : r \in GTerms(tok, t, d.j + 1, o)} ELSE {})
             : d \in IF tok = "&&" THEN GBinary(3, t, i, o) ELSE GLogical("&&", t, i, o)}
GLogical(tok, t, i, o) ==
    {D(BalanceLogical(BinaryOps[tok].name, a.e, [k \in 1..(Len(a.e) - 1) |-> 0],
                      o.enable_variadic_logical_operators), a.j)
       : a \in GTerms(tok, t, i, o)}
GConditionalOr(t, i, o) == GLogical("||", t, i, o)

GExpr(t, i, o) ==
    LET cond == GConditionalOr(t, i, o)
    IN cond \cup
       UNION {UNION {{D(NewCall(0, <<"_?_:_">>, <<c.e, e1.e, e2.e>>), e2.j)
                        : e2 \in GExpr(t, e1.j, o)}
                       : e1 \in Then(GConditionalOr(t, c.j, o), t, ":")}
                : c \in Then(cond, t, "?")}

\* start: an expression and the end of the input, without a fault.
GrammarTrees(src, opt) ==
    {d.e : d \in {x \in GExpr(src, 1, opt) :
                    /\ x.j = Len(src) + 1
                    /\ \A n \in NodeSet(x.e) : n # Fault}}
=============================================================================
