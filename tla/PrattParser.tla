----------------------------- MODULE PrattParser ----------------------------
(***************************************************************************)
(* The hand-written parser (parser/internal/pratt_parser_worker.h and .cc).*)
(* A worker is a record:                                                   *)
(*   src    the significant tokens of the source, p the index of           *)
(*          peek_token_ (past the end: kEnd), opt the ParserOptions,       *)
(*   depth  recursion_depth_, lpd last_parsed_depth_,                      *)
(*   over   recursion_limit_exceeded_, errs error_count_,                  *)
(*   nid    next_id_, full node_limit_exceeded_, pos the keys of           *)
(*          positions_, calls macro_calls_.                                *)
(* Each Parse* operator takes the worker and returns the node it builds    *)
(* with the worker afterwards.                                             *)
(***************************************************************************)
EXTENDS AstFactory, Integers

\* Tokens of the identifier class, and the ones written in back quotes.
Quoted == {"<b.c>"}
ReservedWords == {"import"}
Identifiers == {"a", "b", "has", "all"} \cup Quoted
IsName(t) == t \in Identifiers \cup ReservedWords
\* Literals too large for an int64: 2^63, unless a minus precedes it, and 2^64.
TooLarge == {"2^63", "2^64"}
IntTokens == {"1"} \cup TooLarge
Numbers == IntTokens \cup {"1.0"}
Literals == {"true", "1.0"}
\* A character no token starts with.
LexError == "$"
\* A number with its minus, if that is a literal.
NegatedLiteral == [t \in Numbers \ {"2^64"} |->
    CASE t = "1" -> "-1" [] t = "2^63" -> "-2^63" [] t = "1.0" -> "-1.0"]

\* One operator of every precedence level stands for its level.
BinaryOps == [t \in {"||", "&&", "<", "in", "+", "-", "*"} |->
    CASE t = "||" -> [precedence |-> 1, name |-> <<"_||_">>, is_logical |-> TRUE]
      [] t = "&&" -> [precedence |-> 2, name |-> <<"_&&_">>, is_logical |-> TRUE]
      [] t = "<"  -> [precedence |-> 3, name |-> <<"_<_">>,  is_logical |-> FALSE]
      [] t = "in" -> [precedence |-> 3, name |-> <<"@in">>,  is_logical |-> FALSE]
      [] t = "+"  -> [precedence |-> 4, name |-> <<"_+_">>,  is_logical |-> FALSE]
      [] t = "-"  -> [precedence |-> 4, name |-> <<"_-_">>,  is_logical |-> FALSE]
      [] t = "*"  -> [precedence |-> 5, name |-> <<"_*_">>,  is_logical |-> FALSE]]
GetBinaryOpInfo(t) ==
    IF t \in DOMAIN BinaryOps THEN BinaryOps[t]
    ELSE [precedence |-> 0, name |-> <<>>, is_logical |-> FALSE]

Node(e, s) == [e |-> e, s |-> s]
Larger(m, n) == IF m > n THEN m ELSE n

(***************************************************************************)
(* The token stream and the accounting of errors, ids and depth.           *)
(***************************************************************************)
Peek(s) == IF s.p > Len(s.src) THEN "EOF" ELSE s.src[s.p]
AtEnd(s) == [s EXCEPT !.p = Len(s.src) + 1]
is_recovery_limit_exceeded(s) == s.errs > s.opt.error_recovery_limit
Stopped(s) == s.over \/ is_recovery_limit_exceeded(s)

ReportError(s) ==
    LET t == [s EXCEPT !.errs = @ + 1]
    IN IF is_recovery_limit_exceeded(s) THEN s
       ELSE IF is_recovery_limit_exceeded(t) THEN AtEnd(t)
       ELSE t

ReportErrorIf(c, s) == IF c THEN ReportError(s) ELSE s

\* Lexing an error token reports it, one token ahead of its use.
Lexed(s) == ReportErrorIf(Peek(s) = LexError, s)

NextToken(s) ==
    IF is_recovery_limit_exceeded(s) THEN AtEnd(s)
    ELSE IF Peek(s) = "EOF" THEN s
    ELSE Lexed([s EXCEPT !.p = @ + 1])

RECURSIVE SkipToDelimiter(_)
SkipToDelimiter(s) ==
    IF Peek(s) \in {"EOF", ",", ")", "]", "}"} THEN s
    ELSE SkipToDelimiter(NextToken(s))

SynchronizeOnDelimiter(s) ==
    IF Stopped(s) THEN AtEnd(s) ELSE SkipToDelimiter(s)

\* A bad token is reported unless the lexer reported it already.
ReportToken(t, s) == ReportErrorIf(t # LexError, s)

Expects(t, s) == Peek(s) = t
Expect(t, s) ==
    IF Peek(s) = t THEN NextToken(s)
    ELSE IF Stopped(s) THEN s
    ELSE SynchronizeOnDelimiter(ReportToken(Peek(s), s))

\* The worker after an id is allocated; the id is the old s.nid.
NextIdAt(s, placed) ==
    LET t == [s EXCEPT !.nid = @ + 1,
                       !.pos = IF placed THEN @ \cup {s.nid} ELSE @]
    IN IF s.nid > s.opt.expression_node_limit /\ ~s.full
       THEN [ReportError(t) EXCEPT !.full = TRUE]
       ELSE t
NextId(s) == NextIdAt(s, TRUE)

\* Mutant: the counter steps back whichever id is erased.
EraseIdAlways(id, s) == [s EXCEPT !.pos = @ \ {id}, !.nid = @ - 1]

EraseId(id, s) ==
    [s EXCEPT !.pos = @ \ {id}, !.nid = IF @ = id + 1 THEN @ - 1 ELSE @]

ExceedsRecursion(n, s) == s.depth + n > s.opt.max_recursion_depth
LimitExceeded(s) == [AtEnd(s) EXCEPT !.over = TRUE]

\* NormalizeIdent: a quoted identifier where none may stand, or with the
\* option off, is an error; the name is then empty or the inner text.
NormalizeIdent(t, allow_quoted) ==
    IF t \in Quoted THEN (IF allow_quoted THEN "b.c" ELSE "") ELSE t
NormalizeReport(t, allow_quoted, s) ==
    ReportErrorIf(t \in Quoted /\ (~allow_quoted \/ ~s.opt.enable_quoted_identifiers), s)

\* The question mark of optional syntax: consumed, and reported when not enabled.
Optional(s) == Peek(s) = "?"
TakeOptional(s) ==
    IF Optional(s)
    THEN ReportErrorIf(~s.opt.enable_optional_syntax, NextToken(s))
    ELSE s

RECURSIVE StructAfter(_, _)
\* From a dot on: dots and plain names alternate up to a brace.
StructAfter(src, i) ==
    LET at(j) == IF j > Len(src) THEN "EOF" ELSE src[j]
    IN CASE at(i) = "{" -> TRUE
         [] at(i) = "." -> /\ IsName(at(i + 1))
                           /\ at(i + 1) \notin Quoted
                           /\ StructAfter(src, i + 2)
         [] OTHER -> FALSE
IsStructCreationAhead(s) ==
    IF is_recovery_limit_exceeded(s) THEN Peek(s) = "{"
    ELSE StructAfter(s.src, s.p)

RECURSIVE ExtractStructName(_)
ExtractStructName(e) ==
    IF IsIdent(e) THEN e.name ELSE Append(ExtractStructName(e.operand), e.field)

RECURSIVE EraseStructName(_, _)
\* The ids of the selects and of the identifier that spelled the name.
EraseStructName(e, s) ==
    IF IsIdent(e) THEN EraseId(e.id, s) ELSE EraseStructName(e.operand, EraseId(e.id, s))

(***************************************************************************)
(* Logical chains: one variadic call, or a balanced binary tree.           *)
(***************************************************************************)
RECURSIVE BalancedTree(_, _, _, _, _)
BalancedTree(op, terms, ops, lo, hi) ==
    LET mid == (lo + hi + 1) \div 2
        left == IF mid = lo THEN terms[mid + 1] ELSE BalancedTree(op, terms, ops, lo, mid - 1)
        right == IF mid = hi THEN terms[mid + 2] ELSE BalancedTree(op, terms, ops, mid + 1, hi)
    IN NewCall(ops[mid + 1], op, <<left, right>>)

BalanceLogical(op, terms, ops, enable_variadic) ==
    IF Len(terms) = 1 THEN terms[1]
    ELSE IF enable_variadic THEN NewCall(ops[1], op, terms)
    ELSE BalancedTree(op, terms, ops, 0, Len(ops) - 1)

(***************************************************************************)
(* Macro calls.  The arguments are copied before expansion takes them; the *)
(* call is recorded under the id of its expansion, and its own id dropped. *)
(***************************************************************************)
RECURSIVE CopyArguments(_, _)
\* [copies, s]: a copy that is too deep reports an error.
CopyArguments(args, s) ==
    IF args = <<>> THEN [copies |-> <<>>, s |-> s]
    ELSE LET c == CopyAndReplace(Head(args), DOMAIN s.calls,
                                 s.opt.max_recursion_depth - s.depth)
             rest == CopyArguments(Tail(args), ReportErrorIf(c = <<>>, s))
         IN [copies |-> (IF c = <<>> THEN <<NoExpr>> ELSE c) \o rest.copies,
             s |-> rest.s]

RecordMacroCall(id, fn, target, args, s) ==
    IF id \in DOMAIN s.calls THEN s
    ELSE [s EXCEPT !.calls = [i \in DOMAIN @ \cup {id} |->
            IF i = id THEN NewMemberCall(0, fn, target, args) ELSE @[i]]]

\* The expanded macro, or the plain call where there is none to expand.
CallOrMacro(id, fn, target, args, s) ==
    LET plain == NewMemberCall(id, fn, target, args)
    IN IF ~FindMacro(fn, Len(args), target # <<>>) THEN Node(plain, s)
       ELSE IF s.full THEN Node(plain, ReportError(s))
       ELSE LET copied == IF s.opt.add_macro_calls THEN CopyArguments(args \o target, s)
                          ELSE [copies |-> <<>>, s |-> s]
                x == ExpandMacro(target, args, copied.s.nid)
                s1 == FoldLeft(LAMBDA t, i : NextId(t), copied.s, [i \in 1..x.ids |-> i])
                s2 == ReportErrorIf(x.fault, s1)
                s3 == IF s.opt.add_macro_calls
                      THEN RecordMacroCall(x.e.id, fn,
                             SubSeq(copied.copies, Len(args) + 1, Len(copied.copies)),
                             SubSeq(copied.copies, 1, Len(args)), s2)
                      ELSE s2
            IN Node(x.e, EraseId(id, s3))

(***************************************************************************)
(* The recursive descent.                                                  *)
(***************************************************************************)
RECURSIVE ParseBinaryAndTernary(_, _), ParseBinaryAndTernaryFromLhs(_, _, _, _),
          LogicalChain(_, _, _, _), ParseSelectorChainTail(_, _, _, _),
          UnwindParens(_, _, _, _), TakeRun(_, _, _),
          ListElements(_, _), MapEntries(_, _), StructFields(_, _), Arguments(_, _)

ParseExpr(s) ==
    IF Stopped(s) THEN Node(NoExpr, s)
    ELSE IF ExceedsRecursion(1, s) THEN Node(NoExpr, LimitExceeded(s))
    ELSE LET r == ParseBinaryAndTernary(0, [s EXCEPT !.depth = @ + 1])
         IN Node(r.e, [r.s EXCEPT !.depth = @ - 1])

ParseElementExpr(s) ==
    LET r == ParseExpr(s)
    IN Node(r.e, [r.s EXCEPT !.lpd = Larger(s.lpd, @)])

\* Mutant: the second arm is parsed like the first, so it cannot be a
\* conditional itself.
ParseTernaryFlat(lhs, s) ==
    LET s1 == NextToken(s)
        e1 == ParseBinaryAndTernary(1, NextId(s1))
        s2 == Expect(":", e1.s)
        e2 == ParseBinaryAndTernary(1, s2)
    IN IF ~Expects(":", e1.s) THEN Node(NoExpr, s2)
       ELSE Node(NewCall(s1.nid, <<"_?_:_">>, <<lhs, e1.e, e2.e>>), e2.s)

\* The condition has been moved into the call by the time ':' is missed.
ParseTernary(lhs, s) ==
    LET s1 == NextToken(s)
        id == s1.nid
        e1 == ParseBinaryAndTernary(1, NextId(s1))
        s2 == Expect(":", e1.s)
        e2 == ParseExpr(s2)
    IN IF ~Expects(":", e1.s) THEN Node(NoExpr, s2)
       ELSE Node(NewCall(id, <<"_?_:_">>, <<lhs, e1.e, e2.e>>), e2.s)

LogicalChain(tok, terms, ops, s) ==
    IF Peek(s) # tok THEN [terms |-> terms, ops |-> ops, s |-> s]
    ELSE LET r == ParseBinaryAndTernary(BinaryOps[tok].precedence + 1, NextToken(s))
         IN LogicalChain(tok, Append(terms, r.e), Append(ops, r.s.nid), NextId(r.s))

ParseBalancedLogicalChain(lhs, s) ==
    LET c == LogicalChain(Peek(s), <<lhs>>, <<>>, s)
    IN Node(BalanceLogical(BinaryOps[Peek(s)].name, c.terms, c.ops,
                           s.opt.enable_variadic_logical_operators),
            [c.s EXCEPT !.lpd = 0])

ParseBinaryAndTernaryFromLhs(lhs, min_prec, chain_depth, s) ==
    LET op == GetBinaryOpInfo(Peek(s))
        s1 == NextToken(s)
        loop(r, depth) == ParseBinaryAndTernaryFromLhs(r.e, min_prec, depth, r.s)
    IN IF Stopped(s) THEN Node(lhs, s)
       ELSE IF Peek(s) = "?" /\ min_prec <= 0 THEN loop(ParseTernary(lhs, s), chain_depth)
       ELSE IF op.precedence < min_prec \/ op.precedence = 0 THEN Node(lhs, s)
       ELSE IF op.is_logical THEN loop(ParseBalancedLogicalChain(lhs, s), chain_depth)
       ELSE IF ExceedsRecursion(chain_depth, s1) THEN Node(lhs, LimitExceeded(s1))
       ELSE LET r == ParseBinaryAndTernary(op.precedence + 1, NextId(s1))
                depth == Larger(chain_depth, r.s.lpd) + 1
            IN loop(Node(NewCall(s1.nid, op.name, <<lhs, r.e>>),
                         [r.s EXCEPT !.lpd = depth]), depth)

\* [e, s, can]: can says that the node may still name a message type.
ParseIdentOrCall(s) ==
    LET dot == Peek(s) = "."
        s1 == IF dot THEN NextToken(s) ELSE s
        t == Peek(s1)
        s2 == NextToken(s1)
        s3 == NormalizeReport(t, FALSE, s2)
        s4 == ReportErrorIf(t \in ReservedWords /\ ~IsStructCreationAhead(s3), s3)
        name == (IF dot THEN <<".">> ELSE <<>>) \o <<NormalizeIdent(t, FALSE)>>
        s5 == NextToken(s4)
        args == Arguments(<<>>, [NextId(s5) EXCEPT !.lpd = 0])
        call == CallOrMacro(s5.nid, name, <<>>, args.args, args.s)
        bad == ReportToken(t, s2)
    IN IF ~IsName(t)
       THEN [e |-> NewUnspecified(bad.nid), s |-> NextId(bad), can |-> FALSE]
       ELSE IF Peek(s4) = "(" THEN [e |-> call.e, s |-> call.s, can |-> FALSE]
       ELSE [e |-> NewIdent(s4.nid, name), s |-> NextId(s4), can |-> t \notin Quoted]

\* Arguments up to ')'; a trailing comma is an error.
Arguments(args, s) ==
    LET done(t) == [args |-> args, s |-> t]
        r == ParseElementExpr(s)
        s1 == NextToken(r.s)
        more == Append(args, r.e)
    IN IF args = <<>> /\ Peek(s) \in {")", "EOF"} THEN done(Expect(")", s))
       ELSE IF Peek(r.s) # "," THEN [args |-> more, s |-> Expect(")", r.s)]
       ELSE IF Peek(s1) = ")" THEN [args |-> more, s |-> Expect(")", ReportError(s1))]
       ELSE Arguments(more, s1)

\* A literal node takes its id after the token is consumed.
ParseLiteral(s) ==
    LET t == Peek(s)
        s1 == NextToken(s)
        s2 == ReportErrorIf(t \in TooLarge, s1)
    IN Node(IF t \in TooLarge THEN NewUnspecified(s2.nid) ELSE NewConst(s2.nid, t), NextId(s2))

\* ParseNegativeIntLiteral and its double: the id is that of the minus, unless
\* the literal is still too large.
ParseNegativeLiteral(id, s) ==
    LET s1 == NextToken(s)
        s2 == ReportError(s1)
    IN IF Peek(s) \in DOMAIN NegatedLiteral THEN Node(NewConst(id, NegatedLiteral[Peek(s)]), s1)
       ELSE Node(NewUnspecified(s2.nid), NextId(s2))

ListElements(elems, s) ==
    LET s1 == TakeOptional(s)
        r == ParseElementExpr(s1)
        more == Append(elems, Element(r.e, Optional(s)))
    IN IF Peek(s) \in {"]", "EOF"} THEN [items |-> elems, s |-> s]
       ELSE IF Peek(r.s) = "," THEN ListElements(more, NextToken(r.s))
       ELSE [items |-> more, s |-> r.s]

\* The entry's id is taken before its key, and placed at the colon.
MapEntries(entries, s) ==
    LET s1 == TakeOptional(s)
        id == s1.nid
        k == ParseElementExpr(NextIdAt(s1, FALSE))
        s2 == Expect(":", k.s)
        v == ParseElementExpr([s2 EXCEPT !.pos = @ \cup {id}])
        more == Append(entries, Entry(id, k.e, v.e, Optional(s)))
    IN IF Peek(s) \in {"}", "EOF"} THEN [items |-> entries, s |-> s]
       ELSE IF ~Expects(":", k.s) THEN [items |-> entries, s |-> s2]
       ELSE IF Peek(v.s) = "," THEN MapEntries(more, NextToken(v.s))
       ELSE [items |-> more, s |-> v.s]

StructFields(fields, s) ==
    LET s1 == TakeOptional(s)
        t == Peek(s1)
        s2 == NormalizeReport(t, TRUE, NextToken(s1))
        s3 == Expect(":", s2)
        v == ParseElementExpr(NextId(s3))
        more == Append(fields, Entry(s3.nid, NormalizeIdent(t, TRUE), v.e, Optional(s)))
    IN IF Peek(s) \in {"}", "EOF"} THEN [items |-> fields, s |-> s]
       ELSE IF ~IsName(t)
            THEN [items |-> fields, s |-> SynchronizeOnDelimiter(ReportError(NextToken(s1)))]
       ELSE IF ~Expects(":", s2) THEN [items |-> fields, s |-> s3]
       ELSE IF Peek(v.s) = "," THEN StructFields(more, NextToken(v.s))
       ELSE [items |-> more, s |-> v.s]

ParseList(s) ==
    LET s1 == NextToken(s)
        r == ListElements(<<>>, [NextId(s1) EXCEPT !.lpd = 0])
    IN Node(NewList(s1.nid, r.items), Expect("]", r.s))

ParseMap(s) ==
    LET s1 == NextToken(s)
        r == MapEntries(<<>>, [NextId(s1) EXCEPT !.lpd = 0])
    IN Node(NewMap(s1.nid, r.items), Expect("}", r.s))

ParseStruct(id, name, s) ==
    LET r == StructFields(<<>>, [NextToken(s) EXCEPT !.lpd = 0])
    IN Node(NewStruct(id, name, r.items), Expect("}", r.s))

\* Consumes a run of one token: <<how many, the worker after it>>.
TakeRun(tok, n, s) == IF Peek(s) = tok THEN TakeRun(tok, n + 1, NextToken(s)) ELSE <<n, s>>

\* Closes the parentheses from the inside; what follows one that is not the
\* outermost continues the enclosing level with the inner node as operand.
UnwindParens(e, chain_depth, open, s) ==
    LET s1 == Expect(")", s)
        tail == IF Peek(s1) \in {".", "["}
                THEN ParseSelectorChainTail(e, FALSE, chain_depth, s1)
                ELSE Node(e, s1)
        r == ParseBinaryAndTernaryFromLhs(tail.e, 0, tail.s.lpd, tail.s)
    IN IF open = 0 THEN Node(e, [s EXCEPT !.depth = @ - 1, !.lpd = chain_depth])
       ELSE IF open > 1 /\ Peek(s1) # ")" THEN UnwindParens(r.e, r.s.lpd, open - 1, r.s)
       ELSE UnwindParens(e, chain_depth, open - 1, s1)

ParseParens(s) ==
    LET open == TakeRun("(", 0, s)
        r == ParseBinaryAndTernary(0, [open[2] EXCEPT !.depth = @ + 1])
    IN IF Stopped(s) THEN Node(NoExpr, s)
       ELSE IF ExceedsRecursion(open[1] - 1, open[2])
            THEN Node(NoExpr, LimitExceeded(open[2]))
       ELSE UnwindParens(r.e, r.s.lpd, open[1], r.s)

ParsePrimary(s) ==
    LET t == Peek(s)
        s1 == ReportToken(t, NextToken(s))
        plain(r) == [e |-> r.e, s |-> r.s, can |-> FALSE]
    IN CASE t = "(" -> plain(ParseParens(s))
         [] t \in IntTokens \cup Literals -> plain(ParseLiteral(s))
         [] t = "[" -> plain(ParseList(s))
         [] t = "{" -> plain(ParseMap(s))
         [] t = "." \/ IsName(t) -> ParseIdentOrCall(s)
         [] OTHER -> plain(Node(NewUnspecified(s1.nid), NextId(s1)))

ParseMember(s) ==
    LET r == ParsePrimary([s EXCEPT !.lpd = 0])
    IN IF Peek(r.s) \in {".", "[", "{"}
       THEN ParseSelectorChainTail(r.e, r.can, r.s.lpd, r.s)
       ELSE Node(r.e, r.s)

\* .name, .?name and .name(...).  [e, s, can, depth, stop]
ParseDot(lhs, can, chain_depth, s) ==
    LET s1 == NextToken(s)
        opt == Optional(s1)
        s2 == TakeOptional(s1)
        t == Peek(s2)
        s3 == NextToken(s2)
        bad == [SynchronizeOnDelimiter(ReportToken(t, s3)) EXCEPT !.lpd = chain_depth + 1]
        allow == Peek(s3) # "("
        s4 == NormalizeReport(t, allow, s3)
        name == NormalizeIdent(t, allow)
        s5 == NextToken(s4)
        args == Arguments(<<>>, [NextId(s5) EXCEPT !.lpd = 0])
        call == CallOrMacro(s5.nid, <<name>>, <<lhs>>, args.args, args.s)
        link(e, st, c, d) == [e |-> e, s |-> st, can |-> c, depth |-> d, stop |-> FALSE]
    IN IF ~IsName(t) THEN [e |-> lhs, s |-> bad, can |-> FALSE, depth |-> 0, stop |-> TRUE]
       ELSE IF opt
       THEN link(NewCall(s4.nid, <<"_?._">>,
                         <<lhs, NewConst(NextId(s4).nid, name)>>),
                 NextId(NextId(s4)), FALSE, chain_depth + 1)
       ELSE IF Peek(s4) = "("
       THEN link(call.e, call.s, FALSE, Larger(chain_depth, args.s.lpd) + 1)
       ELSE link(NewSelect(s4.nid, lhs, name), NextId(s4), can /\ t \notin Quoted,
                 chain_depth + 1)

ParseIndex(lhs, chain_depth, s) ==
    LET s1 == NextToken(s)
        s2 == TakeOptional(NextId(s1))
        opt == Optional(NextId(s1))
        i == ParseExpr(s2)
    IN [e |-> NewCall(s1.nid, IF opt THEN <<"_[?_]">> ELSE <<"_[_]">>, <<lhs, i.e>>),
        s |-> Expect("]", i.s), can |-> FALSE,
        depth |-> Larger(chain_depth, i.s.lpd) + 1, stop |-> FALSE]

ParseStructTail(lhs, chain_depth, s) ==
    LET s1 == EraseStructName(lhs, s)
        r == ParseStruct(s1.nid, ExtractStructName(lhs), NextId(s1))
    IN [e |-> r.e, s |-> r.s, can |-> FALSE, depth |-> Larger(chain_depth, r.s.lpd),
        stop |-> FALSE]

ParseSelectorChainTail(lhs, can, chain_depth, s) ==
    LET link == CASE Peek(s) = "." -> ParseDot(lhs, can, chain_depth, s)
                  [] Peek(s) = "[" -> ParseIndex(lhs, chain_depth, s)
                  [] Peek(s) = "{" -> ParseStructTail(lhs, chain_depth, s)
    IN IF Peek(s) \notin {".", "["} /\ ~(Peek(s) = "{" /\ can)
       THEN Node(lhs, [s EXCEPT !.lpd = chain_depth])
       ELSE IF Peek(s) # "{" /\ ExceedsRecursion(chain_depth, s)
       THEN Node(lhs, LimitExceeded(s))
       ELSE IF link.stop THEN Node(link.e, link.s)
       ELSE ParseSelectorChainTail(link.e, link.can, link.depth, link.s)

\* Runs of one unary operator; a pair of them cancels when folding is on.
ParseUnaryOps(s) ==
    LET tok == Peek(s)
        ops == TakeRun(tok, 0, s)
        run == ops[1]
        s1 == ops[2]
        negative == Peek(s1) \in Numbers
        lit == ParseNegativeLiteral(s1.nid, NextId(s1))
        kept == IF s.opt.fold_unary_operators THEN run % 2 ELSE run
        s2 == FoldLeft(LAMBDA t, i : NextId(t), s1, [i \in 1..kept |-> i])
        s3 == [s2 EXCEPT !.depth = @ + kept]
        minus == NextToken(s3)
        negated == ParseNegativeLiteral(minus.nid, NextId(minus))
        operand == IF tok # "!" \/ Peek(s3) # "-" THEN ParseMember(s3)
                   ELSE IF Peek(minus) \in Numbers
                   THEN ParseSelectorChainTail(negated.e, FALSE, 0, negated.s)
                   ELSE ParseMember(ReportError(minus))
        s4 == [operand.s EXCEPT !.depth = @ - kept]
        name == IF tok = "!" THEN <<"!_">> ELSE <<"-_">>
    IN IF tok = "-" /\ run = 1 /\ negative
       THEN IF Peek(lit.s) \in {".", "[", "{"}
            THEN ParseSelectorChainTail(lit.e, FALSE, 0, lit.s) ELSE lit
       ELSE IF kept > 0 /\ ExceedsRecursion(kept - 1, s2) THEN Node(NoExpr, LimitExceeded(s2))
       ELSE IF s4.over THEN Node(NoExpr, s4)
       ELSE Node(FoldRight(LAMBDA i, e : NewCall(s1.nid + i - 1, name, <<e>>),
                           [i \in 1..kept |-> i], operand.e), s4)

ParseSelectorChain(s) ==
    IF Peek(s) \in {"!", "-"} THEN ParseUnaryOps([s EXCEPT !.lpd = 0])
    ELSE ParseMember([s EXCEPT !.lpd = 0])

ParseBinaryAndTernary(min_prec, s) ==
    LET l == ParseSelectorChain(s)
    IN ParseBinaryAndTernaryFromLhs(l.e, min_prec, l.s.lpd, l.s)

\* The worker as constructed: the first token is lexed at once.
NewWorker(src, opt) ==
    Lexed([src |-> src, p |-> 1, opt |-> opt, depth |-> 0, lpd |-> 0, over |-> FALSE,
           errs |-> 0, nid |-> 1, full |-> FALSE, pos |-> {}, calls |-> <<>>])

\* Parse: what is left after the expression is one more error.
Parse(src, opt) ==
    LET r == ParseExpr(NewWorker(src, opt))
    IN Node(r.e, ReportErrorIf(~Stopped(r.s) /\ Peek(r.s) \notin {"EOF", LexError}, r.s))

\* PrattParseImpl: an AST, or why there is none.
PrattParseImpl(src, opt) ==
    LET r == Parse(src, opt)
    IN [status |-> IF r.s.over THEN "cancelled"
                   ELSE IF r.s.errs > 0 THEN "invalid" ELSE "ok",
        expr |-> r.e, positions |-> r.s.pos, macro_calls |-> r.s.calls,
        full |-> r.s.full]
=============================================================================
