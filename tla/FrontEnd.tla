------------------------------ MODULE FrontEnd ------------------------------
(***************************************************************************)
(* From source to syntax tree and back: a source is written by nesting one *)
(* construct of the language in another, with at most one slip of a token, *)
(* and then parsed (PrattParser) and printed again (Unparser).             *)
(***************************************************************************)
EXTENDS CelGrammar, Unparser

CONSTANTS
    Parser,       \* what PrattParser makes of a source under ParserOptions
    Grammar,      \* what CelGrammar makes of them
    Bases,        \* the sources to start from, and the constructs each counts for
    Productions,  \* the constructs a source may be nested in, by name
    MaxGrow,      \* how many of them
    Slips,        \* the tokens a slip may put into a source
    MaxSlipGrow,  \* how many constructs a source with a slip may have
    OptionSets    \* the ParserOptions to parse with

VARIABLES src, grown, slipped, stage, opts, parsed, printed

vars == <<src, grown, slipped, stage, opts, parsed, printed>>

Constructs == [
    paren     |-> <<"(", "_", ")">>,
    select    |-> <<"_", ".", "b">>,
    quoted    |-> <<"_", ".", "<b.c>">>,
    optselect |-> <<"_", ".", "?", "b">>,
    index     |-> <<"_", "[", "a", "]">>,
    subscript |-> <<"a", "[", "?", "_", "]">>,
    call      |-> <<"b", "(", "a", ",", "_", ")">>,
    method    |-> <<"_", ".", "b", "(", ")">>,
    has       |-> <<"has", "(", "_", ".", "b", ")">>,
    all       |-> <<"_", ".", "all", "(", "a", ",", "a", ")">>,
    body      |-> <<"a", ".", "all", "(", "a", ",", "_", ")">>,
    neg       |-> <<"-", "_">>,
    not       |-> <<"!", "_">>,
    add       |-> <<"_", "+", "a">>,
    radd      |-> <<"a", "-", "_">>,
    mul       |-> <<"_", "*", "a">>,
    rmul      |-> <<"a", "*", "_">>,
    less      |-> <<"_", "<", "a">>,
    rin       |-> <<"a", "in", "_">>,
    and       |-> <<"_", "&&", "a">>,
    rand      |-> <<"a", "&&", "_">>,
    or        |-> <<"_", "||", "a">>,
    ror       |-> <<"a", "||", "_">>,
    cond      |-> <<"_", "?", "a", ":", "a">>,
    then      |-> <<"a", "?", "_", ":", "a">>,
    else      |-> <<"a", "?", "a", ":", "_">>,
    list      |-> <<"[", "a", ",", "?", "_", "]">>,
    map       |-> <<"{", "a", ":", "_", ",", "}">>,
    key       |-> <<"{", "?", "_", ":", "a", "}">>,
    struct    |-> <<"a", ".", "b", "{", "<b.c>", ":", "_", "}">>,
    root      |-> <<".", "_">> ]

\* A construct with a source in its place.
Nest(c, s) == FlattenSeq([i \in DOMAIN c |-> IF c[i] = "_" THEN s ELSE <<c[i]>>])

NotParsed == [status |-> "none"]

TypeOK ==
    /\ grown \in 0..MaxGrow
    /\ slipped \in BOOLEAN
    /\ stage \in {"writing", "parsed", "printed"}
    /\ opts \in OptionSets

Init ==
    /\ src \in DOMAIN Bases
    /\ grown = Bases[src]
    /\ opts \in OptionSets
    /\ slipped = FALSE /\ stage = "writing"
    /\ parsed = NotParsed /\ printed = <<>>

Write(p) ==
    /\ stage = "writing" /\ ~slipped /\ grown < MaxGrow
    /\ src' = Nest(Constructs[p], src)
    /\ grown' = grown + 1
    /\ UNCHANGED <<slipped, stage, opts, parsed, printed>>

\* One token is dropped, replaced or added.
Slip(i, new) ==
    /\ stage = "writing" /\ ~slipped /\ grown <= MaxSlipGrow
    /\ src' \in {SubSeq(src, 1, i - 1) \o new \o SubSeq(src, i + 1, Len(src)),
                 SubSeq(src, 1, i) \o new \o SubSeq(src, i + 1, Len(src))}
    /\ src' # src
    /\ slipped' = TRUE
    /\ UNCHANGED <<grown, stage, opts, parsed, printed>>

ParseSource ==
    /\ stage = "writing"
    /\ stage' = "parsed"
    /\ parsed' = Parser[src, opts]
    /\ UNCHANGED <<src, grown, slipped, opts, printed>>

PrintTree ==
    /\ stage = "parsed" /\ parsed.status = "ok"
    /\ stage' = "printed"
    /\ printed' = Unparse(parsed.expr, parsed.macro_calls)
    /\ UNCHANGED <<src, grown, slipped, opts, parsed>>

Next ==
    \/ \E p \in Productions : Write(p)
    \/ \E i \in DOMAIN src, new \in {<<>>} \cup {<<t>> : t \in Slips} : Slip(i, new)
    \/ ParseSource
    \/ PrintTree

Spec == Init /\ [][Next]_vars

Accepted == stage # "writing" /\ parsed.status = "ok"

-----------------------------------------------------------------------------
\* A comma alone between two brackets, which the grammar allows.
HasLoneComma ==
    \E i \in 2..(Len(src) - 1) :
        src[i] = "," /\ <<src[i - 1], src[i + 1]>> \in {<<"[", "]">>, <<"{", "}">>}

\* The two parsers read one language: what the hand-written parser accepts
\* has exactly one tree under the grammar, and it is the tree that was
\* built; and it accepts every source the grammar has a tree for, unless its
\* depth limit stops it (or a comma stands alone in an empty initializer).
ParsersAgree ==
    stage = "parsed" =>
        LET trees == Grammar[src, opts]
        IN /\ parsed.status = "ok" => trees = {NoIds(parsed.expr)}
           /\ parsed.status = "invalid" => trees = {} \/ HasLoneComma \/ parsed.full

\* An accepted tree is whole: no node is left unspecified by an error that
\* was recovered from without being reported, every node, entry and field
\* has an id of its own with a position, within the node limit, although
\* ids are handed back when a macro or a message name drops them.
TreeIsWhole ==
    Accepted =>
        LET ids == AllIds(parsed.expr)
        IN /\ \A n \in NodeSet(parsed.expr) : n.k # "unspecified"
           /\ IsInjective(ids)
           /\ ToSet(ids) \subseteq parsed.positions
           /\ \A id \in ToSet(ids) : id <= opts.expression_node_limit

RECURSIVE Flat(_)
\* The tree with nested calls of one logical operator joined into one.
Flat(e) ==
    LET x == WithChildren(e, [i \in DOMAIN Children(e) |-> Flat(Children(e)[i])])
    IN IF ~IsCallOf(x, {<<"_&&_">>, <<"_||_">>}) THEN x
       ELSE [x EXCEPT !.args = FlattenSeq([i \in DOMAIN @ |->
               IF IsCallOf(@[i], {x.fn}) THEN @[i].args ELSE <<@[i]>>])]

Operands(e) ==
    IF e.k = "select" THEN {e.operand}
    ELSE IF e.k = "comprehension" THEN {e.iter_range}
    ELSE IF e.k # "call" THEN {}
    ELSE IF e.fn \in DOMAIN UnaryOperators THEN {e.args[1]}
    ELSE IF e.fn \in {<<"_[_]">>, <<"_[?_]">>, <<"_?._">>} THEN {e.args[1]}
    ELSE ToSet(e.target)

\* No unary operator is the operand of a member, of a macro or of another
\* unary operator, no minus stands before a number or a sign, no double,
\* and no binary operator below a has() whose call was not recorded: what the
\* printer cannot tell apart.
PrintsUnambiguously(e) ==
    \A n \in NodeSet(e) :
        /\ n.k = "const" => n.v \notin {"1.0", "-1.0"}
        /\ \A x \in Operands(n) : ~IsCallOf(x, DOMAIN UnaryOperators)
        /\ n.k = "select" /\ n.test_only /\ n.id \notin DOMAIN parsed.macro_calls =>
             ~IsBinaryOrTernaryOperator(n.operand)
        /\ IsCallOf(n, {<<"-_">>}) =>
             Head(Unparse(n.args[1], parsed.macro_calls)) \notin {"-"} \cup DOMAIN NegatedLiteral

SameTree(r) ==
    r.status = "ok" /\ Flat(NoIds(r.expr)) = Flat(NoIds(parsed.expr))

\* The options with room for every parenthesis the printer may add.
Roomy == [opts EXCEPT !.max_recursion_depth = @ + Len(printed)]

\* A printed tree parses to the same tree, macros included, up to the shape
\* of logical chains.
PrintedParsesBack ==
    stage = "printed" /\ PrintsUnambiguously(parsed.expr) =>
        SameTree(Parser[printed, Roomy])

\* The same without the condition.
EveryPrintedParsesBack ==
    stage = "printed" => SameTree(Parser[printed, Roomy])
=============================================================================
