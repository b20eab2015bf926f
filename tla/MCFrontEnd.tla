----------------------------- MODULE MCFrontEnd -----------------------------
EXTENDS FrontEnd

DefaultOptions == [
    error_recovery_limit |-> 12, max_recursion_depth |-> 20,
    expression_node_limit |-> 100, add_macro_calls |-> TRUE,
    enable_optional_syntax |-> TRUE, enable_quoted_identifiers |-> TRUE,
    enable_variadic_logical_operators |-> FALSE, fold_unary_operators |-> TRUE]

MCOptionSets == {
    DefaultOptions,
    [DefaultOptions EXCEPT !.enable_variadic_logical_operators = TRUE,
        !.fold_unary_operators = FALSE, !.enable_optional_syntax = FALSE,
        !.enable_quoted_identifiers = FALSE, !.error_recovery_limit = 0,
        !.expression_node_limit = 9],
    [DefaultOptions EXCEPT !.error_recovery_limit = 1, !.max_recursion_depth = 3,
        !.add_macro_calls = FALSE]}
MCBases == [s \in {<<"a">>, <<"1">>, <<"2^63">>, <<"2^64">>, <<"1.0">>} |->
    IF s = <<"a">> THEN 0 ELSE 1]
\* One plain source, grown further in few constructs.
OneBase == [s \in {<<"a">>} |-> 0]
OneOptionSet == {DefaultOptions}
MCProductions == DOMAIN Constructs
MCSlips == {"a", "1", "import", "$", ",", "(", "-", "?", "."}

Tokens == Identifiers \cup ReservedWords \cup IntTokens \cup Literals \cup DOMAIN BinaryOps
    \cup {LexError, "b.c", "-1", "-2^63", "-1.0", ".", ",", "?", ":", "!", "(", ")", "[", "]", "{", "}"}
ParserOptions == [
    error_recovery_limit : Nat, max_recursion_depth : Nat, expression_node_limit : Nat,
    add_macro_calls : BOOLEAN, enable_optional_syntax : BOOLEAN,
    enable_quoted_identifiers : BOOLEAN, enable_variadic_logical_operators : BOOLEAN,
    fold_unary_operators : BOOLEAN]
MCParser == LET texts == Seq(Tokens)
    IN [text \in texts, opt \in ParserOptions |-> PrattParseImpl(text, opt)]
MCGrammar == LET texts == Seq(Tokens)
    IN [text \in texts, opt \in ParserOptions |-> GrammarTrees(text, opt)]
=============================================================================
