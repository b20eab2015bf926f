-------------------------- MODULE PolicyCompilation --------------------------
(***************************************************************************)
(* CompilePolicy (policy/compiler.cc) from a policy to an expression, and   *)
(* what the expression has to be.  A policy is written by putting a rule    *)
(* under a match of another; each later step is one pass of the compiler.   *)
(***************************************************************************)
EXTENDS PolicyComposer

CONSTANTS
    Rules,       \* the rules to start from
    Contexts,    \* Contexts[k]: rules around a rule of k levels, and the match it goes under
    EnvTypes,    \* the variables of the environment and their types
    HeightLimits \* values of unnesting_height_limit

ASSUME HeightLimitsAssumption == HeightLimits \subseteq Nat

VARIABLES
    rule,     \* the root rule
    levels,   \* of rules in it
    stage,    \* the pass that was done last, or "refused" or "failed"
    issues,
    type,     \* what CompileRule takes for the type of the outputs
    ast,
    result    \* what the checker finds for the type of ast

vars == <<rule, levels, stage, issues, type, ast, result>>

NoAst == NewList(<<>>, {})

Plug(context, inner) == [context.rule EXCEPT !.matches[context.at].rule = <<inner>>]

-----------------------------------------------------------------------------
(***************************************************************************)
(* Unnester.                                                                *)
(***************************************************************************)
\* Whether a node of a height to cut at is in a comprehension, or is one.
RECURSIVE CutsLoop(_, _, _)
CutsLoop(n, limit, inLoop) ==
    LET looped == inLoop \/ n.kind = "comprehension"
    IN  \/ looped /\ Height(n) % limit = 0
        \/ \E i \in DOMAIN n.args : CutsLoop(n.args[i], limit, looped)

\* UnnestRewriter: children first, each node of a height to cut at becomes the
\* next binding and leaves its name.
RECURSIVE Cut(_, _, _)
Cut(n, limit, init) ==
    LET next(acc, arg) ==
          LET after(c) == [init |-> c.init, args |-> Append(acc.args, c.node)]
          IN  after(Cut(arg, limit, acc.init))
        all  == FoldLeft(next, [init |-> init, args |-> <<>>], n.args)
        node == [n EXCEPT !.args = all.args]
    IN  IF Height(n) % limit = 0
        THEN [init |-> Append(all.init, node), node |-> NewIdent(Len(all.init))]
        ELSE [init |-> all.init, node |-> node]

\* Nothing is cut out of the bindings that are there already.
Slice(block, limit) ==
    LET c == Cut(Body(block), limit, Bindings(block)) IN NewBlock(c.init, c.node)

\* A block without bindings is its body.
Cleanup(block) == IF Bindings(block) = <<>> THEN Body(block) ELSE block

-----------------------------------------------------------------------------
(***************************************************************************)
(* The height limit is an option of the call; it is chosen where it is read.*)
(***************************************************************************)
Init ==
    /\ rule \in Rules /\ levels = 1
    /\ stage = "written" /\ issues = {} /\ type = <<>> /\ ast = NoAst /\ result = DynType

Nest(context) ==
    /\ stage = "written"
    /\ rule' = Plug(context, rule) /\ levels' = levels + 1
    /\ UNCHANGED <<stage, issues, type, ast, result>>

Refuse(why) ==
    /\ stage' = "refused" /\ issues' = why
    /\ UNCHANGED <<rule, levels, type, ast, result>>

\* "unnesting_height_limit must be at least 2", or 0 for none.
RejectOptions == stage = "written" /\ 1 \in HeightLimits /\ Refuse({"invalid argument"})

CompileRules ==
    /\ stage = "written"
    /\ LET compiled == CompileRule(rule, EnvTypes)
       IN  /\ issues' = compiled.issues /\ type' = compiled.type
           /\ stage' = IF compiled.issues = {} THEN "compiled" ELSE "refused"
    /\ UNCHANGED <<rule, levels, ast, result>>

RefuseStructure ==
    /\ stage = "compiled" /\ CheckMatchStructure(rule, FALSE) # {}
    /\ Refuse(CheckMatchStructure(rule, FALSE))

ComposePolicy ==
    /\ stage = "compiled" /\ CheckMatchStructure(rule, FALSE) = {}
    /\ LET composed == Compose(rule)
       IN  ast' = composed.ast /\ stage' = IF composed.ok THEN "composed" ELSE "failed"
    /\ UNCHANGED <<rule, levels, issues, type, result>>

\* The composition is checked, and once more when it has been cut: it must then
\* pass.
Checked(checked) ==
    /\ result' = checked.type
    /\ stage' = IF checked.ok THEN IF stage = "composed" THEN "sound" ELSE "valid"
                ELSE IF stage = "composed" THEN "refused" ELSE "failed"
    /\ issues' = IF stage' = "refused" THEN {"composition"} ELSE issues
    /\ UNCHANGED <<rule, levels, type, ast>>

CheckPolicy == stage \in {"composed", "unnested"} /\ Checked(Check(ast))

Unnested(block) ==
    /\ ast' = Cleanup(block) /\ stage' = "unnested"
    /\ UNCHANGED <<rule, levels, issues, type, result>>

KeepNested == stage = "sound" /\ 0 \in HeightLimits /\ Unnested(ast)

RefuseUnnesting(limit) ==
    /\ stage = "sound" /\ CutsLoop(ast, limit, FALSE)
    /\ Refuse({"comprehension"})

UnnestPolicy(limit) ==
    /\ stage = "sound" /\ ~CutsLoop(ast, limit, FALSE)
    /\ Unnested(Slice(ast, limit))

Next ==
    \/ \E context \in IF levels \in DOMAIN Contexts THEN Contexts[levels] ELSE {} : Nest(context)
    \/ RejectOptions
    \/ CompileRules
    \/ RefuseStructure
    \/ ComposePolicy
    \/ CheckPolicy
    \/ KeepNested
    \/ \E limit \in HeightLimits \ {0, 1} : RefuseUnnesting(limit) \/ UnnestPolicy(limit)

Spec == Init /\ [][Next]_vars
=============================================================================
