# A TLA+ model of cel-cpp

CEL expressions are parsed, type-checked, *planned* into a flat program and run
by a stack machine. This directory models that path from the tokens of a source
to the value of its evaluation, policies that are compiled into one expression,
evaluations with missing information, and what evaluations on several threads
share. TLC runs the hand-written parser
against the grammar, the type checker, the planner's programs and the policy
compiler against what expressions and policies mean, and the activation and the
runtime's caches against what they promise. TLAPS proves that the machine is
safe for every program that has a certificate of its stack heights and slots, that
an activation keeps its promises on any number of threads, that matchers, trails,
registries and caches keep theirs in every order of operations, and that what an
evaluation with missing information makes of what it knows is final.
`PROJECT.json` maps each definition to the lines it models.

## 1. The system

| Component | State it keeps | Operations | Modelled in |
|---|---|---|---|
| Parser (`parser/internal`) | one worker per source: token index, recursion depth, error count, next id, positions, macro calls | one `Parse*` per precedence level, error recovery, macro expansion | `AstFactory`, `PrattParser`, reference `CelGrammar` |
| Unparser (`tools/cel_unparser.cc`) | output | one `Visit*` per node kind | `Unparser` |
| Macros (`parser/macro.cc`, `extensions/*_macros.cc`) | none | expand `all`, `exists`, `map`, `filter`, `cel.bind`, ... into comprehensions | `CelMacros`, `AstFactory` |
| Traversal (`common/ast_traverse.cc`) | a stack of records | `Step`, one per visit before or after | `TypeChecker` |
| Type inference (`TypeInferenceContext`) | bindings of type variables, prospective substitutions | `InstantiateTypeParams`, `IsAssignable`, `ResolveOverload`, `Finalize` | `TypeInference` |
| Type checker (`TypeCheckerImpl`) | deduced types, resolved names and functions, variable scopes, issues | one callback per node; `Check`; rewriting | `TypeChecker`, `CheckerLibrary` |
| Planner (`FlatExprBuilder`, `FlatExprVisitor`, `ProgramBuilder`) | slots in use (`IndexManager`), scopes, extracted subexpressions, identifier table, current `cel.@block` | one callback per AST node; `CreateExpressionImpl` | `FlatExprBuilder` |
| Optimizers (`constant_folding.cc`, ...) | a flag per open node, an evaluator state | `OnPreVisit`, `OnPostVisit`, `ReplaceSubplan` | `ConstantFolding` (constant folding only) |
| Program (`FlatExpression`, `ExpressionStep`) | immutable | step factories, `StackDelta` | `ExpressionStep` |
| Stack machine (`ExecutionFrame`) | `pc`, execution path, call stack, abort status, iteration count | one per step kind, `Call`, `NextSlow`, `JumpToOrAbort`, `Abort`, `Evaluate` | `EvaluatorCore` |
| Evaluator state (`FlatExpressionEvaluatorState`) | value stack, iterator stack, slots, dirty flag; outlives the frame | `Reset`, pushes and pops | `EvaluatorCore` |
| Function dispatch (`function_step.cc`) | none | overload resolution, strictness, unknown results | `FunctionStep` |
| Values (`common/value.h`) | arena | constructors, equality, arithmetic | `CelValues` |
| Activation (`runtime/activation.cc`) | bindings, memoised providers, a mutex | `FindVariable`, `ProvideValue`, inserts and removals | `Activation`, abstract `ActivationSpec` |
| Attribute matcher (`base/attribute_matcher.cc`) | one tree of patterns each for unknown, known and missing attributes | insert, upsert, remove, clear, match | `AttributeMatcher`, abstract `PatternSet` |
| Attribute trails (`common/internal/attribute_trail.h`) | three tree positions beside each value on the stack; unknowns collected in one step | `AttributeLeadMatch`, `Match`, `UnknownAccumulator` | `AttributeTrail`; used by the steps of `PartialEvaluation` |
| Function registry (`runtime/function_registry.cc`) | overloads by name, static and lazy | `Register`, `RegisterLazyFunction`, lookups | `FunctionRegistry` |
| Type registry, runtime environment, caches | enums and the memoised table; a message factory; maps behind one mutex | `RegisterEnum`, `GetEnumTable`, `MutableMessageFactory`, find-or-create | `RuntimeEnv` |
| Policy compiler (`policy/compiler.cc`) | issues, scopes of variables, the block being built | compile rules, check their structure, compose, check, unnest | `PolicyCompiler`, `PolicyComposer`, `PolicyCompilation`, reference `PolicySemantics` |
| Environment, validators, extension functions, tools, legacy API | configuration | | no |

How they interact. The parser builds a tree with ids; the checker adds a type
and a reference per id and rewrites names; the planner walks the tree and asks
the function registry and the shared type tables for what the names stand for;
its program is shared, read-only, by all evaluations. An evaluation binds a
frame to an evaluator state, an arena and an activation, runs steps until none
is left, calls user code (functions, variable providers, the listener) from
inside steps, and hands the state back for the next evaluation. Evaluations on
several threads meet in an activation and in the runtime's caches only.

What is hard here:

* **Control through shared mutable state.** A subexpression (`cel.bind`,
  `cel.@block`) is run on the caller's stacks the first time a variable is
  *used*, possibly inside a loop, and its value is kept in a slot whose index
  other scopes use before and after; jump offsets and stack sizes are computed
  in advance, around subplans an optimizer may replace; any step can fail or be
  stopped by the listener with loops and callers pending, and the state is then
  used again.
* **Errors and unknowns are values**: they travel through `&&`, `||`, `?:`,
  loops and calls by rules that differ between step kinds.
* **Knowledge beside values.** Each value carries the nodes its attribute has
  reached in three trees of patterns; every step kind decides for itself whether a
  value with unknown parts is a value, and names what the client must provide.
* **Two implementations of one thing.** Two parsers for one grammar, the printer
  as the inverse of the parser, scopes in the checker and again in the planner,
  short-circuiting and exhaustive plans, folded and unfolded plans.
* **Inference by side effect.** A call is checked against prospective bindings
  that are committed or dropped; types recorded earlier mention variables bound
  later; the order of the traversal decides.
* **Composition by a flag.** A policy rule that may end without an output is
  composed into an optional, one that may not into a plain value; the decision is
  taken again at every level of rules, and variables of all of them become
  indices of one block out of which tall expressions are cut afterwards.
* **Concurrency.** An activation's table is read without the lock that its
  providers are called under; a cache is dropped before it is invalid; a
  message factory is read with a relaxed load.

What makes the components correct is stated by the properties of section 3.

## 2. Modules

```
CelValues ── FunctionStep ── ExpressionStep ─┬─ EvaluatorCore ── StackDiscipline ─────┐
    │                                        └─ ConstantFolding ── FlatExprBuilder ───┼─ PlannedEvaluation ── MCPlanned ── MCFaults
    └─ CelMacros ─┬─ CelSemantics ──┬─────────────────────────────────────────────────┘
                  │                 └─────────────────────┐
                  └────────────────┐                      │
        TypeInference ─┬───────────┴─ TypeChecker ─── CheckedEvaluation ─┐
                       └─ CheckerLibrary ────────────────────────────────┴─ MCTypeChecker
AstFactory ─┬─ PrattParser ── CelGrammar ─┬─ FrontEnd ── MCFrontEnd
            └─ Unparser ──────────────────┘
TypeInference, CheckerLibrary ── PolicyCompiler ── PolicyComposer ── PolicyCompilation ── PolicySemantics ── MCPolicy
AttributeMatcher ── AttributeTrail ── PartialEvaluation ── MCPartial
PatternSet ··(INSTANCE)·············· PartialEvaluation
ActivationSpec ··(INSTANCE)·· Activation
FunctionRegistry ─┬─ RuntimeSetup
RuntimeEnv ───────┘

Proofs
EvaluatorCore ── EvaluatorProofs ── StackDisciplineProofs (extends StackDiscipline) ── EvaluationProofs
Activation ── ActivationProofs
PartialEvaluation ── MatcherProofs ── TrailProofs ── PartialProofs
RuntimeSetup ── RuntimeSetupProofs
```

**Evaluation**

* **CelValues**: a value is a record of kind, number and unknown attributes; all
  values have the same fields, so any two can be compared. Lists and maps are
  references into an arena, which makes the aliasing visible that in-place
  append relies on. Strings, messages and the other scalar kinds are left out:
  no control flow depends on more than their kind. Equality, addition with
  overflow and the merging of unknowns are here.
* **FunctionStep**: overload resolution, static (first match) and lazy (at most
  one match among those the activation provides), strictness, and the result
  when nothing matches. Implementations are a small set that covers the
  outcomes dispatch tells apart: a value, an error value, a non-OK status, an
  unknown result, a new container, a non-strict function.
* **ExpressionStep**: the step kinds, the step and program records, and
  `StackDelta`. The six constant kinds are one, `kCreateSmallList` is
  `kCreateList`, and the exhaustive ternary, a generic step in the code, is
  `kTernary`.
* **EvaluatorCore**: the machine. One action per step kind; `Return` is the end
  of a subexpression in `NextSlow`, `EndEvaluate` the tail of `Evaluate`,
  `StartEvaluate` is `EvaluateWithCallback` with `Reset`, and
  `ListenerContinues` / `ListenerFails` the tail of the loop in
  `InterpretWithCallback`. `pc` is the code's `pc_`; paths are numbered from 1,
  the main expression. A step whose code returns early after `Abort` is a
  disjunct with `AbortStep`. Ghost state: who wrote a slot last, the height of
  the iterator stack in a call frame, and the lookups per identifier.
* **ConstantFolding**: which nodes are constant, the extension's own evaluation
  of their steps (a straight line: what can be folded has no jumps, slots or
  identifiers) and what it leaves in their place.
* **FlatExprBuilder**: the visitor as a recursive function from node and visitor
  state to steps and visitor state: slots, scopes, extraction, jump layouts,
  identifier table, sizes of the stacks, and the optimizer's two calls around
  every node.
* **CelMacros**, **CelSemantics**: expressions, macro expansion, and the
  reference meaning of an expression, by substitution and without steps, slots
  or short-circuiting.
* **StackDiscipline**: edges of a step, certificates (the heights of both stacks,
  the running loops and who may have set which slot at every position, the most
  each path adds with what it calls), the invariants.
* **PlannedEvaluation**: planner and machine composed, the inferred certificate
  of a plan, and the properties that relate plan, machine and meaning.

**Evaluation with missing information**

* **PatternSet**: what a matcher promises, a set of patterns of which none covers
  another. **AttributeMatcher**: the tree, as the set of the paths of its nodes,
  and its operations as functions from tree to tree.
* **AttributeTrail**: the three matches of a value and how an access moves them,
  and the accumulator with its pair of sets and its shortcut.
* **PartialEvaluation**: a client that declares patterns, evaluates, and provides
  what an unknown result names (`Resolve`) until it has a result. Programs are
  steps in postfix order; the steps are those that look at trails, on maps,
  lists and scalars, one action, `Step`, for each. Jumps, slots and calls are in
  `EvaluatorCore`, which carries no trails: a value there is known or unknown as
  a whole.

**Front end**

* **AstFactory**: nodes with ids, the factory operations, macro expansion at
  parse time and the re-use of ids it hands back.
* **PrattParser**: the hand-written parser. A worker is a record, every
  `Parse*` method an operator that returns the node and the worker after it, so
  that what a method leaves in `recursion_depth_`, `last_parsed_depth_`,
  `next_id_` and `positions_` is explicit. Tokens are model values; the few
  whose text matters (a literal that overflows, a minus folded into a number)
  are tokens of their own.
* **CelGrammar**: every rule of `Cel.g4` as the set of its derivations, with the
  tree the ANTLR visitor builds: the reference.
* **Unparser**: where the printer puts parentheses, and macro calls in place of
  their expansions.
* **FrontEnd**: the state machine that composes them: a source is grown by
  nesting one construct in another, may get one slip of a token, is parsed, and
  printed. The parser and the grammar are CONSTANT functions of source and
  options there, which `MCFrontEnd` gives their values; TLC then does not expand
  them at every mention.

**Type checker**

* **TypeInference**: `IsAssignable` with prospective substitutions, occurs
  checks, unification of lists, maps, optionals and wrappers, `ResolveOverload`,
  `Finalize`.
* **TypeChecker**: `ResolveVisitor` callback by callback, one action per
  callback; each is a step of the traversal (`AstTraversal::Step`, a stack with a
  record of its own for every argument and comprehension part); `CheckImpl`'s limits;
  `ResolveRewriter`; the candidates of a name in a container with aliases
  (`NamespaceGenerator`), which may be a variable, a type or the value of an enum.
  A callback that fails (`status_`) ends the check. Inference variables are
  numbered in order of creation.
* **CheckerLibrary**: declarations of the operators and optional functions.
* **CheckedEvaluation**: what the checker promises the planner and evaluator.

**Runtime**

* **ActivationSpec**: lookups that happen at one instant, and a provided variable
  that keeps its first value. **Activation**: the table, the lock, providers
  that look up any variable (their own, and others that have providers, for which
  their thread then waits for itself), fail, or deliver a different value at each
  call, on any number of threads. `SPEC == INSTANCE ActivationSpec WITH ...` maps the
  table and the return values of the threads.
* **FunctionRegistry**: registration rules (overlap, strictness, shadowing) and
  lookups by shape, arity and kinds.
* **RuntimeEnv**: the memoised enum table, the double-checked message factory and
  a cache behind a lock, with objects numbered as they are created. `RegisterEnum`
  is two steps, as in the code: it drops the table under the lock (`DropTable`) and
  adds the enum after releasing it (`AddEnum`). It may run while programs are planned,
  but not while a planner is in `GetEnumValueTable`, which goes through what it writes
  without a lock.
* **RuntimeSetup**: a runtime whose registry is filled before programs are
  planned concurrently.

**Policies**

* **PolicyCompiler**: rules, matches, and expressions that are opaque except for
  their type, their height and the policy variables they read. Composed nodes are
  calls, lists (with ?-elements) and the `@index` names of the block. `CompileRule`
  with its scopes of variables and the compatibility of output types;
  `IsExhaustive` and `CheckMatchStructure`.
* **PolicyComposer**: `ComposeFirstMatchRule`, `ComposeAggregateRule` and the
  variables they put in the block; the type check of the composition on the
  operators of `TypeInference`.
* **PolicyCompilation**: `CompilePolicy` as a state machine, one action per pass,
  after a policy was built by putting a rule under a match of another; the
  `Unnester`.
* **PolicySemantics**: what a policy means, rule by rule and without composing
  anything, and what a composed expression evaluates to.

**MC...** modules give expressions, declarations, activations and options; modules
whose constants are plain sets (`Activation`, `RuntimeSetup`) need none.
**...Proofs** hold the proofs.

An operator whose comment starts with "Mutant:" is a plausible mistake in the
definition that follows it; `PROJECT.json` names the property that detects it.

## 3. Runs

`tlc -workers 2 -config <cfg> <module>`

| Run | Module, cfg | Distinct states | Checks |
|---|---|---|---|
| `evaluation` | `MCPlanned`, `Evaluation.cfg` | 79 462 | `TypeOK`, `OutcomeIsDenotation`, `PlanIsCertified`, `StackInv`, `LookedUpAtMostOnce`, `LazySlotIsOwn`, `EvaluationTerminates` |
| `reuse` | `MCFaults`, `Reuse.cfg` | 40 731 | over two evaluations, of planned programs and of hand-written ones that fail: `OutcomeIsDenotation`, `BudgetIsGlobal`, `AbortIsFinal`, `ReuseKeepsDiscipline` |
| `partial` | `MCPartial`, `Partial.cfg` | 630 321 | `TrailMeansPatterns`, `KnownIsFinal`, `IsPatternSet`, `ResolvesEventually` |
| `front_end` | `MCFrontEnd`, `FrontEnd.cfg` | 188 146 | `ParsersAgree`, `TreeIsWhole`, `PrintedParsesBack` |
| `type_check` | `MCTypeChecker`, `TypeCheck.cfg` | 801 266 | `SubstitutionsAreAcyclic`, `TypesAreDeduced`, `FinalTypesFit`, `NamesMeanTheSame`, `CheckedIsSound`, `BindingsAreFinal` |
| `activation` | `Activation`, `Activation.cfg` | 165 065 | `NoRace`, `DeadlockOnlyByReentry`, `IsActivation`, `LookupReturns` |
| `runtime_setup` | `RuntimeSetup`, `RuntimeSetup.cfg` | 794 860 | `CallIsUnambiguous`, `NonStrictIsAlone`, `AmbiguousOnlyByAny`, `TableIsCurrent`, `PointersStayValid` |
| `policy` | `MCPolicy`, `Policy.cfg` | 52 895 | `ComposedMeansPolicy`, `CompositionSucceeds`, `UnreachableIsReported`, `BindingsAreOrdered`, `ResultTypeFits` |
| `stale_slot` | `MCPlanned`, `StaleSlot.cfg` | violation | `LazySlotIsOwn` |
| `budget_limit` | `MCPlanned`, `BudgetLimit.cfg` | violation | `BudgetIsUsable` |
| `upsert_wildcard` | `MCPartial`, `UpsertWildcard.cfg` | violation | `UpsertIsAdded` |
| `unparse_unary` | `MCFrontEnd`, `UnparseUnary.cfg` | violation | `EveryPrintedParsesBack` |

### What the properties say

**Evaluation.** The result of an evaluation is what the expression denotes,
whatever the plan (`OutcomeIsDenotation`); the plan keeps a stack discipline and
gives each identifier a slot that no step clears, and it is known which steps may
have set the slot of a lazily initialised variable (`PlanIsCertified`), which the
machine relies on (`TypeOK`, and `StackInv`: the heights of both stacks are the
certified ones here and for every suspended caller, there is room for what each
may still add, and no step finds too little on a stack); slots belong to the variable
that reads them (`LazySlotIsOwn`); an identifier has one value in
an evaluation (`LookedUpAtMostOnce`); the iteration budget is shared by all loops
(`BudgetIsGlobal`); failure is final (`AbortIsFinal`); whatever ended one
evaluation, with whichever loops and callers pending, the next one in the same
state starts on empty stacks and keeps to the certified heights
(`ReuseKeepsDiscipline`); evaluation ends (`EvaluationTerminates`).

The failures in `reuse` are those of `MCFaults`: every step that takes arguments
without any, jumps out of the path, loops that leave by such a jump, functions
that fail under suspended callers, failing providers, ambiguous lazy overloads,
lists with unknown elements where unknowns are disabled, and lists whose
iterators fail (at their creation, at the first element or at a later one) or
which an append refuses. The comparison, membership and concatenation of
containers the application provides are assumed to work.

**Evaluation with missing information.** `IsPatternSet`: the tree of a matcher is a
set of patterns that do not overlap, under every sequence of its operations, each of
which does to the set what its abstract counterpart does (refinement of `PatternSet`;
the one exception is part of that specification and the run `upsert_wildcard`).
`TrailMeansPatterns`: stepping the three trees along an attribute decides where the
patterns say so, at the first prefix that is unknown and not known, or missing.
`KnownIsFinal`: a bool, an int or an error does not depend on what is unknown: every
completion of the inputs gives the same, or also an error. A completion may change a
scalar that is unknown with nothing known below it: a scalar below which a pattern is
known is taken as it is, since a match of `b.*` alone ends the trail of `b`
(`common/internal/attribute_trail.h:330`). An attribute that is itself the result may
have unknown parts, which `Evaluate` does not look for. `ResolvesEventually`: a client
that provides what unknown results name gets a result.

**Front end.** `ParsersAgree`: a source the hand-written parser accepts has
exactly one tree under the grammar, the one it built, and what the grammar has a
tree for is accepted unless the depth limit stops it. One exception is written
into the property: `HasLoneComma`, a comma alone between brackets, which the
grammar derives and the parser refuses. `TreeIsWhole`: no node is missing, and
ids are unique, have a position and stay within the limit although they are
handed back. `PrintedParsesBack`: what is printed parses to the same tree up to
the shape of logical chains, when `PrintsUnambiguously` holds, which names the
constructs the printer cannot tell apart (a unary operator under a member, a
minus before a number, a double printed as an integer, a binary operator under
`has` without its macro call); `unparse_unary` shows the first of these.

**Type checker.** `SubstitutionsAreAcyclic`: no sequence of calls binds a type
variable to a type that contains it. `BindingsAreFinal` (an action property): a
binding is never replaced. `TypesAreDeduced`: when the traversal ends without an
error, every expression has a type. `FinalTypesFit`: the types of the arguments of
each call, optional selects included, still fit its overload when all variables have
their final types. `NamesMeanTheSame`: the slot or identifier the planner reads for a
name is the variable the checker typed it by. `CheckedIsSound`: an accepted expression
all of whose types are narrow (bool, int, null, lists and maps of them) and that is
built of `Denotable` constructs (constants, variables, lists, comprehensions, blocks,
the logical operators, `==`, `!=`, `in`, `+`; no indexing, selects, messages or
optionals) evaluates, in each of the worlds, to a value of its deduced type or to an
error other than a missing overload. The planner replaces names of enum values by
their constants (`eval/compiler/qualified_reference_resolver.cc:132`); a world has
those constants as variables.

**Runtime.** `IsActivation`: every behaviour of `Activation` is one of
`ActivationSpec`: lookups are atomic, a provided variable keeps its first value.
`NoRace`: the table is not written while somebody reads it without the lock, other
than what the lock orders. `DeadlockOnlyByReentry`: one call at a time is past the
lock, its thread still inside it; and a thread waits for a lock it holds in one case
only, when its provider looks up a variable that has a provider, its own included.
Nothing in `activation.cc` prevents that, and a memoised value does not help, since
`FindVariable` tests `entry.provider` first. What the property rules out is every
other way to the deadlock: a lookup of a variable without a provider that asks for the
lock, a return that keeps it. `LookupReturns`: every lookup comes back, unless the
lock it needs is held by a thread that waits for itself like that.
`CallIsUnambiguous`, `NonStrictIsAlone`, `AmbiguousOnlyByAny`: what any order of
registrations leaves in the registry. `TableIsCurrent` (an action property): a planner
that comes out of `GetEnumValueTable` has a table of all enums registered so far,
though tables are memoised and shared and enums are registered after other plans and
during them. `PointersStayValid`: no object a planner points at is destroyed or
created twice.

**Policies.** `ComposedMeansPolicy`: whatever the conditions evaluate to, errors
included, the compiled expression gives the output the rules select, all that
apply in an aggregate, and an optional when none may be selected. Two rules of
the reference meaning come from the code, as `cel_policy.h` is silent on them: a
match with a condition ends its rule even if its sub-rule has no output, and one
without is passed over. `CompositionSucceeds`: what passes the
structure checks is composed without an internal error or a failed assertion, and
is still well typed after cutting, which the code only asserts.
`UnreachableIsReported`: a rule is refused for outputs that are never selected
exactly when there are some. `BindingsAreOrdered`: no binding of the block reads
itself or one behind it. `ResultTypeFits`: the checker's type of the whole is
compatible with the type the outputs were compared with, under an optional
exactly when the rules are not exhaustive.

### Bounds

*Evaluation.* Operands: one for each outcome an operator can tell apart (an
identifier, a bool, a non-bool, a loop, a two-variable loop, a bind, a list
comprehension, a lazy function, an unknown function result), in every pair under
`&&`, three-way `||`, `?:` with negation, `cel.bind` and `exists`, and expressions
that nest scopes: loops in initialisers, initialisers in loops, shadowed names,
nested maps, blocks with dependent bindings, a loop condition that is no bool.
For folding, pairs of constant subexpressions (a value, an overflow, an unknown
function result, a call of the activation, a variable that stands for a
constant) in loops, branches and binds; plans with a list constant are left out,
since the model's steps hold scalars. Four activations: a provider that answers
`true` or `false` at each call, an empty list with an overflowing sum, an unknown
identifier with a map and a failing provider, an unbound identifier with a range
that is no container. Lists have two elements: one iteration followed by another
is what separates the first from the next; a third adds nothing to the control.
Two evaluations are enough for reuse because `Reset` does not depend on how
often it ran. `IntMax = 4` puts overflow next to the values used. Options:
`SmallOpt` has list append, inlining and unknowns on, `PlainOpt` has them off;
both again without short-circuiting. `Runnable` leaves out the short-circuiting
plans in which a lazily initialised variable shares its slot with an iteration
variable (`ReusesIterationSlot`): those have the defect `stale_slot` shows, and
would hide everything else. Without short-circuiting loops end in the next step,
which clears the slots, and nothing is left out.

*Missing information.* Three calls of the client, in any order, with nine patterns:
a variable, below it two levels and a wildcard on each, a scalar, what is below
it, and a list's elements together and one by one. Three is what it takes to have an unknown pattern,
a known one below it and a missing one or a third level, or to add, add and
replace or remove. Fourteen programs cover each step kind with arguments that are
known, unknown, partially unknown, erroneous, and merges of one, two and three
unknowns. Two given inputs and sixteen completions: every scalar has two values.
`Values`, `Places` and `Heights` enumerate the values of constants and inputs, the
paths into the inputs and the heights of the stack, so that TLC can check what the
proofs assume of programs and inputs.

*Front end.* 31 constructs nested up to three deep over five atoms (a name, an int, a
double, the literals 2^63 and 2^64), under three option sets (the defaults; variadic
logic without folding, optional syntax, quoted identifiers and recovery, with a small
node limit; depth 3 with one recovery), and one dropped, replaced or added token in
every source of one construct. Three levels make an operator, its operand and the
operand's operand visible, which is what precedence, associativity, depth accounting
and the printer's parentheses are about.

*Type checker.* Some 7700 expressions: all pairs of 16 atoms of different types under
four binary operators, in lists, maps and ternaries; loops over five kinds of ranges,
an ill-typed one and a variable of unknown type, with every two or three uses of the
variable; binds, maps, filters, and selections, optional selects (malformed ones too),
names of variables, types and enum values, messages, types that are no messages,
optionals and blocks one by one; with no expected type and with `list(int)`. `MaxNodes
= 60` is above all of them, `MaxErrors = 1` cuts the search at the first error as the
model's interest is in what is accepted; two worlds give every variable both of its
values (`any`, a `list(A)` for every `A`, can only be empty). `LegacyNull = TRUE` is
the code's default. Identifiers have one segment, as the parser makes them; dotted
names arise from selects.

*Policies.* Some 140 rules with up to three matches (no condition, `true`, `false`,
a condition, a tall one; an output, one that reads a variable, a comprehension, a
list), as they are, under 18 rules around them, and under four around those: with
three levels a rule without a default is inside one with a default inside one
without. Every rule can bind `x`, so names are shadowed and read across levels.
A world gives every condition true, false or, for at most one, an error. The
limits 2 and 3 cut every other or every third level of the composed trees.

*Runtime.* Two threads, two names, two values and three assignments by the owner give
a provider that is asked by both threads while the owner rebinds between evaluations.
Both names may have providers, which look up either name (`AnyNeeds`). Three overloads
over three kinds, in every order: two decide an overlap, the third shows that overlap
by `any` is not transitive. Two planners, two plans each, two enums, two cache keys of
which one is known.

### Fairness

`EvaluatorCore!FairSpec` has weak fairness of `Interpret`: a thread inside
`Evaluate` keeps running its loop, and every call it makes returns. Nothing is
assumed of the caller: it need not evaluate again. `Activation!FairSpec` has, for
every thread, weak fairness of the steps of a lookup in progress (user code
returns) and strong fairness of taking the lock: `absl::Mutex` does not starve a
waiter, but the lock may be taken by others in between. The owner is under no
obligation. `PartialEvaluation!FairSpec` assumes that `Evaluate` takes its steps
and, for `ResolvesEventually` only, that the client keeps answering: it provides
what an unknown result names, as known attributes, and evaluates again.

**Deadlock** is checked in `evaluation`, `reuse`, `activation` and
`runtime_setup`; the states in which `activation` may stop are those where all
lookups were made and those where somebody waits for its own lock (`Terminated`). In `partial` a client stops when it has its result; in the front end, the type checker and the policy compiler a
behaviour is one source, expression or policy and really stops (`CHECK_DEADLOCK FALSE`); that the checker
does not stop early is `TypesAreDeduced`.

### Findings

* `stale_slot`: for `xs.exists(e, e == 1) && cel.bind(b, y + 1, b == 2)` the loop
  ends at its condition with `e` still in its slot; the slot is released to `b`,
  whose `kLazyInit` step finds it set and takes the last element of the loop for
  the value of `b`. The initialiser never runs. Binds whose initialiser is a
  constant or identifier and is inlined are not affected.
* `budget_limit`: `comprehension_max_iterations = n` refuses the n-th iteration.
* `upsert_wildcard`: `AddUnknownPattern(a.*)` after `AddUnknownPattern(a.x)` returns
  OK and is ignored, since a node with named children takes no wildcard and
  `UpsertAttribute` takes the refusal for a pattern that is covered already; what
  was declared unknown is then read.
* `unparse_unary`: `(-a).b` is printed as `-a.b`, which parses to another tree.

Met while modelling and followed by the model, without a run of their own:

* `RegisterEnum` writes `enum_types_` after it has released
  `enum_value_table_mutex_` (`runtime/type_registry.cc:48`), while `GetEnumValueTable`
  goes through it under that lock (`:68`). `runtime/type_registry.h:128` calls this a
  race of the caller, but promises "basic thread safety to avoid issues with
  sanitizers", and this write is one they report. A table built between the two
  steps is also memoised without the enum. The model keeps the two apart.
* `max_recursion_depth` does not bound the depth of an accepted tree as
  `parser/internal/pratt_parser_worker.h:113` has it: `ParseBalancedLogicalChain`
  sets `last_parsed_depth_` to 0, so what encloses a logical chain is charged
  from nothing; `(a.b.b && a).b.b` is accepted under a limit of 3, and 5 deep.
* `UnknownAccumulator::Accumulate` (`common/internal/attribute_trail.cc:107`) does
  not look at the pair of sets once a trail's node has been added: an unknown
  `x` merged with a partially unknown `y` is reported as `y` alone. The client
  needs another round; `ResolvesEventually` shows that it still comes to an end.
* `UpsertAttribute` counts a pattern that replaces others, but none it adds
  (`base/attribute_matcher.cc:228`), so `attributes_` wraps around when it
  subtracts two it never counted. It is the capacity `GetAttributes` reserves: after
  `AddUnknownPattern` of `a.b`, `a.c` and `a`, `GetUnknownAttributes`
  (`runtime/activation_interface.h:80`) asks for a vector of the largest `size_t`.
  The model leaves the count out.
* `GetNotFullUnknownMatch` asserts that the unknown match is not full
  (`common/internal/attribute_trail.h:348`); with `a` unknown and `a.b` known it is
  when `a` is an operand of `==` or an element of a list.
* `PerformLookup` ignores the key's trail: with `b` unknown and `b.q` known, `l[b]`
  reads `b`. A `uint` or `double` index reads element 1 where the pattern `a[1]`
  is not matched, as a qualifier of another type. `has()` on a value with unknown
  parts answers true, and `OptionalHasValueJumpStep` drops the trail that
  `OptionalOrStep` keeps. Such keys and optionals are not among the cases; for
  scalars with a known pattern below them, see `KnownIsFinal`.
* `PostVisitMap` (`checker/internal/type_checker_impl.cc:624`) checks the values
  of a map outside the `AssignabilityContext` it commits, and `IsAssignableInternal`
  leaves the bindings of the parameters before the one that fails.
* `max_expression_node_count` is said to be inclusive (`checker/checker_options.h:65`),
  but the checker counts two traversal steps per node
  (`checker/internal/type_checker_impl.cc:1399`) where an argument of a call or a
  part of a comprehension takes four: `i + i`, three nodes, is refused under a
  limit of three.
* `unnesting_height_limit` is said to bound the height of the result but for "a
  small, fixed margin" (`policy/compiler.h:27`). Bindings of policy variables are
  never cut, and only subexpressions whose height is an exact multiple of the limit
  are (`policy/compiler.cc:1129`), which may be none of them on a path whose
  heights skip the multiples. A comprehension in a variable refuses the policy
  although it would not be cut.
* `policy/cel_policy.h:203` says there can only be one aggregate rule per policy;
  `CheckMatchStructure` refuses nested ones only.
* `CheckFieldType` (`type_checker_impl.cc:1157`) treats a bound type variable like
  a free one.
* The checker gives a loop condition the scope of the accumulator only
  (`type_checker_impl.cc:805`); the planner also has the iteration variables in
  scope there (`eval/compiler/flat_expr_builder.cc:1274`). No macro uses them in
  a condition; only trees built by hand can tell the difference.
* Constant folding keeps an error *value* as a constant although its comment says
  that what would be a runtime error is left to occur at runtime
  (`eval/compiler/constant_folding.cc:226`); the result is the same error.

## 4. Proofs

`tlapm <module>.tla` for `EvaluatorProofs`, `StackDisciplineProofs`,
`EvaluationProofs`, `ActivationProofs`, `MatcherProofs`, `TrailProofs`,
`PartialProofs` and `RuntimeSetupProofs`; each is checked from nothing within a few minutes.

| Property of a run | Theorem | Hypotheses besides the assumptions on constants |
|---|---|---|
| `AbortIsFinal` | `AbortFinality` | none: any program |
| `TypeOK`, `StackInv` | `TypeCorrect`, `StackInvariant` | `Certified` |
| `BudgetIsGlobal` | `BudgetHolds` | `Certified` |
| `LookedUpAtMostOnce` | `LookupsAreUnique` | `Certified`, `AllKeepSlots` |
| `LazySlotIsOwn` | `LazySlotsAreOwn` | `Certified`, `AllOwned` |
| `NoRace`, `DeadlockOnlyByReentry`, `IsActivation` | `NoRaceHolds`, `DeadlockOnlyByReentryHolds`, `Refinement` | none |
| `IsPatternSet`, `TrailMeansPatterns` | `MatcherIsPatternSet`, `TrailsMeanPatterns` | none |
| `KnownIsFinal` | `KnownResultsAreFinal` | `PrintsNames` |
| `CallIsUnambiguous`, `NonStrictIsAlone`, `AmbiguousOnlyByAny` | `CallsAreUnambiguous`, `NonStrictStaysAlone`, `LazyCallsAreUnambiguous` | none |
| `TableIsCurrent`, `PointersStayValid` | `TablesAreCurrent`, `PointersAreValid` | none |

**`AbortFinality`**: `Spec => AbortIsFinal`, for every program, well planned or
not. The invariant is `AbortInv`: after `Abort` the frame is at the end of the
main path with no callers. It is preserved because every step changes the abort
status only by way of `Abort` (`GoesOnOrAborts`), and it excludes every further
step, `Return`, and listener call.

**`Inductive`**, **`TypeCorrect`**, **`StackInvariant`**: under the hypothesis
`Certified`, every program of the table has a certificate,
`Inv == TypeOK /\ StackInv` is an invariant of `Spec`. The capacity of both stacks
(`StacksWithinCapacity`) and the absence of stack faults (`NoStackFault`) are conjuncts
of `StackInv`.

* Neither half of `Inv` is inductive alone. The heights depend on the types: the
  branch a step takes depends on the kind of the value on top. The types depend
  on the heights: `NextSlow` copies the top of the stack into a slot, and the
  loop steps use the top iterator.
* `NoStackFault` is not inductive either: it needs the heights to be the
  certified ones at the current position *and* for every suspended caller
  (`CallerOK`), and `StacksWithinCapacity` needs room for what the current path
  and each caller may still add (`Room`).
* The argument is split so that each step kind is treated once: a step has one
  of three shapes (`StepShape`): it follows an edge of the certificate, enters a
  subexpression, or aborts with a failure that is no stack fault. Three lemmas
  (`FollowsPreserves`, `EntersPreserves`, `CutShortPreserves`) show that each
  shape preserves the control and height parts; one lemma per step kind
  (`...OK`) shows its shape and its data types.

Assumptions on constants, evaluated by TLC in every run: the operands of steps
name slots, subexpressions and identifiers that exist (`ProgramsAssumption`,
what the planner's indices guarantee), activations are well typed
(`ActivationsAssumption`), `IntMax` is a natural number.

**`BudgetHolds`**: what the running loops have taken is a sum over the iterator
stack, which no single step keeps below the limit by itself. `BudgetInv` bounds
the sum by the frame's counter, and the counter by the limit: strictly while the
evaluation may go on, since the iteration that reaches the limit aborts. The sum
is a recursive function of the stack; the invariant says that *some* function
adds up that way (`Sums`), each step of a loop gives the next one, and
`SumIsTaken` shows that there is one only, by the least height at which two
differ.

**`LookupsAreUnique`**: under the further hypothesis `AllKeepSlots` (an identifier
has one slot in a program, which no step clears), `LookupInv` adds to the
property that what was looked up is in its slot, and that no running loop has such
a slot among those it clears. An evaluation that ends clears the counts with the
slots.

**`LazySlotsAreOwn`**: slots are shared, so what a `kLazyInit` finds may have been
left by any step that ran before it, in the same path, in the loops around it, in a
subexpression it called or in the caller. A certificate says at each position
which loops of the path are running (`loops`) and which pairs of a slot and its
writer there may be (`owners`); `AllOwned` says that every step leads from what is
certified where it stands to what is certified where it goes (`Flows`), into a
subexpression and back out of it (`Returned`), and that at a `kLazyInit` nobody but
the variable's own initialiser may have set its slot. `OwnerInv` says that the slots
hold what is certified. It has to say more to be inductive: a loop step takes
its slots from the iterator on top, so the iterators are those of the certified
loops, for each suspended caller in its own part of the iterator stack; `NextSlow`
takes its slot from the call frame, so each caller is behind the `kLazyInit` that
called what runs now. `FlowPreserves` treats all steps that stay in their path,
`EntersOwners` and `ReturnOwners` the other two kinds. No assumption is made on the
values: both ways out of every branch count. The plan of `stale_slot` does not
satisfy `AllOwned`: the exit at the loop condition leads to the position of the bind
with `e` still an owner of the slot. In it the machine does what the planner tells
it; the theorem is why the finding is one about plans.

`Certified`, `AllKeepSlots` and `AllOwned` are what links these proofs to the planner:
`PlanIsCertified` has TLC infer a certificate for each planned program, folded
ones included, check it, and check the slots of identifiers and of lazily
initialised variables. For any program the planner makes that passes this
check, the theorems hold with every activation, every arena and any number of
evaluations.

**`NoRaceHolds`**, **`DeadlockOnlyByReentryHolds`**, **`Refinement`**: for any number of
threads, names and values, and whatever variables providers look up,
`Activation!Spec` implies `NoRace`, `DeadlockOnlyByReentry` and `IsActivation`. None of them is inductive. **`Invariance`** proves what they
follow from, `IInv`, which says what a call in progress knows of its entry:

* a call that reads a value without the lock knows that the entry has no provider
  (`FrameOK`), because entries change only while nobody is looking (`Assign`) or
  by a store under the lock, which leaves `provider` alone;
* a call in a provider knows that its entry has no value yet: it looked under the
  lock and has held it since, so nobody else can have stored one;
* a thread has at most two calls in progress, the first in a provider that looks
  up the name of the second, which never gets past the lock (`NestedOK`): the first
  holds it. So the call that releases the lock is the outermost one, and its
  answer is the thread's.

Three lemmas say what the ways in which a call changes keep (`GotoKeeps`,
`ReturnKeeps`, `ReleaseKeeps`), one lemma per action applies them. In the
refinement the abstract lookup takes place when the outermost call returns; the
other steps change neither bindings nor answers. `ActivationAssumption` says only
that the constants are of their types: a provider may look up any variable, its own
included.

**`MatcherIsPatternSet`**, **`TreeShape`**, **`PatternsStayApart`**: for every set
of patterns and every sequence of operations, the tree of a matcher refines
`PatternSet`, and each operation does to the set what the abstract one of its
name does. The invariant is `TreeInv`: the tree is closed under prefixes, a
wildcard in it is an only child and ends a pattern, and every node leads to the
end of a pattern. From it, `RefusedOverlaps` and `OverlapIsRefused` show that
`Add` refuses a qualifier exactly for patterns that overlap, `GrownTree`,
`RemovedChildren` and `RemovedNode` what the three changes of the tree do to its
ends. `PatternsAssumption` says that a pattern starts with a name.

**`TrailsMeanPatterns`** rests on the same shape of all three trees
(`SetupTrees`). `NodeOf` is the node an attribute leads to in a tree; `StepReaches`
shows that `MatchQualifier` goes from the node of one attribute to the node of the
next, `NodeMeans` and `CoveredAtNode` what the node says of the patterns. A
trail is right (`TrailOK`) if its missing match is that node and the other two are
in one of three states: nothing below can be unknown (`Settled`), something
below is (`PartlyUnknown`), or everything but what known patterns further down name
(`UnknownButBelow`). `LeadMatchOK` establishes it, `NextMatchOK` keeps it or
decides, and the walk along an attribute, a recursive function, is right by its
first name that is not. `AttributesAssumption` says that attributes are
non-empty and name no wildcard.

**`KnownResultsAreFinal`**: for all programs, patterns and inputs, whatever the
client declares and however often it answers, a definite result is that of every
completion. The property speaks of the result only; the invariant, `PartialInv`
(theorem `PartialInvariant`), of every step. Beside the evaluation runs, for each
completion, one with no unknown patterns (`FullStacks`), and the two stacks
have the same height and agree entry by entry:

* `Agrees`: the first entry is unknown, or both are errors, or the values are
  equal, or both were read at one place of the inputs and may differ there. In the
  last case the trail of the first fits that place (`TrailFits`): unless it reports
  the place as partially unknown, nothing below is unknown (`PartialMatchOK`) and
  the values are equal (`SameBelow`); and a scalar is not unknown, or its access
  would have been decided, so scalars are equal anyway (`AgreeFacts`).
* `Sound`: the trail of an entry fits some place or is at no node, and the unknowns
  of its value, or of values inside it, are finite sets of attributes
  (`Wholesome`). Without it an answer could put any path into the tree of known
  patterns, and `TreeInv` would not survive `Resolve`
  (`UpsertAllKeepsTree`). **`UnknownResultsNameAttributes`** states what follows
  for the client.
* The trails of the full evaluation are at no unknown or known node (`Plain`), and
  its missing node is that of the other: both meet missing attributes at the same
  step (`StepAgrees`).

One lemma per kind of step (`IdentAgrees`, `SelectAgrees`, `IndexAgrees`,
`EqualityAgrees`, `AndAgrees`, `CallAgrees`, `ListAgrees`) shows that it takes
arguments that agree to results that agree: each has to ask about the trails of its
arguments where it looks into them, or carry them on. `StepsAgree` lifts
this to stacks. Folds (over arguments, over sets of attributes) and the stacks of
the full evaluation are recursive functions, of which the proofs show that there is
a function with these values before they use it (`TrailFold`, `UpsertIter`,
`StacksAlongExist`). Assumptions: `ValuesAssumption`, `ProgramsAssumption` (a step
finds its arguments, a call has as many as its overload has kinds) and
`InputsAssumption` (completions have the same maps and lists and differ in scalars),
which TLC evaluates in `partial`; and as a hypothesis `PrintsNames`, that keys print
as names, indices apart, since `ToString` has no definition to prove it from. The
proof attempt showed that the property as it was first stated is false for a scalar
with a known pattern below it, which no pattern of the run then reached; `b.*` is now
one of them.

**`CallsAreUnambiguous`** and the four theorems beside it follow from
**`SetupInvariance`**: overloads of a name, static and lazy together, are pairwise
apart (`RegistryInv`: `DescriptorRegistered` compares with all of them, although
`ValidateNonStrictOverload` looks at the first only), and what planners share is in
order (`EnvInv`: a memoised table holds all enums, and between the two steps of a
registration there is none and nobody is about to make one; the pointer read without
the lock is the owner's; whoever is about to create the factory holds the lock and
knows that there is none). `TablesAreCurrent` is about steps: it is `TablesInv` before
the step that gives a planner its table. Assumptions: `RegistryAssumption`,
`RuntimeEnvAssumption`.

**Only model-checked**, and why:

* liveness (`EvaluationTerminates`, `LookupReturns`, `ResolvesEventually`) is
  beyond the prover;
* `OutcomeIsDenotation`, `PlanIsCertified`, and the properties of the parser, the
  printer, the type checker and the policy compiler are about `RECURSIVE`
  operators over expressions, types and rules; the prover has no arithmetic
  backend where one is declared, and no rule of induction over such data. (A
  recursive *function* can be reasoned about, by its least wrong argument: so
  `BudgetHolds`, `TrailsMeanPatterns` and `KnownResultsAreFinal`.)

## 5. What is not modelled

Trails through jumps, slots and loops (a comprehension over a partially unknown
range), the sharing of nodes between unknown values and their grafting from
another evaluation; map, struct, optional, regex and bit-set steps; the optimizers other than constant folding, and folding
to list and map constants; namespace resolution in the planner;
`enable_fast_builtins = false`, under which the built-in operators are ordinary
function calls; the values left out of `CelValues`. In the front end: the lexer,
string escapes, source positions, the error recovery of the ANTLR runtime. In the
checker: the building of environments, descriptor pools, issue texts. In the
runtime: arenas and the keep-alive of descriptor pools, type registration, the
interning type pool. In the policy compiler: explanations, imports, issue texts
and positions, ids, and the YAML parser. Environment configuration, validators,
extension functions and the legacy API. A `cel.@block` inside the initialiser of a
bind is not among the cases. `PROJECT.json` gives the reason for each component.

Three hazards have no property. The depth of the tree under `max_recursion_depth`
is described above. The node limit of the checker is out of reach in the
run, and what it counts is described above. A provided value lives on the arena of the
evaluation that asked first and may outlive it
(`runtime/activation.cc:82`); arenas are not part of the activation's model,
and `runtime.h` leaves it to the caller to use one arena for both.

## 6. Plan

1. Trails on the value stack of `EvaluatorCore`: partially unknown ranges and loop
   variables, bound variables.
2. Map construction, optional navigation, `cel.@block` in initialisers,
   `enable_fast_builtins = false`.
3. The composed policy run by the planner and the machine, instead of by
   `PolicySemantics`; explanations.
4. Proofs: composition of certificates (sequencing, logical, ternary and
   comprehension layouts), which is the inductive step of "every plan is certified".
