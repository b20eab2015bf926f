------------------------- MODULE PartialEvaluation --------------------------
(***************************************************************************)
(* Evaluation with missing information: a client declares attributes        *)
(* unknown, known or missing (runtime/activation.h), evaluates a program,   *)
(* and if the result is unknown provides the attributes it names and        *)
(* evaluates again.  A program is a sequence of steps in postfix order on a *)
(* stack of values with their trails; the steps are those of eval/eval that *)
(* look at trails.  Jumps, slots and calls are in EvaluatorCore.            *)
(***************************************************************************)
EXTENDS AttributeTrail, TLC

CONSTANTS
  Programs,     \* index -> sequence of steps
  Inputs,       \* the values the variables may really have: variable -> value
  GivenInputs,  \* those the runs start from
  Patterns,     \* the patterns the client uses
  Attributes,   \* the paths into the inputs, and beyond
  Scalars,      \* those that lead to a number
  MaxSetup,     \* how many of the client's calls precede the evaluation
  Values,       \* by kind, the values of inputs and constants, and their parts
  Places,       \* the paths that lead to a value of the inputs
  Heights       \* for each program the height of the stack before each step

\* A pattern qualifies by names or by the wildcard; a variable has a name.
Qualifiers == STRING \cup {Wildcard}
Names      == Qualifiers \ {Wildcard}

ASSUME PatternsAssumption ==
  /\ Patterns \subseteq Seq(Qualifiers)
  /\ \A p \in Patterns : p # <<>> => p[1] # Wildcard

\* An attribute qualifies by names alone.
ASSUME AttributesAssumption == Attributes \subseteq Seq(Names) \ {<<>>}

VARIABLES
  matchers,  \* the patterns of the activation, by sort
  calls,     \* how often the client has called the activation during the setup
  phase,     \* "setup", "run", "done"
  program,   \* the index of the program, 0 before one is evaluated
  input,     \* the values of the variables
  pc,        \* the steps taken
  stack      \* values with their trails

vars == <<matchers, calls, phase, program, input, pc, stack>>

Sorts == {"unknown", "known", "missing"}

BoolOf(b) == [kind |-> "bool", content |-> b]
IntOf(n)  == [kind |-> "int", content |-> n]

NoSuchKey      == ErrorOf("no_such_key")
NoSuchOverload == ErrorOf("no_such_overload")
InvalidTarget  == ErrorOf("invalid_target")

SameValue(u, w) == u.kind = w.kind /\ u.content = w.content

IsInexact(value) == value.kind \in {"unknown", "error"}

\* The qualifier a key is for matching, a name; Wildcard if it is none.
QualifierOf(key) ==
  CASE key.kind = "int"    -> ToString(key.content)
    [] key.kind = "bool"   -> ToString(key.content)
    [] key.kind = "string" -> key.content
    [] OTHER               -> Wildcard

-----------------------------------------------------------------------------
\* LookupIdent.
LookupIdent(m, vars_of, name) ==
  LET lead == AttributeLeadMatch(m, name) IN
  IF lead.value # Undecided THEN lead
  ELSE IF name \in DOMAIN vars_of THEN [lead EXCEPT !.value = vars_of[name]]
  ELSE Decided(ErrorOf("no_such_variable"))

GetField(target, field) ==
  IF field \in DOMAIN target.content THEN target.content[field] ELSE NoSuchKey

HasField(target, field) == BoolOf(field \in DOMAIN target.content)

\* SelectStep: the trail moves on before the field is looked at (found).
Select(m, argument, field, found) ==
  LET step == Match(m, argument.trail, field) IN
  IF IsInexact(argument.value) THEN argument
  ELSE IF argument.value.kind # "map" THEN Decided(InvalidTarget)
  ELSE IF step.value # Undecided THEN step
  ELSE [step EXCEPT !.value = found]

\* LookupInContainer, with enable_heterogeneous_equality and integer keys.
LookupInContainer(container, key) ==
  CASE container.kind = "map"
         -> IF key.kind = "string" THEN GetField(container, key.content)
            ELSE IF key.kind \in {"int", "bool"} THEN NoSuchKey
            ELSE ErrorOf("invalid_map_key")
    [] container.kind = "list"
         -> IF key.kind # "int" THEN ErrorOf("index_type")
            ELSE IF key.content \in 0 .. Len(container.content) - 1 THEN container.content[key.content + 1]
            ELSE ErrorOf("index_range")
    [] OTHER -> ErrorOf("invalid_container")

\* PerformLookup of the container access step.
PerformLookup(m, container, key) ==
  LET unknowns  == MergeValues(<<container.value, key.value>>)
      qualifier == QualifierOf(key.value)
      step      == IF qualifier = Wildcard THEN [value |-> Undecided, trail |-> NoTrail]
                   ELSE Match(m, container.trail, qualifier)
  IN  IF ~unknowns.empty THEN Decided(UnknownOf(Accumulate(unknowns)))
      ELSE IF step.value # Undecided THEN step
      ELSE IF container.value.kind = "error" THEN Decided(container.value)
      ELSE IF key.value.kind = "error" THEN Decided(key.value)
      ELSE [step EXCEPT !.value = LookupInContainer(container.value, key.value)]

\* EvaluateEquality.
Equality(m, lhs, rhs) ==
  LET unknowns == MaybeAddArgument(MaybeAddArgument(NoUnknowns, m, lhs), m, rhs) IN
  Decided(IF lhs.value.kind = "error" THEN lhs.value
          ELSE IF rhs.value.kind = "error" THEN rhs.value
          ELSE IF ~unknowns.empty THEN UnknownOf(Accumulate(unknowns))
          ELSE BoolOf(SameValue(lhs.value, rhs.value)))

\* EvaluateBoolLogicStep for &&: the values alone, and unknown before error.
LogicAnd(arguments) ==
  LET values   == [i \in DOMAIN arguments |-> arguments[i].value]
      unknowns == MergeValues(values)
      wrong    == SelectInSeq(values, LAMBDA v : v.kind # "bool" /\ v.kind # "unknown")
      false    == \E i \in DOMAIN values : values[i].kind = "bool" /\ ~values[i].content
  IN  Decided(IF false THEN BoolOf(FALSE)
              ELSE IF ~unknowns.empty THEN UnknownOf(Accumulate(unknowns))
              ELSE IF wrong = 0 THEN BoolOf(TRUE)
              ELSE IF values[wrong].kind = "error" THEN values[wrong]
              ELSE NoSuchOverload)

FirstError(values) == SelectInSeq(values, LAMBDA v : v.kind = "error")

\* Mutant: only arguments unknown in full are.
CheckForFullUnknowns(m, arguments) == [i \in DOMAIN arguments |-> arguments[i].value]

\* EvaluateFunctionStep for a strict overload: partially unknown arguments
\* are unknown to it.
CheckForPartialUnknowns(m, arguments) ==
  [i \in DOMAIN arguments |->
     LET node == PartialUnknownMatch(m, arguments[i].trail)
     IN  IF node = NoNode THEN arguments[i].value ELSE UnknownOf({node})]

NoOverloadResult(values) ==
  LET error    == FirstError(values)
      unknowns == MergeValues(values)
  IN  IF error # 0 THEN values[error]
      ELSE IF ~unknowns.empty THEN UnknownOf(Accumulate(unknowns))
      ELSE NoSuchOverload

Invoke(function, values) ==
  CASE function = "size" -> IntOf(Cardinality(DOMAIN values[1].content))
    [] function = "sum"  -> IntOf(FoldFunction(LAMBDA v, n : v.content + n, 0, values[1].content))
    [] function = "add"  -> IntOf(values[1].content + values[2].content)

CallFunction(m, function, kinds, arguments) ==
  LET values == CheckForPartialUnknowns(m, arguments)
  IN  Decided(IF [i \in DOMAIN values |-> values[i].kind] = kinds
              THEN Invoke(function, values) ELSE NoOverloadResult(values))

\* EvaluateListStep: the first error, with its trail, or the unknown parts.
CreateList(m, arguments) ==
  LET values   == [i \in DOMAIN arguments |-> arguments[i].value]
      error    == FirstError(values)
      unknowns == PartiallyIdentifyAndMergeUnknowns(m, arguments)
  IN  IF error # 0 THEN arguments[error]
      ELSE Decided(IF ~unknowns.empty THEN UnknownOf(Accumulate(unknowns))
                   ELSE [kind |-> "list", content |-> values])

\* The value of a step that takes its arguments from the stack.
Result(m, step, arguments) ==
  CASE step.op = "select" -> Select(m, arguments[1], step.name, GetField(arguments[1].value, step.name))
    [] step.op = "has"    -> Select(m, arguments[1], step.name, HasField(arguments[1].value, step.name))
    [] step.op = "index"  -> PerformLookup(m, arguments[1], arguments[2])
    [] step.op = "equal"  -> Equality(m, arguments[1], arguments[2])
    [] step.op = "and"    -> LogicAnd(arguments)
    [] step.op = "call"   -> CallFunction(m, step.name, step.kinds, arguments)
    [] step.op = "list"   -> CreateList(m, arguments)

EvaluateStep(m, vars_of, values, step) ==
  LET rest      == SubSeq(values, 1, Len(values) - step.argc)
      arguments == SubSeq(values, Len(rest) + 1, Len(values))
  IN  CASE step.op = "ident" -> Append(values, LookupIdent(m, vars_of, step.name))
        [] step.op = "const" -> Append(values, Decided(step.value))
        [] OTHER             -> Append(rest, Result(m, step, arguments))

-----------------------------------------------------------------------------
NoPatterns == [sort \in Sorts |-> {}]

Init ==
  /\ matchers = NoPatterns
  /\ calls = 0
  /\ phase = "setup"
  /\ program = 0
  /\ input \in GivenInputs
  /\ pc = 0
  /\ stack = <<>>

SetUp(sort, tree) ==
  /\ phase = "setup"
  /\ calls < MaxSetup
  /\ calls' = calls + 1
  /\ matchers' = [matchers EXCEPT ![sort] = tree]
  /\ UNCHANGED <<phase, program, input, pc, stack>>

\* Activation::AddUnknownPattern, AddKnownPattern, AddMissingPattern.
AddPattern(sort, pattern) ==
  ValidateAttribute(pattern) /\ SetUp(sort, UpsertAttribute(matchers[sort], pattern))

\* The matcher's other operations.
InsertPattern(pattern) ==
  /\ ValidateAttribute(pattern)
  /\ SetUp("unknown", InsertAttribute(matchers.unknown, pattern).tree)

RemovePattern(pattern) ==
  /\ ValidateAttribute(pattern)
  /\ SetUp("unknown", RemoveAttribute(matchers.unknown, pattern).tree)

ClearPatterns == SetUp("unknown", {})

Start ==
  /\ phase = "setup"
  /\ phase' = "run"
  /\ program' \in DOMAIN Programs
  /\ calls' = 0
  /\ UNCHANGED <<matchers, input, pc, stack>>

Advance == phase = "run" /\ pc' = pc + 1

Step ==
  /\ Advance
  /\ stack' = EvaluateStep(matchers, input, stack, Programs[program][pc + 1])
  /\ phase' = IF pc' = Len(Programs[program]) THEN "done" ELSE "run"
  /\ UNCHANGED <<matchers, calls, program, input>>

Outcome == stack[1].value

\* The client provides the attributes an unknown result names, which are known
\* from then on, and evaluates again.
Retry == phase = "done" /\ Outcome.kind = "unknown" /\ phase' = "run"

UpsertAll(tree, attributes) ==
  FoldSet(LAMBDA p, upserted : UpsertAttribute(upserted, p), tree, attributes)

Resolve ==
  /\ Retry
  /\ matchers' = [matchers EXCEPT !.known = UpsertAll(@, Outcome.content)]
  /\ pc' = 0
  /\ stack' = <<>>
  /\ UNCHANGED <<calls, program, input>>

Next ==
  \/ \E sort \in Sorts, p \in Patterns : AddPattern(sort, p)
  \/ \E p \in Patterns : InsertPattern(p) \/ RemovePattern(p)
  \/ ClearPatterns
  \/ Start
  \/ Step
  \/ Resolve

Spec == Init /\ [][Next]_vars

\* Evaluate returns, and the client keeps answering.  Only a Step advances and
\* only Resolve retries.
FairSpec == Spec /\ WF_pc(Advance) /\ WF_phase(Retry)

-----------------------------------------------------------------------------
UnknownPatterns == INSTANCE PatternSet
  WITH patterns <- GetAttributes(matchers.unknown), Any <- Wildcard

\* What each operation of the matcher does to the set.
OperationsImplement ==
  /\ \A p \in Patterns :
       /\ AddPattern("unknown", p) => UnknownPatterns!Upsert(p)
       /\ InsertPattern(p) => UnknownPatterns!Insert(p)
       /\ RemovePattern(p) => UnknownPatterns!Remove(p)
  /\ ClearPatterns => UnknownPatterns!Clear
  /\ Start \/ Step \/ Resolve => UNCHANGED GetAttributes(matchers.unknown)

\* The matcher is a set of patterns that do not overlap, whatever the order of
\* insertions, replacements and removals, and each of them does to the set what
\* its comment says (AttributeMatcher, attribute_matcher.cc): sharing nodes
\* between patterns loses none and invents none.
IsPatternSet == UnknownPatterns!Spec /\ [][OperationsImplement]_vars

Covers(p, q) == UnknownPatterns!Covers(p, q)

Covered(sort, path) == \E p \in GetAttributes(matchers[sort]) : Covers(p, path)

PartlyCovered(sort, path) ==
  \E p \in GetAttributes(matchers[sort]) :
    Len(p) > Len(path) /\ Covers(SubSeq(p, 1, Len(path)), path)

UnknownPath(path) == Covered("unknown", path) /\ ~Covered("known", path)

\* Where an access is decided: there and below everything is unknown, but for
\* known patterns that lead further down; or the attribute is missing.
IsUnknownAt(path) == UnknownPath(path) /\ ~PartlyCovered("known", path)
IsDecidedAt(path) == IsUnknownAt(path) \/ Covered("missing", path)

\* The matching of an attribute, one qualifier after the other.
MatchAt(path, i, before) ==
  IF i = 1 THEN AttributeLeadMatch(matchers, path[1])
  ELSE IF before.value # Undecided THEN before
  ELSE Match(matchers, before.trail, path[i])

Walk(path) ==
  LET at[i \in 1 .. Len(path)] == MatchAt(path, i, at[i - 1])
  IN  at[Len(path)]

\* Stepping three trees along an attribute gives what the patterns say of it
\* (AttributeLeadMatch, AttributeTrail::Match): it is decided at the first
\* prefix that is unknown and not known, or missing; otherwise a value any
\* part of which may be unknown is reported as partially unknown, by its own
\* name.
TrailMeansPatterns ==
  phase = "setup" =>
    \A path \in Attributes :
      LET prefix(i) == SubSeq(path, 1, i)
          stops     == {i \in DOMAIN path : IsDecidedAt(prefix(i))}
          walk      == Walk(path)
          partial   == PartialUnknownMatch(matchers, walk.trail)
      IN  IF stops = {}
          THEN /\ walk.value = Undecided
               /\ partial \in {NoNode, path}
               /\ (\E q \in Attributes : IsStrictPrefix(path, q) /\ UnknownPath(q))
                    => partial = path
          ELSE walk.value = IF IsUnknownAt(prefix(Min(stops)))
                            THEN UnknownOf({prefix(Min(stops))}) ELSE MissingAttribute

-----------------------------------------------------------------------------
(***************************************************************************)
(* What the programs and the inputs are.  The planner gives every step its  *)
(* arguments; the inputs differ in scalars only.                            *)
(***************************************************************************)
ArgCount(step) == IF step.op \in {"ident", "const"} THEN 0 ELSE step.argc

Kinds == {"bool", "int", "string", "map", "list"}

IsValue(v) == v.kind \in Kinds /\ v \in Values[v.kind]

ASSUME ValuesAssumption ==
  /\ DOMAIN Values = Kinds
  /\ \A k \in Kinds : \A v \in Values[k] : v = [kind |-> k, content |-> v.content]
  /\ \A v \in Values["string"] : v.content \in Names
  /\ \A v \in Values["map"] :
       /\ DOMAIN v.content \subseteq Names
       /\ v.content = [f \in DOMAIN v.content |-> v.content[f]]
       /\ \A f \in DOMAIN v.content : IsValue(v.content[f])
  /\ \A v \in Values["list"] :
       /\ Len(v.content) \in Nat
       /\ v.content = [i \in 1 .. Len(v.content) |-> v.content[i]]
       /\ \A i \in 1 .. Len(v.content) : IsValue(v.content[i])

IsStep(step) ==
  CASE step.op = "ident"              -> step.name \in Names
    [] step.op = "const"              -> IsValue(step.value)
    [] step.op \in {"select", "has"}  -> step.argc = 1 /\ step.name \in Names
    [] step.op \in {"index", "equal"} -> step.argc = 2
    [] step.op \in {"and", "list"}    -> step.argc \in Nat
    [] step.op = "call"               -> /\ step.name \in {"size", "sum", "add"}
                                         /\ step.argc = Len(step.kinds) /\ step.argc \in Nat
                                         /\ \A i \in 1 .. step.argc : step.kinds[i] \in Kinds
    [] OTHER                          -> FALSE

ASSUME ProgramsAssumption ==
  \A n \in DOMAIN Programs :
    LET steps == Programs[n]  height == Heights[n] IN
    /\ Len(steps) \in Nat \ {0}
    /\ \A i \in 0 .. Len(steps) : height[i] \in Nat
    /\ height[0] = 0 /\ height[Len(steps)] = 1
    /\ \A i \in 1 .. Len(steps) :
         /\ IsStep(steps[i])
         /\ ArgCount(steps[i]) <= height[i - 1]
         /\ height[i] = height[i - 1] - ArgCount(steps[i]) + 1

\* The parts of a value, by their qualifiers.
PartNames(value) ==
  CASE value.kind = "map"  -> DOMAIN value.content
    [] value.kind = "list" -> {ToString(i - 1) : i \in DOMAIN value.content}
    [] OTHER               -> {}

Part(value, q) ==
  IF value.kind = "map" THEN value.content[q]
  ELSE value.content[CHOOSE i \in DOMAIN value.content : ToString(i - 1) = q]

ValueAt(values, path) ==
  LET at[i \in 1 .. Len(path)] ==
        IF i = 1 THEN values[path[1]] ELSE Part(at[i - 1], path[i])
  IN  at[Len(path)]

SameShape(u, w) ==
  u.kind = w.kind /\ (u.kind \in {"map", "list"} => DOMAIN u.content = DOMAIN w.content)

ASSUME InputsAssumption ==
  /\ GivenInputs \subseteq Inputs
  /\ Scalars \subseteq Places /\ Places \subseteq Attributes
  /\ \E n \in {Len(p) : p \in Places} : \A p \in Places : Len(p) <= n
  /\ \A values \in Inputs :
       /\ DOMAIN values = {p[1] : p \in {q \in Places : Len(q) = 1}}
       /\ \A p \in Places :
            /\ IsValue(ValueAt(values, p))
            /\ p \in Scalars <=> ValueAt(values, p).kind \notin {"map", "list"}
            /\ \A q \in PartNames(ValueAt(values, p)) : Append(p, q) \in Places
            /\ \A others \in Inputs : SameShape(ValueAt(values, p), ValueAt(others, p))

-----------------------------------------------------------------------------
\* What the unknown attributes may turn out to be.  A scalar below which a
\* pattern is known is taken as it is.
Completions ==
  {values \in Inputs :
     \A p \in Scalars :
       ~IsUnknownAt(p) => SameValue(ValueAt(values, p), ValueAt(input, p))}

\* The stacks of an evaluation that is missing nothing but what is missing.
AllKnown(m) == [m EXCEPT !.unknown = {}, !.known = {}]

FullStacks(m, steps, values) ==
  LET at[i \in 0 .. Len(steps)] ==
        IF i = 0 THEN <<>> ELSE EvaluateStep(AllKnown(m), values, at[i - 1], steps[i])
  IN  at

FullEvaluation(values) ==
  LET steps == Programs[program] IN FullStacks(matchers, steps, values)[Len(steps)][1].value

\* A result that is not unknown does not depend on what is: every completion of
\* the inputs gives it, or also an error (select, index, equality, logic, call
\* and list steps in eval/eval).  An attribute that is itself the result may
\* have unknown parts: the steps that use one look at its trail, Evaluate does
\* not.
KnownIsFinal ==
  (phase = "done" /\ Outcome.kind \in {"bool", "int", "error"}) =>
    \A values \in Completions :
      LET full == FullEvaluation(values)
      IN  IF Outcome.kind = "error" THEN full.kind = "error" ELSE SameValue(full, Outcome)

\* An unknown result names attributes which, once provided, bring the
\* evaluation to a result: the names are right, and what is known is not asked
\* for again (UnknownTree::Convert, AttributeMatchToUnknownValue).
ResolvesEventually ==
  phase = "run" ~> phase = "done" /\ Outcome.kind # "unknown"

\* What UpsertAttribute's comment says: afterwards the pattern is in the matcher.
UpsertIsAdded ==
  [][\A p \in Patterns : AddPattern("unknown", p) =>
        \E q \in GetAttributes(matchers'.unknown) : Covers(q, p)]_vars
=============================================================================
