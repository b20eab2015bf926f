--------------------------- MODULE EvaluatorCore ---------------------------
(***************************************************************************)
(* The stack machine that runs a planned CEL expression                     *)
(* (eval/eval/evaluator_core.{h,cc} and the steps it dispatches to).        *)
(*                                                                         *)
(* A FlatExpression is a table of execution paths: the main expression and  *)
(* the lazily initialised subexpressions.  ExecutionFrame runs the steps of *)
(* a path over a value stack, a stack of comprehension iterators and the    *)
(* comprehension slots, all of which belong to an evaluator state that      *)
(* outlives the frame and is reused by the next evaluation.                 *)
(*                                                                         *)
(* One action per kind of step; Return, Finish and StartEvaluate are the    *)
(* ends of NextSlow, Evaluate and EvaluateWithCallback, and the listener    *)
(* actions are the tail of the loop in InterpretWithCallback.               *)
(***************************************************************************)
EXTENDS ExpressionStep

CONSTANTS
  Programs,        \* index -> FlatExpression
  Activations,     \* the activations an evaluation may be given
  Identifiers,     \* names of the identifiers looked up in the activation
  ListenerChoices, \* whether evaluations are given a listener
  MaxEvaluations   \* bound: evaluations that reuse one evaluator state

SlotSpan(step) ==
  CASE step.op \in {"kReadSlot", "kLazyInit", "kAssignSlotAndPop", "kIdentifier",
                    "kComprehensionFinish"} -> 1
    [] step.op = "kClearSlots" -> step.argc
    [] step.op = "kComprehensionInit" -> IF step.v2 THEN 3 ELSE 2
    [] OTHER -> 0

\* Slots, subexpressions and identifiers a step names exist.
OperandsInRange(p) ==
  /\ p \in FlatExpression
  /\ p.paths # <<>>
  /\ \A i \in DOMAIN p.paths : \A j \in DOMAIN p.paths[i] :
       LET step == p.paths[i][j] IN
       /\ step.slot + SlotSpan(step) <= p.slotCount
       /\ step.op = "kLazyInit" => step.sub \in DOMAIN p.paths
       /\ step.op = "kIdentifier" => step.name \in Identifiers
       /\ step.op \in {"kBooleanOrJump", "kBooleanAndJump", "kBooleanOr", "kBooleanAnd"}
            => step.argc > 0

(***************************************************************************)
(* What FindVariable may yield for a name: a value, "unbound" (not found)   *)
(* or "failing" (a provider that returned a status).                        *)
(***************************************************************************)
Unbound == [kind |-> "unbound", n |-> 0, unknowns |-> {}]
Failing == [kind |-> "failing", n |-> 0, unknowns |-> {}]

ActivationOK(a) ==
  /\ ArenaOK(a.arena)
  /\ a.vars \in [Identifiers -> SUBSET (ValueIn(Len(a.arena)) \cup {Unbound, Failing})]
  /\ \A x \in Identifiers : a.vars[x] # {}
  /\ a.unknown \in SUBSET (Identifiers \cap Attributes)
  /\ a.functions \in SUBSET Impls
  /\ a.broken \in SUBSET (1 .. Len(a.arena))  \* containers whose iteration may fail

\* A definition rather than the constant, so that TLC evaluates it once.
ExpressionTable == Programs

ASSUME ProgramsAssumption ==
  /\ DOMAIN ExpressionTable # {}
  /\ \A i \in DOMAIN ExpressionTable : OperandsInRange(ExpressionTable[i])

ASSUME ActivationsAssumption ==
  /\ Activations # {}
  /\ \A a \in Activations : ActivationOK(a)

ASSUME MaxEvaluationsAssumption ==
  MaxEvaluations \in Nat \ {0} /\ ListenerChoices \in SUBSET BOOLEAN

VARIABLES
  program,        \* index of the FlatExpression evaluated
  activation,     \* the activation of the current evaluation
  listening,      \* an EvaluationListener was given
  phase,          \* "idle" between evaluations, else "run" or "callback"
  reported,       \* the step just run maps to an AST node
  \* ExecutionFrame
  pc, path, callStack, abortStatus, iterations,
  \* FlatExpressionEvaluatorState
  valueStack, iteratorStack, slots, dirty,
  \* its arena, and which of its containers are mutable lists
  arena, mutableLists,
  \* Evaluate
  initialStackSize, outcome, evaluations,
  lookups         \* ghost: FindVariable calls per identifier in this evaluation

control == <<pc, path, callStack, abortStatus>>
heap == <<arena, mutableLists>>
request == <<program, activation, listening, dirty, initialStackSize, outcome, evaluations>>
vars == <<request, phase, reported, control, iterations, valueStack, iteratorStack,
          slots, heap, lookups>>

\* The expression being evaluated, the execution path and the next step.
P    == ExpressionTable[program]
Code == P.paths[path]
Step == Code[pc + 1]

UnknownsEnabled  == P.unknowns # "disabled"
FunctionUnknowns == P.unknowns = "attribute_and_function"

(***************************************************************************)
(* ComprehensionSlots.  The writer of a slot is a ghost: what set it last.  *)
(***************************************************************************)
NoWriter  == <<"none", 0>>
EmptySlot == [has |-> FALSE, value |-> NullValue, writer |-> NoWriter]
Filled(v, writer) == [has |-> TRUE, value |-> v, writer |-> writer]
Writers   == {"none", "lazy", "accu", "iter", "ident", "assign"} \X Nat
SlotIndex == 0 .. P.slotCount - 1
SlotIn(m) == [has : BOOLEAN, value : ValueIn(m), writer : Writers]

ClearSlots(s, dead) == [i \in DOMAIN s |-> IF i \in dead THEN EmptySlot ELSE s[i]]

(***************************************************************************)
(* EvaluatorStack.                                                          *)
(***************************************************************************)
HasEnough(n) == n <= Len(valueStack)
Top          == valueStack[Len(valueStack)]
Args(n)      == SubSeq(valueStack, Len(valueStack) - n + 1, Len(valueStack))
Pop(n)       == SubSeq(valueStack, 1, Len(valueStack) - n)
PopAndPush(n, v) == Append(Pop(n), v)

(***************************************************************************)
(* ExecutionFrame: the control transfers.                                   *)
(***************************************************************************)
AbortStatuses ==
  {"ok", "underflow", "jump", "scope", "lookup", "function", "overloads",
   "append", "iterator", "budget", "listener", "stack"}

\* Mutant: the callers are left on the call stack.
AbortKeepsCallers(status) ==
  /\ abortStatus' = IF abortStatus = "ok" THEN status ELSE abortStatus
  /\ path' = 1
  /\ pc' = Len(P.paths[1])
  /\ UNCHANGED callStack

Abort(status) ==
  /\ abortStatus' = IF abortStatus = "ok" THEN status ELSE abortStatus
  /\ callStack' = <<>>
  /\ path' = 1
  /\ pc' = Len(P.paths[1])

\* Mutant: the target is not checked.
JumpUnchecked(offset) == pc' = pc + 1 + offset /\ UNCHANGED <<path, callStack, abortStatus>>

JumpToOrAbort(offset) ==
  LET target == pc + 1 + offset IN
  \/ /\ target \in 0 .. Len(Code)
     /\ pc' = target
     /\ UNCHANGED <<path, callStack, abortStatus>>
  \/ target \notin 0 .. Len(Code) /\ Abort("jump")

Continue == JumpToOrAbort(0)

\* A step of kind op is the next one, and what every step leaves behind.
At(op) ==
  /\ phase = "run"
  /\ pc < Len(Code)
  /\ Step.op = op
  /\ phase' = IF listening THEN "callback" ELSE "run"
  /\ reported' = Step.ast
  /\ UNCHANGED request

\* A step that replaces its n arguments by a value and goes on.
Replace(n, v) ==
  /\ valueStack' = PopAndPush(n, v)
  /\ Continue
  /\ UNCHANGED <<iteratorStack, slots, heap, iterations, lookups>>

AbortStep(status) ==
  /\ Abort(status)
  /\ UNCHANGED <<valueStack, iteratorStack, slots, heap, iterations, lookups>>

-----------------------------------------------------------------------------
(***************************************************************************)
(* Steps that push, and the slots they read.                                *)
(***************************************************************************)
Constant == At("kConstant") /\ Replace(0, Step.value)

ReadSlot ==
  /\ At("kReadSlot")
  /\ \/ slots[Step.slot].has /\ Replace(0, slots[Step.slot].value)
     \/ ~slots[Step.slot].has /\ AbortStep("scope")

\* Mutant: the value is not kept.
PushIdentifierOnly(v) ==
  /\ valueStack' = Append(valueStack, v)
  /\ Continue
  /\ UNCHANGED slots

\* The value found for an identifier is pushed and kept in its slot.
PushIdentifier(v) ==
  /\ valueStack' = Append(valueStack, v)
  /\ slots' = [slots EXCEPT ![Step.slot] = Filled(v, <<"ident", Step.slot>>)]
  /\ Continue

\* LookupIdent: the attribute is declared unknown, or FindVariable is called.
LookupIdent ==
  \/ /\ UnknownsEnabled
     /\ Step.name \in activation.unknown
     /\ PushIdentifier(UnknownValue({Step.name}))
     /\ UNCHANGED lookups
  \/ /\ ~(UnknownsEnabled /\ Step.name \in activation.unknown)
     /\ lookups' = [lookups EXCEPT ![Step.name] = @ + 1]
     /\ \E found \in activation.vars[Step.name] :
          \/ /\ found = Failing
             /\ valueStack' = Append(valueStack, NullValue)
             /\ Abort("lookup")
             /\ UNCHANGED slots
          \/ found = Unbound /\ PushIdentifier(ErrorValue(kNoSuchVariable))
          \/ found \notin {Failing, Unbound} /\ PushIdentifier(found)

Identifier ==
  /\ At("kIdentifier")
  /\ \/ slots[Step.slot].has /\ Replace(0, slots[Step.slot].value)
     \/ /\ ~slots[Step.slot].has
        /\ LookupIdent
        /\ UNCHANGED <<iteratorStack, heap, iterations>>

\* Call: the subexpression runs on the caller's stacks; the ghost field iters
\* is the height of the iterator stack, as expected is of the value stack.
Call(slot, sub) ==
  /\ callStack' = Append(callStack,
       [pc |-> pc + 1, path |-> path, slot |-> slot,
        expected |-> Len(valueStack) + 1, iters |-> Len(iteratorStack)])
  /\ pc' = 0
  /\ path' = sub
  /\ UNCHANGED abortStatus

LazyInit ==
  /\ At("kLazyInit")
  /\ \/ slots[Step.slot].has /\ Replace(0, slots[Step.slot].value)
     \/ /\ ~slots[Step.slot].has
        /\ Call(Step.slot, Step.sub)
        /\ UNCHANGED <<valueStack, iteratorStack, slots, heap, iterations, lookups>>

\* NextSlow at the end of a subexpression: back to the caller, and the value
\* computed is kept in the slot.
Return ==
  /\ phase = "run"
  /\ pc = Len(Code)
  /\ callStack # <<>>
  /\ LET frame == callStack[Len(callStack)] IN
     /\ pc' = frame.pc
     /\ path' = frame.path
     /\ slots' = [slots EXCEPT ![frame.slot] = Filled(Top, <<"lazy", path>>)]
  /\ callStack' = SubSeq(callStack, 1, Len(callStack) - 1)
  /\ UNCHANGED <<request, phase, reported, abortStatus, iterations, valueStack,
                 iteratorStack, heap, lookups>>

AssignSlotAndPop ==
  /\ At("kAssignSlotAndPop")
  /\ \/ ~HasEnough(1) /\ AbortStep("underflow")
     \/ /\ HasEnough(1)
        /\ slots' = [slots EXCEPT ![Step.slot] = Filled(Top, <<"assign", Step.slot>>)]
        /\ valueStack' = Pop(1)
        /\ Continue
        /\ UNCHANGED <<iteratorStack, heap, iterations, lookups>>

\* Mutant: the last slot of the range is left out.
ClearSlotsStepShort ==
  /\ At("kClearSlots")
  /\ slots' = ClearSlots(slots, Step.slot .. Step.slot + Step.argc - 2)
  /\ Continue
  /\ UNCHANGED <<valueStack, iteratorStack, heap, iterations, lookups>>

ClearSlotsStep ==
  /\ At("kClearSlots")
  /\ slots' = ClearSlots(slots, Step.slot .. Step.slot + Step.argc - 1)
  /\ Continue
  /\ UNCHANGED <<valueStack, iteratorStack, heap, iterations, lookups>>

-----------------------------------------------------------------------------
(***************************************************************************)
(* Jumps and logic.                                                         *)
(***************************************************************************)
BoolJump(op, target) ==
  /\ At(op)
  /\ \/ ~HasEnough(Step.argc) /\ AbortStep("underflow")
     \/ /\ HasEnough(Step.argc)
        /\ \/ /\ Top = BoolValue(target)
              /\ valueStack' = PopAndPush(Step.argc, Top)
              /\ JumpToOrAbort(Step.offset)
           \/ /\ Top # BoolValue(target)
              /\ Continue
              /\ UNCHANGED valueStack
        /\ UNCHANGED <<iteratorStack, slots, heap, iterations, lookups>>

TernaryJump ==
  /\ At("kTernaryJump")
  /\ \/ ~HasEnough(1) /\ AbortStep("underflow")
     \/ /\ HasEnough(1)
        /\ \/ IsTrue(Top) /\ valueStack' = Pop(1) /\ Continue
           \/ IsFalse(Top) /\ valueStack' = Pop(1) /\ JumpToOrAbort(Step.offset2)
           \/ /\ IsError(Top) \/ IsUnknown(Top)
              /\ JumpToOrAbort(Step.offset)
              /\ UNCHANGED valueStack
           \/ /\ Top.kind \notin {"bool", "error", "unknown"}
              /\ valueStack' = PopAndPush(1, ErrorValue(kNoMatchingOverload))
              /\ JumpToOrAbort(Step.offset)
        /\ UNCHANGED <<iteratorStack, slots, heap, iterations, lookups>>

FixedJump ==
  /\ At("kFixedJump")
  /\ JumpToOrAbort(Step.offset)
  /\ UNCHANGED <<valueStack, iteratorStack, slots, heap, iterations, lookups>>

\* A step over its n topmost values, which must be there.
Strict(op, n, v) ==
  /\ At(op)
  /\ \/ ~HasEnough(n) /\ AbortStep("underflow")
     \/ HasEnough(n) /\ Replace(n, v)

BooleanNot       == Strict("kBooleanNot", 1, NotResult(Top))
NotStrictlyFalse == Strict("kNotStrictlyFalse", 1, NotStrictlyFalseResult(Top))

\* Mutant: an error comes before the short-circuit value.
BoolLogicResultErrorFirst(args, shortcircuit) ==
  IF AnyError(args) THEN FirstError(args)
  ELSE IF \E i \in DOMAIN args : args[i] = BoolValue(shortcircuit)
       THEN BoolValue(shortcircuit)
  ELSE IF UnknownsEnabled /\ AnyUnknown(args) THEN MergeUnknowns(args)
  ELSE IF \A i \in DOMAIN args : IsBool(args[i]) THEN BoolValue(~shortcircuit)
  ELSE ErrorValue(kNoMatchingOverload)

\* The short-circuit value wins, then the unknowns, then the first argument
\* that is neither bool nor unknown.
BoolLogicResult(args, shortcircuit) ==
  LET bad == {i \in DOMAIN args : args[i].kind \notin {"bool", "unknown"}}
      first == args[CHOOSE i \in bad : \A j \in bad : i <= j]
  IN  IF \E i \in DOMAIN args : args[i] = BoolValue(shortcircuit)
      THEN BoolValue(shortcircuit)
      ELSE IF UnknownsEnabled /\ AnyUnknown(args) THEN MergeUnknowns(args)
      ELSE IF bad = {} THEN BoolValue(~shortcircuit)
      ELSE IF IsError(first) THEN first ELSE ErrorValue(kNoMatchingOverload)

BooleanOr  == Strict("kBooleanOr", Step.argc, BoolLogicResult(Args(Step.argc), TRUE))
BooleanAnd == Strict("kBooleanAnd", Step.argc, BoolLogicResult(Args(Step.argc), FALSE))

\* TernaryStep: both branches were evaluated.
TernaryResult(args) ==
  CASE IsTrue(args[1])  -> args[2]
    [] IsFalse(args[1]) -> args[3]
    [] IsError(args[1]) \/ (IsUnknown(args[1]) /\ UnknownsEnabled) -> args[1]
    [] OTHER -> ErrorValue(kNoMatchingOverload)

Ternary == Strict("kTernary", 3, TernaryResult(Args(3)))

-----------------------------------------------------------------------------
(***************************************************************************)
(* Comprehensions.  <iter_range> stays on the stack under <accu> while the  *)
(* iterator over it is on the iterator stack.                               *)
(***************************************************************************)
IteratorEntry(m) ==
  [obj : 1 .. m, pos : Nat, map : BOOLEAN, iter : SlotIndex, iter2 : SlotIndex,
   accu : SlotIndex]

NewIterator(v) ==
  [obj |-> v.n, pos |-> 0, map |-> v.kind = "map", iter |-> Step.slot,
   iter2 |-> IF Step.v2 THEN Step.slot + 1 ELSE 0,
   accu |-> IF Step.v2 THEN Step.slot + 2 ELSE Step.slot + 1]

Iterator    == iteratorStack[Len(iteratorStack)]
PopIterator == SubSeq(iteratorStack, 1, Len(iteratorStack) - 1)

ComprehensionInit ==
  /\ At("kComprehensionInit")
  /\ \/ ~HasEnough(1) /\ AbortStep("underflow")
     \/ /\ HasEnough(1)
        /\ \/ /\ IsError(Top) \/ IsUnknown(Top)
              /\ JumpToOrAbort(Step.offset)
              /\ UNCHANGED <<valueStack, iteratorStack>>
           \/ /\ IsContainer(Top)
              /\ iteratorStack' = Append(iteratorStack, NewIterator(Top))
              /\ Continue
              /\ UNCHANGED valueStack
           \/ /\ IsContainer(Top)
              /\ Top.n \in activation.broken
              /\ Abort("iterator")
              /\ UNCHANGED <<valueStack, iteratorStack>>
           \/ /\ Top.kind \in {"bool", "int", "null"}
              /\ valueStack' = PopAndPush(1, ErrorValue(kNoMatchingOverload))
              /\ JumpToOrAbort(Step.offset)
              /\ UNCHANGED iteratorStack
        /\ UNCHANGED <<slots, heap, iterations, lookups>>

\* The iteration variables of the next entry: one or two slots.
IterationSlots(entry, two) ==
  LET it == arena[entry.obj][entry.pos + 1] IN
  IF two THEN [slots EXCEPT ![entry.iter] = Filled(it.key, <<"iter", entry.iter>>),
                            ![entry.iter2] = Filled(it.val, <<"iter", entry.iter>>),
                            ![entry.accu] = Filled(Top, <<"accu", entry.iter>>)]
         ELSE [slots EXCEPT ![entry.iter] =
                              Filled(IF entry.map THEN it.key ELSE it.val,
                                     <<"iter", entry.iter>>),
                            ![entry.accu] = Filled(Top, <<"accu", entry.iter>>)]

\* What a Next that fails leaves: its slots were marked set before the call.
MarkedSlots(entry, two) ==
  LET kept   == [slots EXCEPT ![entry.accu] = Filled(Top, <<"accu", entry.iter>>)]
      marked == IF two THEN {entry.iter, entry.iter2} ELSE {entry.iter}
  IN  [i \in SlotIndex |-> IF i \in marked THEN Filled(kept[i].value, <<"iter", entry.iter>>)
                           ELSE kept[i]]

\* Mutant: the two-variable form returns the element without moving on.
AdvancedByNext1(two) ==
  IF two THEN iteratorStack ELSE [iteratorStack EXCEPT ![Len(iteratorStack)].pos = @ + 1]

\* The iterator moves on to the next element (ValueIterator::Next1, Next2).
Advanced(two) == [iteratorStack EXCEPT ![Len(iteratorStack)].pos = @ + 1]

\* Mutant: every loop has the budget for itself.
BudgetExceededByLoop == P.maxIterations # 0 /\ Iterator.pos + 1 >= P.maxIterations

\* IncrementIterations: the iteration that reaches the limit is refused.
BudgetExceeded == P.maxIterations # 0 /\ iterations + 1 >= P.maxIterations

ComprehensionNext(op, two) ==
  /\ At(op)
  /\ \/ (iteratorStack = <<>> \/ ~HasEnough(2)) /\ AbortStep("underflow")
     \/ /\ iteratorStack # <<>>
        /\ HasEnough(2)
        /\ valueStack' = Pop(1)
        /\ \/ /\ Iterator.pos >= Len(arena[Iterator.obj])
              /\ slots' = ClearSlots([slots EXCEPT ![Iterator.accu] =
                                        Filled(Top, <<"accu", Iterator.iter>>)],
                                     IF two THEN {Iterator.iter, Iterator.iter2}
                                            ELSE {Iterator.iter})
              /\ JumpToOrAbort(Step.offset)
              /\ UNCHANGED <<iteratorStack, iterations>>
           \/ /\ Iterator.pos < Len(arena[Iterator.obj])
              /\ slots' = IterationSlots(Iterator, two)
              /\ iteratorStack' = Advanced(two)
              /\ iterations' = IF P.maxIterations = 0 THEN iterations ELSE iterations + 1
              /\ \/ BudgetExceeded /\ Abort("budget")
                 \/ ~BudgetExceeded /\ Continue
           \/ /\ Iterator.obj \in activation.broken
              /\ slots' = MarkedSlots(Iterator, two)
              /\ Abort("iterator")
              /\ UNCHANGED <<iteratorStack, iterations>>
        /\ UNCHANGED <<heap, lookups>>

ComprehensionNext1 == ComprehensionNext("kComprehensionNext", FALSE)
ComprehensionNext2 == ComprehensionNext("kComprehensionNext2", TRUE)

\* Mutant: the iterator stays on its stack.
CondFailsInLoop(two, v) ==
  /\ valueStack' = PopAndPush(2, v)
  /\ slots' = ClearSlots(slots, IF two THEN {Iterator.iter, Iterator.iter2, Iterator.accu}
                                       ELSE {Iterator.iter, Iterator.accu})
  /\ JumpToOrAbort(Step.offset2)
  /\ UNCHANGED iteratorStack

\* The loop condition cannot be decided: leave with it as the result.
CondFails(two, v) ==
  /\ valueStack' = PopAndPush(2, v)
  /\ slots' = ClearSlots(slots, IF two THEN {Iterator.iter, Iterator.iter2, Iterator.accu}
                                       ELSE {Iterator.iter, Iterator.accu})
  /\ iteratorStack' = PopIterator
  /\ JumpToOrAbort(Step.offset2)

ComprehensionCond(op, two) ==
  /\ At(op)
  /\ \/ (iteratorStack = <<>> \/ ~HasEnough(2)) /\ AbortStep("underflow")
     \/ /\ iteratorStack # <<>>
        /\ HasEnough(2)
        /\ \/ (IsError(Top) \/ IsUnknown(Top)) /\ CondFails(two, Top)
           \/ /\ Top.kind \notin {"bool", "error", "unknown"}
              /\ CondFails(two, ErrorValue(kNoMatchingOverload))
           \/ /\ IsBool(Top)
              /\ valueStack' = Pop(1)
              /\ \/ IsFalse(Top) /\ P.shortCircuiting /\ JumpToOrAbort(Step.offset)
                 \/ ~(IsFalse(Top) /\ P.shortCircuiting) /\ Continue
              /\ UNCHANGED <<slots, iteratorStack>>
        /\ UNCHANGED <<heap, iterations, lookups>>

ComprehensionCond1 == ComprehensionCond("kComprehensionCond", FALSE)
ComprehensionCond2 == ComprehensionCond("kComprehensionCond2", TRUE)

ComprehensionFinish ==
  /\ At("kComprehensionFinish")
  /\ \/ ~HasEnough(2) /\ AbortStep("underflow")
     \/ /\ HasEnough(2)
        /\ valueStack' = PopAndPush(2, Top)
        /\ slots' = ClearSlots(slots, {Step.slot})
        /\ iteratorStack' = PopIterator
        /\ Continue
        /\ UNCHANGED <<heap, iterations, lookups>>

-----------------------------------------------------------------------------
(***************************************************************************)
(* Functions, equality, membership and lists.                               *)
(***************************************************************************)
\* An overload was chosen that accepts the arguments: the implementation runs.
InvokeOverload(overload) ==
  LET result == Invoke(overload.impl, Args(Step.argc), arena, FunctionUnknowns) IN
  \/ ~result.ok /\ AbortStep("function")
  \/ /\ result.ok
     /\ valueStack' = PopAndPush(Step.argc, result.value)
     /\ arena' = arena \o result.alloc
     /\ Continue
     /\ UNCHANGED <<iteratorStack, slots, mutableLists, iterations, lookups>>

\* resolved holds the overload the arguments resolve to, if there is one.
CallFunction(resolved) ==
  LET accepted == {o \in resolved : ShouldAcceptOverload(o, Args(Step.argc))} IN
  \/ \E overload \in accepted : InvokeOverload(overload)
  \/ /\ accepted = {}
     /\ Replace(Step.argc, NoOverloadResult(Args(Step.argc), UnknownsEnabled))

EagerFunction ==
  /\ At("kEagerFunction")
  /\ \/ ~HasEnough(Step.argc) /\ AbortStep("underflow")
     \/ /\ HasEnough(Step.argc)
        /\ CallFunction(ResolveStatic(Step.overloads, Args(Step.argc)))

LazyFunction ==
  /\ At("kLazyFunction")
  /\ \/ ~HasEnough(Step.argc) /\ AbortStep("underflow")
     \/ /\ HasEnough(Step.argc)
        /\ LET found == LazyMatches(Step.overloads, Args(Step.argc), activation.functions)
           IN  \/ (\E i, j \in found : i # j) /\ AbortStep("overloads")
               \/ /\ \A i, j \in found : i = j
                  /\ CallFunction({Step.overloads[i] : i \in found})

\* The operands of == and in: an error, then an unknown, takes precedence.
Propagated(args) ==
  IF AnyError(args) THEN FirstError(args) ELSE MergeUnknowns(args)

Decidable(args) == ~AnyError(args) /\ ~(UnknownsEnabled /\ AnyUnknown(args))

EqualityResult(args, negation) ==
  IF ~Decidable(args) THEN Propagated(args)
  ELSE IF AnyUnknown(args) THEN ErrorValue(kNoMatchingOverload)
  ELSE BoolValue(ValueEqual(arena, args[1], args[2]) # negation)

InResult(args) ==
  IF ~Decidable(args) THEN Propagated(args)
  ELSE CASE args[2].kind = "list" ->
              BoolValue(\E i \in 1 .. Len(arena[args[2].n]) :
                          ValueEqual(arena, arena[args[2].n][i].val, args[1]))
         [] args[2].kind = "map" /\ args[1].kind \in {"bool", "int"} ->
              BoolValue(\E i \in 1 .. Len(arena[args[2].n]) :
                          ValueEqual(arena, arena[args[2].n][i].key, args[1]))
         [] OTHER -> ErrorValue(kNoMatchingOverload)

FastEqual    == Strict("kFastEqual", 2, EqualityResult(Args(2), FALSE))
FastNotEqual == Strict("kFastNotEqual", 2, EqualityResult(Args(2), TRUE))
FastIn       == Strict("kFastIn", 2, InResult(Args(2)))

\* Mutant: the container is not allocated on the evaluation's arena.
ReplaceByTemporary(n, entries) ==
  /\ valueStack' = PopAndPush(n, ListValue(Len(arena) + 1))
  /\ Continue
  /\ UNCHANGED <<arena, iteratorStack, slots, iterations, lookups>>

\* Push a new container of the given entries in place of n arguments.
ReplaceByContainer(n, entries) ==
  /\ arena' = Append(arena, entries)
  /\ valueStack' = PopAndPush(n, ListValue(Len(arena) + 1))
  /\ Continue
  /\ UNCHANGED <<iteratorStack, slots, iterations, lookups>>

NewMutableList ==
  /\ At("kNewMutableList")
  /\ ReplaceByContainer(0, <<>>)
  /\ mutableLists' = mutableLists \cup {Len(arena) + 1}

CreateList ==
  /\ At("kCreateList")
  /\ \/ ~HasEnough(Step.argc) /\ AbortStep("underflow")
     \/ /\ HasEnough(Step.argc)
        /\ LET args == Args(Step.argc) IN
           \/ ~Decidable(args) /\ Replace(Step.argc, Propagated(args))
           \/ /\ Decidable(args) /\ ~AnyUnknown(args)
              /\ ReplaceByContainer(Step.argc, ListEntries(args))
              /\ UNCHANGED mutableLists
           \/ Decidable(args) /\ AnyUnknown(args) /\ AbortStep("append")

IsMutableList(v) == v.kind = "list" /\ v.n \in mutableLists

\* The element is appended to the list in place: the list stays on the stack.
\* The builder refuses unknowns, which get here when they are not enabled.
MutableListAppend ==
  /\ At("kMutableListAppend")
  /\ \/ ~HasEnough(2) /\ AbortStep("underflow")
     \/ /\ HasEnough(2)
        /\ LET args == Args(2) IN
           \/ ~Decidable(args) /\ Replace(2, Propagated(args))
           \/ /\ Decidable(args)
              /\ IsMutableList(args[1]) /\ ~IsUnknown(args[2])
              /\ arena' = [arena EXCEPT ![args[1].n] =
                             Append(@, [key |-> IntValue(Len(@)), val |-> args[2]])]
              /\ valueStack' = Pop(1)
              /\ Continue
              /\ UNCHANGED <<iteratorStack, slots, mutableLists, iterations, lookups>>
           \/ /\ Decidable(args)
              /\ ~IsMutableList(args[1]) \/ IsUnknown(args[2])
              /\ AbortStep("append")

-----------------------------------------------------------------------------
(***************************************************************************)
(* The listener, and the beginning and the end of an evaluation.            *)
(***************************************************************************)
ListenerIsCalled == reported /\ pc # 0 /\ abortStatus = "ok" /\ valueStack # <<>>

ListenerUnchanged ==
  UNCHANGED <<request, reported, iterations, valueStack, iteratorStack, slots,
              heap, lookups>>

\* The listener accepts the value, or is not called for this step.
ListenerContinues ==
  /\ phase = "callback"
  /\ phase' = "run"
  /\ UNCHANGED control
  /\ ListenerUnchanged

ListenerFails ==
  /\ phase = "callback"
  /\ ListenerIsCalled
  /\ phase' = "run"
  /\ Abort("listener")
  /\ ListenerUnchanged

\* Mutant: the slots of the previous evaluation are kept.
ResetStacks ==
  /\ valueStack' = IF dirty THEN <<>> ELSE valueStack
  /\ iteratorStack' = IF dirty THEN <<>> ELSE iteratorStack
  /\ UNCHANGED slots

\* Mutant: the stacks of the previous evaluation are kept.
ResetSlots ==
  /\ slots' = IF dirty THEN [i \in SlotIndex |-> EmptySlot] ELSE slots
  /\ UNCHANGED <<valueStack, iteratorStack>>

\* FlatExpressionEvaluatorState::Reset.
Reset ==
  /\ valueStack' = IF dirty THEN <<>> ELSE valueStack
  /\ iteratorStack' = IF dirty THEN <<>> ELSE iteratorStack
  /\ slots' = IF dirty THEN [i \in SlotIndex |-> EmptySlot] ELSE slots

\* EvaluateWithCallback: the state is reset and bound to a new frame.
StartEvaluate(a, withListener) ==
  /\ phase = "idle"
  /\ evaluations < MaxEvaluations
  /\ Reset
  /\ dirty' = TRUE
  /\ activation' = a
  /\ arena' = a.arena
  /\ mutableLists' = {}
  /\ listening' = withListener
  /\ evaluations' = evaluations + 1
  /\ phase' = "run"
  /\ reported' = FALSE
  /\ pc' = 0
  /\ path' = 1
  /\ callStack' = <<>>
  /\ abortStatus' = "ok"
  /\ iterations' = 0
  /\ initialStackSize' = Len(valueStack')
  /\ outcome' = [status |-> "running", value |-> NullValue]
  /\ lookups' = [x \in Identifiers |-> 0]
  /\ UNCHANGED program

\* Evaluate, once Interpret has run out of steps.
EndEvaluate ==
  /\ phase = "run"
  /\ pc = Len(Code)
  /\ callStack = <<>>
  /\ phase' = "idle"
  /\ \/ /\ abortStatus # "ok"
        /\ outcome' = [status |-> abortStatus, value |-> NullValue]
        /\ UNCHANGED valueStack
     \/ /\ abortStatus = "ok"
        /\ Len(valueStack) # initialStackSize + 1
        /\ outcome' = [status |-> "stack", value |-> NullValue]
        /\ UNCHANGED valueStack
     \/ /\ abortStatus = "ok"
        /\ Len(valueStack) = initialStackSize + 1
        /\ outcome' = [status |-> "ok", value |-> Top]
        /\ valueStack' = Pop(1)
  /\ UNCHANGED <<program, activation, listening, dirty, initialStackSize, evaluations,
                 reported, control, iterations, iteratorStack, slots, heap, lookups>>

\* The caller has no further evaluation to make.
Terminated ==
  /\ phase = "idle"
  /\ evaluations = MaxEvaluations
  /\ UNCHANGED vars

Init ==
  /\ program \in DOMAIN ExpressionTable
  /\ activation = (CHOOSE a \in Activations : TRUE)
  /\ arena = activation.arena
  /\ mutableLists = {}
  /\ listening = FALSE
  /\ phase = "idle"
  /\ reported = FALSE
  /\ pc = 0
  /\ path = 1
  /\ callStack = <<>>
  /\ abortStatus = "ok"
  /\ iterations = 0
  /\ valueStack = <<>>
  /\ iteratorStack = <<>>
  /\ slots = [i \in SlotIndex |-> EmptySlot]
  /\ dirty = FALSE
  /\ initialStackSize = 0
  /\ outcome = [status |-> "none", value |-> NullValue]
  /\ evaluations = 0
  /\ lookups = [x \in Identifiers |-> 0]

EvaluateStep ==
  \/ Constant \/ Identifier \/ ReadSlot \/ LazyInit \/ AssignSlotAndPop \/ ClearSlotsStep
  \/ BoolJump("kBooleanOrJump", TRUE) \/ BoolJump("kBooleanAndJump", FALSE)
  \/ TernaryJump \/ FixedJump \/ BooleanNot \/ NotStrictlyFalse \/ BooleanOr
  \/ BooleanAnd \/ Ternary
  \/ ComprehensionInit \/ ComprehensionNext1 \/ ComprehensionNext2
  \/ ComprehensionCond1 \/ ComprehensionCond2 \/ ComprehensionFinish
  \/ EagerFunction \/ LazyFunction \/ FastEqual \/ FastNotEqual \/ FastIn
  \/ NewMutableList \/ CreateList \/ MutableListAppend

Interpret == EvaluateStep \/ Return \/ ListenerContinues \/ ListenerFails \/ EndEvaluate

Next ==
  \/ \E a \in Activations, withListener \in ListenerChoices : StartEvaluate(a, withListener)
  \/ Interpret
  \/ Terminated

Spec == Init /\ [][Next]_vars

(***************************************************************************)
(* A thread inside Evaluate keeps running its loop; nothing obliges the     *)
(* caller to evaluate again.                                                *)
(***************************************************************************)
FairSpec == Spec /\ WF_vars(Interpret)

-----------------------------------------------------------------------------
Frame == [pc : Nat, path : DOMAIN P.paths, slot : SlotIndex, expected : Nat, iters : Nat]

RequestOK ==
  /\ program \in DOMAIN ExpressionTable
  /\ activation \in Activations
  /\ Len(activation.arena) <= Len(arena)
  /\ listening \in BOOLEAN /\ reported \in BOOLEAN /\ dirty \in BOOLEAN
  /\ phase \in {"idle", "run", "callback"}
  /\ initialStackSize \in Nat
  /\ evaluations \in 0 .. MaxEvaluations
  /\ outcome \in [status : AbortStatuses \cup {"none", "running"},
                  value : ValueIn(Len(arena))]

ControlOK ==
  /\ path \in DOMAIN P.paths
  /\ pc \in 0 .. Len(Code)
  /\ callStack \in Seq(Frame)
  /\ abortStatus \in AbortStatuses

DataOK ==
  /\ ArenaOK(arena)
  /\ mutableLists \in SUBSET (1 .. Len(arena))
  /\ iterations \in Nat
  /\ valueStack \in Seq(ValueIn(Len(arena)))
  /\ iteratorStack \in Seq(IteratorEntry(Len(arena)))
  /\ slots \in [SlotIndex -> SlotIn(Len(arena))]
  /\ lookups \in [Identifiers -> Nat]

\* The variables of the machine have their types, and no value held anywhere
\* refers to a container outside the current arena.
TypeOK == RequestOK /\ ControlOK /\ DataOK

\* Where Abort leaves the frame: at the end of the main expression, so that
\* Next finds no step and no caller to return to.
AbortedAtEnd ==
  (phase # "idle" /\ abortStatus # "ok") =>
    callStack = <<>> /\ path = 1 /\ pc = Len(P.paths[1])

\* Once an evaluation has aborted, in whatever subexpression and with whatever
\* loops running, nothing more is evaluated, looked up or written, the listener
\* is not called again, and the caller is told the first failure (Abort, which
\* leaves the frame at the end of the main expression, and Evaluate).
AbortIsFinal ==
  [][(phase # "idle" /\ abortStatus # "ok") =>
       /\ UNCHANGED <<abortStatus, iterations, valueStack, iteratorStack, slots, heap, lookups>>
       /\ phase' = "idle" => outcome'.status = abortStatus]_vars

(***************************************************************************)
(* The slots a program clears: by the step itself, or when the loop that it *)
(* begins moves on or ends (iter2 is 0 in a loop over one variable).        *)
(***************************************************************************)
ClearedBy(step) ==
  CASE step.op = "kClearSlots" -> step.slot .. step.slot + step.argc - 1
    [] step.op = "kComprehensionInit" ->
         IF step.v2 THEN step.slot .. step.slot + 2 ELSE {step.slot, 0, step.slot + 1}
    [] step.op = "kComprehensionFinish" -> {step.slot}
    [] OTHER -> {}

StepsOf(p)      == UNION {{p.paths[k][j] : j \in DOMAIN p.paths[k]} : k \in DOMAIN p.paths}
ClearedSlots(p) == UNION {ClearedBy(s) : s \in StepsOf(p)}

\* An identifier has one slot, which no step clears.
IdentifiersKeepSlots(p) ==
  \A s \in StepsOf(p) : s.op = "kIdentifier" =>
    /\ s.slot \notin ClearedSlots(p)
    /\ \A t \in StepsOf(p) : (t.op = "kIdentifier" /\ t.name = s.name) => t.slot = s.slot

\* In one evaluation the activation is asked for an identifier at most once,
\* also when a loop or a lazily initialised subexpression refers to it again:
\* the identifier's slot (LookupIdent) survives until the state is reset.
LookedUpAtMostOnce == \A x \in Identifiers : lookups[x] <= 1

\* The iterations the k outermost of the running loops have taken.
IterationsTaken ==
  LET taken[k \in 0 .. Len(iteratorStack)] ==
        IF k = 0 THEN 0 ELSE taken[k - 1] + iteratorStack[k].pos
  IN  taken

\* The iteration budget is one for the whole evaluation: what the running
\* loops, nested and in lazily initialised subexpressions, have taken together
\* stays within it (IncrementIterations).
BudgetIsGlobal ==
  P.maxIterations # 0 => IterationsTaken[Len(iteratorStack)] <= P.maxIterations
=============================================================================
