-------------------------- MODULE ExpressionStep ---------------------------
(***************************************************************************)
(* The instructions of the stack machine (ExpressionStep, a tagged union in *)
(* eval/eval/evaluator_core.h) and the planned expression they make up.     *)
(***************************************************************************)
EXTENDS FunctionStep

StepKinds ==
  {"kConstant", "kIdentifier", "kReadSlot", "kLazyInit", "kAssignSlotAndPop",
   "kClearSlots", "kBooleanNot", "kNotStrictlyFalse", "kBooleanOr", "kBooleanAnd",
   "kBooleanOrJump", "kBooleanAndJump", "kTernaryJump", "kFixedJump", "kTernary",
   "kComprehensionInit", "kComprehensionNext", "kComprehensionNext2",
   "kComprehensionCond", "kComprehensionCond2", "kComprehensionFinish",
   "kEagerFunction", "kLazyFunction", "kFastEqual", "kFastNotEqual", "kFastIn",
   "kNewMutableList", "kMutableListAppend", "kCreateList"}

(***************************************************************************)
(* A step carries the operands of its kind; the others have a default.      *)
(*   slot      the (first) slot, the iter slot of kComprehensionInit        *)
(*   argc      arguments on the stack, or slots to clear                    *)
(*   sub       subexpression of kLazyInit                                   *)
(*   v2        the comprehension has two iteration variables                *)
(*   offset    jump; error jump of kTernaryJump and kComprehensionInit      *)
(*   offset2   second branch of kTernaryJump, error jump of the cond steps  *)
(*   ast       the step maps to an AST node, so a listener hears of it      *)
(***************************************************************************)
StepRecord ==
  [op : StepKinds, slot : Nat, argc : Nat, sub : Nat, offset : Int, offset2 : Int,
   v2 : BOOLEAN, ast : BOOLEAN, name : STRING, value : ValueIn(0),
   overloads : Seq(Overload)]

FlatExpression ==
  [paths : Seq(Seq(StepRecord)), slotCount : Nat, valueStackSize : Nat,
   iteratorStackSize : Nat, shortCircuiting : BOOLEAN, maxIterations : Nat,
   unknowns : {"disabled", "attribute", "attribute_and_function"}]

-----------------------------------------------------------------------------
\* The Make*Step factories: only the operands of the kind are given.
NewStep(op) ==
  [op |-> op, slot |-> 0, argc |-> 0, sub |-> 0, offset |-> 0, offset2 |-> 0,
   v2 |-> FALSE, ast |-> FALSE, name |-> "", value |-> NullValue, overloads |-> <<>>]

\* A step made for an AST node: it carries the node's id.
NodeStep(op) == [NewStep(op) EXCEPT !.ast = TRUE]

(***************************************************************************)
(* StackDelta: how a step changes the height of the value stack, taken by   *)
(* the planner as if the steps ran in a straight line.                      *)
(***************************************************************************)
StackDelta(step) ==
  CASE step.op \in {"kConstant", "kLazyInit", "kReadSlot", "kIdentifier",
                    "kNewMutableList", "kComprehensionInit"} -> 1
    [] step.op \in {"kAssignSlotAndPop", "kComprehensionFinish", "kComprehensionNext",
                    "kComprehensionNext2", "kComprehensionCond", "kComprehensionCond2",
                    "kFastIn", "kFastEqual", "kFastNotEqual", "kMutableListAppend"} -> -1
    [] step.op \in {"kBooleanOr", "kBooleanAnd", "kEagerFunction", "kLazyFunction",
                    "kCreateList"} -> 1 - step.argc
    [] step.op = "kTernary" -> -2
    [] OTHER -> 0

-----------------------------------------------------------------------------
\* What the steps of ! and @not_strictly_false make of their argument.
NotResult(v) ==
  CASE IsBool(v) -> BoolValue(v.n = 0)
    [] IsError(v) \/ IsUnknown(v) -> v
    [] OTHER -> ErrorValue(kNoMatchingOverload)

NotStrictlyFalseResult(v) ==
  CASE IsBool(v) -> v
    [] IsError(v) \/ IsUnknown(v) -> BoolValue(TRUE)
    [] OTHER -> ErrorValue(kNoMatchingOverload)
=============================================================================
