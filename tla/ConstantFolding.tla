-------------------------- MODULE ConstantFolding --------------------------
(***************************************************************************)
(* ConstantFoldingExtension (eval/compiler/constant_folding.cc): which      *)
(* nodes the planner evaluates itself, and what it replaces their steps by. *)
(*                                                                         *)
(* The nodes that can be folded have no jumps, slots or identifiers in      *)
(* their steps, so the extension's own evaluation of them is a straight     *)
(* line over a stack of values.                                             *)
(***************************************************************************)
EXTENDS ExpressionStep, SequencesExt

CONSTANT Functions   \* name -> [lazy, eager]: the overloads of the registry

OfArity(overloads, argc) == SelectSeq(overloads, LAMBDA o : Len(o.kinds) = argc)

\* Whether a node is constant when its children are.
IsConstExpr(e) ==
  \/ e.t = "const"
  \/ e.t = "list" /\ e.args # <<>>
  \/ /\ e.t = "call"
     /\ e.name \notin {"_&&_", "_||_", "_?_:_", "cel.@block"}
     /\ e.name \in DOMAIN Functions =>
          OfArity(Functions[e.name].lazy, Len(e.args)) = <<>>

\* What a step makes of its arguments; a status other than ok ends the line.
Ok(v) == [ok |-> TRUE, value |-> v]

\* Scalars only: whether they are equal, with errors and unknowns first.
Compared(args, result, opt) ==
  IF AnyError(args) THEN FirstError(args)
  ELSE IF ~AnyUnknown(args) THEN result
  ELSE IF opt.unknowns # "disabled" THEN MergeUnknowns(args)
  ELSE ErrorValue(kNoMatchingOverload)

Called(overloads, args, opt) ==
  LET accepted == {o \in ResolveStatic(overloads, args) : ShouldAcceptOverload(o, args)}
  IN  IF accepted = {} THEN Ok(NoOverloadResult(args, opt.unknowns # "disabled"))
      ELSE Invoke((CHOOSE o \in accepted : TRUE).impl, args, <<>>,
                  opt.unknowns = "attribute_and_function")

StepResult(step, args, opt) ==
  CASE step.op = "kConstant"    -> Ok(step.value)
    [] step.op = "kBooleanNot"  -> Ok(NotResult(args[1]))
    [] step.op = "kNotStrictlyFalse" -> Ok(NotStrictlyFalseResult(args[1]))
    [] step.op = "kFastEqual"   -> Ok(Compared(args, BoolValue(args[1] = args[2]), opt))
    [] step.op = "kFastNotEqual" -> Ok(Compared(args, BoolValue(args[1] # args[2]), opt))
    [] step.op = "kFastIn"      -> Ok(Compared(args, ErrorValue(kNoMatchingOverload), opt))
    [] step.op = "kEagerFunction" -> Called(step.overloads, args, opt)

\* A step leaves one value in place of its arguments.
Popped(step) == 1 - StackDelta(step)

\* The evaluation of a subplan with an empty activation.
Evaluate(code, opt) ==
  LET run(acc, step) ==
        IF ~acc.ok THEN acc
        ELSE LET rest == Len(acc.stack) - Popped(step)
                 res  == StepResult(step, SubSeq(acc.stack, rest + 1, Len(acc.stack)), opt)
             IN  [ok |-> res.ok, stack |-> Append(SubSeq(acc.stack, 1, rest), res.value)]
  IN  FoldLeft(run, [ok |-> TRUE, stack |-> <<>>], code)

(***************************************************************************)
(* A list is no constant of the model, whose steps hold scalars: ListValue  *)
(* of 0 stands for one, and no program with such a step is run.             *)
(***************************************************************************)
MakesList(code) ==
  \E i \in DOMAIN code : code[i].op = "kCreateList" \/ IsContainer(code[i].value)

Folded(code, opt) ==
  LET done == Evaluate(code, opt)
      constant(v) == <<[NodeStep("kConstant") EXCEPT !.value = v]>>
  IN  IF code = <<>> THEN code
      ELSE IF MakesList(code) THEN constant(ListValue(0))
      ELSE IF ~done.ok \/ IsUnknown(Last(done.stack)) THEN code
      ELSE constant(Last(done.stack))
=============================================================================
