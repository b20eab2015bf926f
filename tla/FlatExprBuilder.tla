-------------------------- MODULE FlatExprBuilder --------------------------
(***************************************************************************)
(* The planner (eval/compiler/flat_expr_builder.cc and ProgramBuilder of    *)
(* flat_expr_builder_extensions.cc): from an AST to a FlatExpression.       *)
(*                                                                         *)
(* The visitor emits the steps of a node after those of its children,       *)
(* works out the jump offsets, maps comprehension and cel.bind variables to *)
(* slots that are released and reused with the scopes, extracts the         *)
(* initialisers of cel.bind and cel.@block into subexpressions, and sizes   *)
(* the value and iterator stacks of the evaluator state.                    *)
(*                                                                         *)
(* Every node is a record of the same shape:                                *)
(*   t in {"const", "ident", "call", "list", "compr"}                       *)
(*   name   the identifier or the function                                  *)
(*   args   arguments, elements, or <<iter_range, accu_init, loop_condition,*)
(*          loop_step, result>> of a comprehension with the variables iter, *)
(*          iter2 ("" when there is one) and accu                           *)
(***************************************************************************)
EXTENDS ConstantFolding

CONSTANTS
  MacroAccuVars,  \* accumulator names that start with "@"
  BlockIndexes    \* name of the form @index<i> -> i

\* The visitor's state: IndexManager, extracted subexpressions, identifier
\* table, comprehension stack, cel.@block, the optimizer's is_const_ stack and
\* progress_status.
NoBlock ==
  [seen |-> FALSE, in |-> FALSE, index |-> 0, size |-> 0, slotCount |-> 0, subs |-> <<>>]

InitialVisitor ==
  [nextFreeSlot |-> 0, maxSlotCount |-> 0, iterStack |-> 0, maxIterStack |-> 0,
   lazyIterStack |-> 0, extracted |-> <<>>, identifiers |-> <<>>, scopes |-> <<>>,
   block |-> NoBlock, isConst |-> <<>>, ok |-> TRUE]

\* What a visit returns: the node's steps, flattened, and the visitor after it.
Out(code, st) == [code |-> code, st |-> st]

ReserveSlots(st, n) ==
  [st EXCEPT !.nextFreeSlot = @ + n, !.maxSlotCount = Max({@, st.nextFreeSlot + n})]

ReleaseSlots(st, n) == [st EXCEPT !.nextFreeSlot = @ - n]

ReserveIterStack(st) ==
  [st EXCEPT !.iterStack = @ + 1, !.maxIterStack = Max({@, st.iterStack + 1})]

\* Mutant: the loops of lazily initialised subexpressions are not counted.
IterStackRequirementEager(st) == st.maxIterStack

IterStackRequirement(st) == st.maxIterStack + st.lazyIterStack

\* ExtractSubexpression: the position of the extracted code, from 1.
Extract(code, st) == [st EXCEPT !.extracted = Append(@, code)]

-----------------------------------------------------------------------------
IsConst(e, v) == e.t = "const" /\ e.val = v
IsIdent(e, x) == e.t = "ident" /\ e.name = x
IsEmptyList(e) == e.t = "list" /\ e.args = <<>>
IsCall(e, f, n) == e.t = "call" /\ e.name = f /\ Len(e.args) = n

IsBind(c) ==
  /\ IsConst(c.args[3], BoolValue(FALSE))
  /\ c.iter = "#unused" /\ c.iter2 = ""
  /\ IsEmptyList(c.args[1])

\* accu_var + [elem]
IsListAppend(e, accu) ==
  /\ IsCall(e, "_+_", 2)
  /\ IsIdent(e.args[1], accu)
  /\ e.args[2].t = "list" /\ Len(e.args[2].args) = 1

\* The loop step of map() appends; that of filter() appends in a ternary.
IsOptimizableListAppend(c, opt) ==
  /\ opt.listAppend
  /\ c.accu \in MacroAccuVars
  /\ IsIdent(c.args[5], c.accu)
  /\ IsEmptyList(c.args[2])
  /\ \/ IsListAppend(c.args[4], c.accu)
     \/ /\ opt.shortCircuiting
        /\ IsCall(c.args[4], "_?_:_", 3)
        /\ IsListAppend(c.args[4].args[2], c.accu)
        /\ IsIdent(c.args[4].args[3], c.accu)

-----------------------------------------------------------------------------
(***************************************************************************)
(* Variables.                                                               *)
(***************************************************************************)
NotFound == [slot |-> -1, sub |-> 0, ok |-> TRUE]

\* The innermost scope that binds the name; a block's @index names come first.
LookupSlot(name, st) ==
  LET block == st.block
      binds(s) == \/ s.iterInScope /\ name \in {s.iter, s.iter2}
                  \/ s.accuInScope /\ name = s.accu
      found == {i \in DOMAIN st.scopes : binds(st.scopes[i])}
      s == st.scopes[Max(found)]
  IN  IF block.in /\ name \in DOMAIN BlockIndexes
      THEN LET i == BlockIndexes[name] IN
           IF i < Len(block.subs)
           THEN [slot |-> block.index + i, sub |-> block.subs[i + 1], ok |-> TRUE]
           ELSE [NotFound EXCEPT !.ok = FALSE]   \* current or future binding
      ELSE IF found = {} THEN NotFound
      ELSE IF s.iterInScope /\ name = s.iter
           THEN IF s.isBind THEN NotFound ELSE [NotFound EXCEPT !.slot = s.iterSlot]
      ELSE IF s.iterInScope /\ name = s.iter2
           THEN [NotFound EXCEPT !.slot = s.iterSlot + 1]
      ELSE [NotFound EXCEPT !.slot = s.accuSlot, !.sub = s.sub]

\* A subexpression of one constant or identifier step can be inlined.
IsInlinable(code) == Len(code) = 1 /\ code[1].op \in {"kConstant", "kIdentifier"}

AddOrUpdateIdentifier(name, st) ==
  IF Contains(st.identifiers, name) THEN st
  ELSE [st EXCEPT !.identifiers = Append(@, name)]

PostVisitIdent(name, st, opt) ==
  LET found == LookupSlot(name, st)
      added == AddOrUpdateIdentifier(name, st)
  IN  IF ~found.ok THEN Out(<<>>, [st EXCEPT !.ok = FALSE])
      ELSE IF found.sub > 0
           THEN IF opt.inlining /\ IsInlinable(st.extracted[found.sub])
                THEN Out(<<[st.extracted[found.sub][1] EXCEPT !.ast = TRUE]>>, st)
                ELSE Out(<<[NodeStep("kLazyInit") EXCEPT !.slot = found.slot,
                                                         !.sub = found.sub + 1]>>, st)
      ELSE IF found.slot >= 0
           THEN Out(<<[NodeStep("kReadSlot") EXCEPT !.slot = found.slot]>>, st)
      ELSE Out(<<[NodeStep("kIdentifier") EXCEPT !.name = name]>>, added)

-----------------------------------------------------------------------------
(***************************************************************************)
(* Jump layouts.  Offsets count the steps from after the jump.              *)
(***************************************************************************)
StepCount(codes) == Len(FlattenSeq(codes))

\* LogicalCondVisitor: after each argument but the last, a jump past the
\* operator, over the arguments that follow and the step behind each.
LogicalCode(isOr, codes, opt) ==
  LET n == Len(codes)
      jump(i) == [NewStep(IF isOr THEN "kBooleanOrJump" ELSE "kBooleanAndJump") EXCEPT
                    !.argc = i,
                    !.offset = StepCount(SubSeq(codes, i + 1, n)) + (n - i)]
      op == [NodeStep(IF isOr THEN "kBooleanOr" ELSE "kBooleanAnd") EXCEPT !.argc = n]
  IN  FlattenSeq([i \in 1 .. n |->
        codes[i] \o (IF i = n THEN <<op>>
                     ELSE IF opt.shortCircuiting THEN <<jump(i)>> ELSE <<>>)])

\* TernaryCondVisitor and ExhaustiveTernaryCondVisitor.
TernaryCode(codes, opt) ==
  LET jump == [NewStep("kTernaryJump") EXCEPT
                 !.offset2 = Len(codes[2]) + 1,
                 !.offset = Len(codes[2]) + 1 + Len(codes[3])]
      over == [NewStep("kFixedJump") EXCEPT !.offset = Len(codes[3])]
  IN  IF opt.shortCircuiting
      THEN codes[1] \o <<jump>> \o codes[2] \o <<over>> \o codes[3]
      ELSE FlattenSeq(codes) \o <<NodeStep("kTernary")>>

\* ComprehensionVisitor::PostVisitArgDefault.
ComprehensionCode(codes, iterSlot, accuSlot, two) ==
  LET body   == Len(codes[3]) + 1 + Len(codes[4]) + 1       \* after next, to the result
      finish == Len(codes[5]) + 1
      init == [NewStep("kComprehensionInit") EXCEPT
                 !.slot = iterSlot, !.v2 = two,
                 !.offset = Len(codes[2]) + 1 + body + finish]
      next == [NewStep(IF two THEN "kComprehensionNext2" ELSE "kComprehensionNext") EXCEPT
                 !.offset = body, !.offset2 = body + finish]
      cond == [NewStep(IF two THEN "kComprehensionCond2" ELSE "kComprehensionCond") EXCEPT
                 !.offset = Len(codes[4]) + 1,
                 !.offset2 = Len(codes[4]) + 1 + finish]
      again == [NewStep("kFixedJump") EXCEPT !.offset = -(body + 1)]
      done == [NodeStep("kComprehensionFinish") EXCEPT !.slot = accuSlot]
  IN  codes[1] \o <<init>> \o codes[2] \o <<next>> \o codes[3] \o <<cond>>
        \o codes[4] \o <<again>> \o codes[5] \o <<done>>

\* AddResolvedFunctionStep: lazy overloads shadow eager ones.
FunctionCallStep(name, argc) ==
  LET lazy == OfArity(Functions[name].lazy, argc)
  IN  IF lazy # <<>>
      THEN [NodeStep("kLazyFunction") EXCEPT !.argc = argc, !.overloads = lazy]
      ELSE [NodeStep("kEagerFunction") EXCEPT !.argc = argc,
              !.overloads = OfArity(Functions[name].eager, argc)]

\* The calls that have a step of their own.
Builtins ==
  ("!_" :> "kBooleanNot") @@ ("@not_strictly_false" :> "kNotStrictlyFalse")
  @@ ("_==_" :> "kFastEqual") @@ ("_!=_" :> "kFastNotEqual") @@ ("@in" :> "kFastIn")

CallStep(name, argc) ==
  IF name \in DOMAIN Builtins THEN NodeStep(Builtins[name]) ELSE FunctionCallStep(name, argc)

-----------------------------------------------------------------------------
(***************************************************************************)
(* Comprehension scopes.                                                    *)
(***************************************************************************)
\* Inside a block, or inside the initialiser of a bind, the slots are kept
\* until the block or the outermost such bind ends.
PreVisitComprehension(c, st) ==
  LET isBind == IsBind(c)
      count  == IF isBind THEN 1 ELSE IF c.iter2 = "" THEN 2 ELSE 3
      owners == {i \in DOMAIN st.scopes : st.scopes[i].inAccuInit /\ st.scopes[i].isBind}
      toBlock == IF st.block.in THEN count ELSE 0
      toBind == IF owners # {} THEN count - toBlock ELSE 0
      first  == st.nextFreeSlot
      releasable == ~isBind /\ owners = {} /\ ~st.block.in
      scope  == [iter |-> c.iter, iter2 |-> c.iter2, accu |-> c.accu,
                 iterSlot |-> first, accuSlot |-> first + count - 1,
                 slotCount |-> count - toBlock - toBind, sub |-> 0,
                 isBind |-> isBind, releasable |-> releasable,
                 iterInScope |-> FALSE, accuInScope |-> FALSE, inAccuInit |-> FALSE]
      reserved == ReserveSlots(st, count)
      iters  == IF releasable THEN ReserveIterStack(reserved)
                ELSE IF isBind THEN reserved
                ELSE [reserved EXCEPT !.lazyIterStack = @ + 1]
  IN  [iters EXCEPT
         !.block.slotCount = @ + toBlock,
         !.scopes = Append(IF owners = {} THEN @
                           ELSE [@ EXCEPT ![Min(owners)].slotCount = @ + toBind], scope)]

PostVisitComprehension(st) ==
  LET scope == Last(st.scopes) IN
  [ReleaseSlots(st, scope.slotCount) EXCEPT
     !.iterStack = IF scope.releasable THEN @ - 1 ELSE @,
     !.scopes = Front(@)]

\* PreVisitComprehensionSubexpression: which variables the part may refer to.
EnterPart(part, st) ==
  [st EXCEPT !.scopes[Len(st.scopes)] =
     [@ EXCEPT !.inAccuInit = part = 2,
               !.iterInScope = part \in {3, 4},
               !.accuInScope = part \in {3, 4, 5}]]

-----------------------------------------------------------------------------
(***************************************************************************)
(* PreVisitExpr and PostVisitExpr around every node: the constant folding   *)
(* optimizer, when there is one.  A node that is not constant makes its     *)
(* parent none, unless it is an identifier that stands for a constant.      *)
(***************************************************************************)
PreVisitExpr(e, st, opt) ==
  IF opt.constantFolding THEN [st EXCEPT !.isConst = Append(@, IsConstExpr(e))] ELSE st

IsInlinedConst(e, code, opt) ==
  opt.inlining /\ e.t = "ident" /\ Len(code) = 1 /\ code[1].op = "kConstant"

ParentNotConst(flags) == IF flags = <<>> THEN flags ELSE [flags EXCEPT ![Len(flags)] = FALSE]

PostVisitExpr(e, out, opt) ==
  LET popped == [out.st EXCEPT !.isConst = Front(@)]
  IN  IF ~opt.constantFolding THEN out
      ELSE IF Last(out.st.isConst) THEN Out(Folded(out.code, opt), popped)
      ELSE IF IsInlinedConst(e, out.code, opt) THEN Out(out.code, popped)
      ELSE Out(out.code, [popped EXCEPT !.isConst = ParentNotConst(@)])

RECURSIVE Visit(_, _, _), VisitAll(_, _, _)

\* Nodes in order: the steps of each, and the visitor after the last.
VisitAll(es, st, opt) ==
  IF es = <<>> THEN [codes |-> <<>>, st |-> st]
  ELSE LET head == Visit(Head(es), st, opt)
           rest == VisitAll(Tail(es), head.st, opt)
       IN  [codes |-> <<head.code>> \o rest.codes, st |-> rest.st]

VisitPart(c, part, st, opt) == Visit(c.args[part], EnterPart(part, st), opt)

\* accu_var + [elem] without the list around elem.
VisitListAppend(e, st, opt) ==
  LET out == VisitAll(<<e.args[1], e.args[2].args[1]>>, st, opt)
  IN  Out(FlattenSeq(out.codes) \o <<NodeStep("kMutableListAppend")>>, out.st)

VisitLoopStep(c, st, opt) ==
  LET step == c.args[4]
      in == EnterPart(4, st)
  IN  IF ~IsOptimizableListAppend(c, opt) THEN Visit(step, in, opt)
      ELSE IF step.name = "_+_" THEN VisitListAppend(step, in, opt)
      ELSE LET cond   == Visit(step.args[1], in, opt)
               append == VisitListAppend(step.args[2], cond.st, opt)
               accu   == Visit(step.args[3], append.st, opt)
           IN  Out(TernaryCode(<<cond.code, append.code, accu.code>>, opt), accu.st)

\* ComprehensionVisitor::PostVisitArgTrivial: the initialiser is extracted.
VisitBind(c, st, opt) ==
  LET init == VisitPart(c, 2, PreVisitComprehension(c, st), opt)
      kept == Extract(init.code, init.st)
      body == VisitPart(c, 5, [kept EXCEPT
                !.scopes[Len(kept.scopes)].sub = Len(kept.extracted)], opt)
      clear == [NodeStep("kClearSlots") EXCEPT
                  !.slot = Last(body.st.scopes).accuSlot, !.argc = 1]
  IN  Out(Append(body.code, clear), PostVisitComprehension(body.st))

VisitComprehension(c, st, opt) ==
  LET range  == VisitPart(c, 1, PreVisitComprehension(c, st), opt)
      init   == IF IsOptimizableListAppend(c, opt)
                THEN Out(<<NodeStep("kNewMutableList")>>, range.st)
                ELSE VisitPart(c, 2, range.st, opt)
      cond   == VisitPart(c, 3, init.st, opt)
      step   == VisitLoopStep(c, cond.st, opt)
      result == VisitPart(c, 5, step.st, opt)
      scope  == Last(result.st.scopes)
  IN  Out(ComprehensionCode(<<range.code, init.code, cond.code, step.code, result.code>>,
                            scope.iterSlot, scope.accuSlot, c.iter2 # ""),
          PostVisitComprehension(result.st))

\* The bindings of a block: each is extracted before the next is visited.
RECURSIVE VisitBindings(_, _, _)
VisitBindings(bindings, st, opt) ==
  IF bindings = <<>> THEN st
  ELSE LET out  == Visit(Head(bindings), st, opt)
           kept == Extract(out.code, out.st)
       IN  VisitBindings(Tail(bindings),
                         [kept EXCEPT !.block.subs = Append(@, Len(kept.extracted))], opt)

\* cel.@block: each binding is extracted, then the bound expression.
VisitBlock(e, st, opt) ==
  LET n     == Len(e.args[1].args)
      begin == [ReserveSlots(st, n) EXCEPT
                  !.ok = @ /\ ~st.block.seen,
                  !.block = [seen |-> TRUE, in |-> TRUE, index |-> st.nextFreeSlot,
                             size |-> n, slotCount |-> n, subs |-> <<>>]]
      bound == Visit(e.args[2], VisitBindings(e.args[1].args, begin, opt), opt)
      block == bound.st.block
      clear == [NodeStep("kClearSlots") EXCEPT !.slot = block.index, !.argc = block.slotCount]
  IN  Out(IF block.slotCount > 0 THEN Append(bound.code, clear) ELSE bound.code,
          [ReleaseSlots(bound.st, block.slotCount) EXCEPT !.block.in = FALSE])

VisitCall(e, st, opt) ==
  LET out == VisitAll(e.args, st, opt) IN
  CASE e.name \in {"_&&_", "_||_"} -> Out(LogicalCode(e.name = "_||_", out.codes, opt), out.st)
    [] e.name = "_?_:_" -> Out(TernaryCode(out.codes, opt), out.st)
    [] e.name = "cel.@block" -> VisitBlock(e, st, opt)
    [] OTHER -> Out(Append(FlattenSeq(out.codes), CallStep(e.name, Len(e.args))), out.st)

VisitNode(e, st, opt) ==
  CASE e.t = "const" -> Out(<<[NodeStep("kConstant") EXCEPT !.value = e.val]>>, st)
    [] e.t = "ident" -> PostVisitIdent(e.name, st, opt)
    [] e.t = "call"  -> VisitCall(e, st, opt)
    [] e.t = "list"  ->
         LET out == VisitAll(e.args, st, opt)
         IN  Out(Append(FlattenSeq(out.codes),
                        [NodeStep("kCreateList") EXCEPT !.argc = Len(e.args)]), out.st)
    [] e.t = "compr" -> IF IsBind(e) THEN VisitBind(e, st, opt)
                                     ELSE VisitComprehension(e, st, opt)

Visit(e, st, opt) == PostVisitExpr(e, VisitNode(e, PreVisitExpr(e, st, opt), opt), opt)

-----------------------------------------------------------------------------
(***************************************************************************)
(* CreateExpressionImpl.                                                    *)
(***************************************************************************)
PathDepths(code) ==
  LET depth[i \in 0 .. Len(code)] == IF i = 0 THEN 0 ELSE depth[i - 1] + StackDelta(code[i])
  IN  {depth[i] : i \in 0 .. Len(code)}

\* The sum of the paths' straight-line maxima, or all steps if one dips below 0.
EstimateMaxStackSize(paths) ==
  LET total[i \in 0 .. Len(paths)] ==
        IF i = 0 THEN 0 ELSE total[i - 1] + Max(PathDepths(paths[i]))
  IN  IF \A i \in DOMAIN paths : PathDepths(paths[i]) \subseteq Nat
      THEN total[Len(paths)]
      ELSE StepCount(paths)

\* Identifiers get the slots after those of the local variables.
IdentifierSlot(name, st) ==
  st.maxSlotCount + (CHOOSE i \in DOMAIN st.identifiers : st.identifiers[i] = name) - 1

ResolveIdentifiers(code, st) ==
  LET resolve(resolved, step) ==
        Append(resolved, IF step.op = "kIdentifier"
                         THEN [step EXCEPT !.slot = IdentifierSlot(step.name, st)]
                         ELSE step)
  IN  FoldLeft(resolve, <<>>, code)

Planned(ast, opt) == Visit(ast, InitialVisitor, opt).st.ok

\* The planned expression, from what the visitor left: the code of the root
\* and the extracted subexpressions.
FlattenedExpression(paths, st, opt) ==
  [paths |-> <<>> \o [i \in DOMAIN paths |-> ResolveIdentifiers(paths[i], st)],
   slotCount |-> st.maxSlotCount + Len(st.identifiers),
   valueStackSize |-> EstimateMaxStackSize(paths),
   iteratorStackSize |-> IterStackRequirement(st),
   shortCircuiting |-> opt.shortCircuiting,
   maxIterations |-> opt.maxIterations,
   unknowns |-> opt.unknowns]

AllPaths(out) == <<out.code>> \o out.st.extracted

FinishExpression(out, opt) == FlattenedExpression(AllPaths(out), out.st, opt)

CreateExpression(ast, opt) == FinishExpression(Visit(ast, InitialVisitor, opt), opt)
=============================================================================
