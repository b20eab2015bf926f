-------------------------- MODULE StackDiscipline --------------------------
(***************************************************************************)
(* Why a planned program never underflows or overruns the evaluator's       *)
(* stacks.  The steps of a path move the heights of the value stack and of  *)
(* the iterator stack by amounts that depend on the branch taken (Edges).   *)
(* A certificate gives each position of each path one pair of heights that  *)
(* all branches into it agree on, and each path the most it adds to the     *)
(* stacks, the subexpressions it calls included.  The machine then keeps    *)
(* to the certificate (StackInv), whatever the values are.                  *)
(*                                                                         *)
(* The evaluator has no such check: the stacks are reserved once with the   *)
(* sizes the planner computed, and Push trusts them (ABSL_DCHECK(!full())). *)
(***************************************************************************)
EXTENDS EvaluatorCore

CONSTANT Certificates   \* index of a program -> its certificate

CertificateTable == Certificates

\* Values a step needs on the stack, and iterators.
ValuesNeeded(step) ==
  CASE step.op \in {"kAssignSlotAndPop", "kTernaryJump", "kBooleanNot", "kNotStrictlyFalse",
                    "kComprehensionInit"} -> 1
    [] step.op \in {"kComprehensionNext", "kComprehensionNext2", "kComprehensionCond",
                    "kComprehensionCond2", "kComprehensionFinish", "kFastEqual",
                    "kFastNotEqual", "kFastIn", "kMutableListAppend"} -> 2
    [] step.op \in {"kBooleanOr", "kBooleanAnd", "kBooleanOrJump", "kBooleanAndJump",
                    "kEagerFunction", "kLazyFunction", "kCreateList"} -> step.argc
    [] step.op = "kTernary" -> 3
    [] OTHER -> 0

IteratorsNeeded(step) ==
  IF step.op \in {"kComprehensionNext", "kComprehensionNext2", "kComprehensionCond",
                  "kComprehensionCond2", "kComprehensionFinish"} THEN 1 ELSE 0

\* A jump by offset from position q, with the heights it leaves.
Edge(q, offset, values, iters) == [pc |-> q + 1 + offset, depth |-> values, iters |-> iters]

\* Where a step at position q can lead from heights d and i.
Edges(step, q, d, i) ==
  LET to(offset, values, iters) == Edge(q, offset, values, iters)
  IN  CASE step.op \in {"kConstant", "kIdentifier", "kReadSlot", "kLazyInit",
                        "kNewMutableList"} -> {to(0, d + 1, i)}
        [] step.op = "kAssignSlotAndPop" -> {to(0, d - 1, i)}
        [] step.op \in {"kClearSlots", "kBooleanNot", "kNotStrictlyFalse"} -> {to(0, d, i)}
        [] step.op \in {"kBooleanOrJump", "kBooleanAndJump"} ->
             {to(0, d, i), to(step.offset, d - step.argc + 1, i)}
        [] step.op = "kTernaryJump" ->
             {to(0, d - 1, i), to(step.offset2, d - 1, i), to(step.offset, d, i)}
        [] step.op = "kFixedJump" -> {to(step.offset, d, i)}
        [] step.op = "kComprehensionInit" -> {to(0, d, i + 1), to(step.offset, d, i)}
        [] step.op \in {"kComprehensionNext", "kComprehensionNext2"} ->
             {to(0, d - 1, i), to(step.offset, d - 1, i)}
        [] step.op \in {"kComprehensionCond", "kComprehensionCond2"} ->
             {to(0, d - 1, i), to(step.offset, d - 1, i), to(step.offset2, d - 1, i - 1)}
        [] step.op = "kComprehensionFinish" -> {to(0, d - 1, i - 1)}
        [] OTHER -> {to(0, d - ValuesNeeded(step) + 1, i)}

(***************************************************************************)
(* A certificate c of a program p:                                          *)
(*   depth[k][q], iters[k][q]   heights at position q of path k, counted    *)
(*                              from where the path was entered             *)
(*   cap[k], icap[k]            the most path k adds, with what it calls    *)
(***************************************************************************)
CertificateTypeOK(p, c) ==
  /\ DOMAIN c.depth = DOMAIN p.paths /\ DOMAIN c.iters = DOMAIN p.paths
  /\ \A k \in DOMAIN p.paths :
       /\ c.depth[k] \in [0 .. Len(p.paths[k]) -> Nat]
       /\ c.iters[k] \in [0 .. Len(p.paths[k]) -> Nat]
  /\ c.cap \in [DOMAIN p.paths -> Nat]
  /\ c.icap \in [DOMAIN p.paths -> Nat]

\* Position q of path k and where it leads.
PositionOK(p, c, k, q) ==
  LET step == p.paths[k][q + 1]
      d    == c.depth[k][q]
      i    == c.iters[k][q]
  IN  /\ ValuesNeeded(step) <= d
      /\ IteratorsNeeded(step) <= i
      /\ \A e \in Edges(step, q, d, i) :
           /\ e.pc \in 0 .. Len(p.paths[k])
           /\ c.depth[k][e.pc] = e.depth
           /\ c.iters[k][e.pc] = e.iters
      /\ step.op = "kLazyInit" =>
           /\ d + c.cap[step.sub] <= c.cap[k]
           /\ i + c.icap[step.sub] <= c.icap[k]

PathOK(p, c, k) ==
  LET end == Len(p.paths[k]) IN
  /\ c.depth[k][0] = 0 /\ c.iters[k][0] = 0
  /\ c.depth[k][end] = 1 /\ c.iters[k][end] = 0
  /\ \A q \in 0 .. end : c.depth[k][q] <= c.cap[k] /\ c.iters[k][q] <= c.icap[k]
  /\ \A q \in 0 .. end - 1 : PositionOK(p, c, k, q)

WellFormed(p, c) ==
  /\ CertificateTypeOK(p, c)
  /\ \A k \in DOMAIN p.paths : PathOK(p, c, k)
  /\ c.cap[1] <= p.valueStackSize
  /\ c.icap[1] <= p.iteratorStackSize

\* Every program of the table has a certificate: what the proofs assume of
\* the planner, and what PlanIsCertified checks of the plans it makes.
Certified ==
  \A n \in DOMAIN ExpressionTable : WellFormed(ExpressionTable[n], CertificateTable[n])

-----------------------------------------------------------------------------
(***************************************************************************)
(* Who may have set a slot.  Variables share slots: the planner gives those *)
(* of a scope that ended to the next, so that a step only finds its own     *)
(* value if the slot was cleared in between.  A certificate also has        *)
(*   loops[k][q]    slots of the loops path k runs at position q, the       *)
(*                  innermost last                                          *)
(*   owners[k][q]   pairs of a slot and who may have set it                 *)
(***************************************************************************)
LoopOf(step) ==
  [iter |-> step.slot, iter2 |-> IF step.v2 THEN step.slot + 1 ELSE 0,
   accu |-> IF step.v2 THEN step.slot + 2 ELSE step.slot + 1]

Emptied(owners, dead) == {o \in owners : o[1] \notin dead}
Owned(owners, slot, writer) == Emptied(owners, {slot}) \cup {<<slot, writer>>}

\* The variables of the next iteration, and what leaves the loop.
Iterated(owners, loop, two) ==
  LET one == Owned(owners, loop.iter, <<"iter", loop.iter>>)
  IN  Owned(IF two THEN Owned(one, loop.iter2, <<"iter", loop.iter>>) ELSE one,
            loop.accu, <<"accu", loop.iter>>)

Exhausted(owners, loop, two) ==
  Emptied(Owned(owners, loop.accu, <<"accu", loop.iter>>),
          IF two THEN {loop.iter, loop.iter2} ELSE {loop.iter})

Interrupted(owners, loop, two) ==
  Emptied(owners, IF two THEN {loop.iter, loop.iter2, loop.accu} ELSE {loop.iter, loop.accu})

InnerLoop(loops)  == loops[Len(loops)]
OuterLoops(loops) == SubSeq(loops, 1, Len(loops) - 1)

Flow(q, offset, loops, owners) == [pc |-> q + 1 + offset, loops |-> loops, owners |-> owners]

NextFlows(step, q, loops, owners, two) ==
  {Flow(q, 0, loops, Iterated(owners, InnerLoop(loops), two)),
   Flow(q, step.offset, loops, Exhausted(owners, InnerLoop(loops), two))}

\* A plan that evaluates everything leaves no loop for its condition.
CondFlows(p, step, q, loops, owners, two) ==
  {Flow(q, 0, loops, owners),
   Flow(q, step.offset2, OuterLoops(loops), Interrupted(owners, InnerLoop(loops), two))}
  \cup {Flow(q, step.offset, loops, owners) : short \in {p.shortCircuiting} \cap {TRUE}}

\* Where a step at position q can lead from the given loops and owners.
Flows(p, step, q, loops, owners) ==
  CASE step.op = "kIdentifier" ->
         {Flow(q, 0, loops, owners \cup {<<step.slot, <<"ident", step.slot>>>>})}
    [] step.op = "kAssignSlotAndPop" ->
         {Flow(q, 0, loops, Owned(owners, step.slot, <<"assign", step.slot>>))}
    [] step.op = "kClearSlots" ->
         {Flow(q, 0, loops, Emptied(owners, step.slot .. step.slot + step.argc - 1))}
    [] step.op = "kComprehensionInit" ->
         {Flow(q, 0, Append(loops, LoopOf(step)), owners), Flow(q, step.offset, loops, owners)}
    [] step.op = "kComprehensionNext"  -> NextFlows(step, q, loops, owners, FALSE)
    [] step.op = "kComprehensionNext2" -> NextFlows(step, q, loops, owners, TRUE)
    [] step.op = "kComprehensionCond"  -> CondFlows(p, step, q, loops, owners, FALSE)
    [] step.op = "kComprehensionCond2" -> CondFlows(p, step, q, loops, owners, TRUE)
    [] step.op = "kComprehensionFinish" ->
         {Flow(q, 0, OuterLoops(loops), Emptied(owners, {step.slot}))}
    [] OTHER -> {[pc |-> e.pc, loops |-> loops, owners |-> owners] : e \in Edges(step, q, 0, 0)}

\* What a caller finds when the path of its step returns: what may have been set
\* there, and the variable.
Returned(owners, step) == Owned(owners, step.slot, <<"lazy", step.sub>>)

OwnersAt(p, c, k, q) ==
  LET step == p.paths[k][q + 1] IN
  /\ \A e \in Flows(p, step, q, c.loops[k][q], c.owners[k][q]) :
       c.loops[k][e.pc] = e.loops /\ e.owners \subseteq c.owners[k][e.pc]
  /\ step.op = "kLazyInit" =>
       /\ c.owners[k][q] \subseteq c.owners[step.sub][0]
       /\ Returned(c.owners[step.sub][Len(p.paths[step.sub])], step) \subseteq c.owners[k][q + 1]
       /\ \A o \in c.owners[k][q] : o[1] = step.slot => o[2] = <<"lazy", step.sub>>

\* The slot of a lazily initialised variable is empty or its own wherever the
\* variable is referred to, on every way through the program.
SlotsAreOwned(p, c) ==
  \A k \in DOMAIN p.paths :
    /\ c.loops[k][0] = <<>>
    /\ \A q \in 0 .. Len(p.paths[k]) :
         /\ c.loops[k][q] \in Seq([iter : Nat, iter2 : Nat, accu : Nat])
         /\ Len(c.loops[k][q]) = c.iters[k][q]
    /\ \A q \in 0 .. Len(p.paths[k]) - 1 : OwnersAt(p, c, k, q)

-----------------------------------------------------------------------------
C == CertificateTable[program]

\* Heights of the stacks where the path on top of j callers was entered.
Base(j)  == IF j = 0 THEN 0 ELSE callStack[j].expected - 1
IBase(j) == IF j = 0 THEN 0 ELSE callStack[j].iters

\* There is room for what path k may still add.
Room(j, k) ==
  /\ Base(j) + C.cap[k] <= P.valueStackSize
  /\ IBase(j) + C.icap[k] <= P.iteratorStackSize

\* A suspended caller is behind its kLazyInit, at the heights it will find.
CallerOK(j) ==
  LET f == callStack[j] IN
  /\ f.pc \in 0 .. Len(P.paths[f.path])
  /\ f.expected = Base(j - 1) + C.depth[f.path][f.pc]
  /\ f.iters = IBase(j - 1) + C.iters[f.path][f.pc]
  /\ f.expected > 0
  /\ Room(j - 1, f.path)

AtCertifiedHeights ==
  /\ Len(valueStack) = Base(Len(callStack)) + C.depth[path][pc]
  /\ Len(iteratorStack) = IBase(Len(callStack)) + C.iters[path][pc]
  /\ Room(Len(callStack), path)
  /\ \A j \in 1 .. Len(callStack) : CallerOK(j)

Pristine ==
  /\ valueStack = <<>> /\ iteratorStack = <<>>
  /\ slots = [i \in SlotIndex |-> EmptySlot]

\* EvaluatorStack and IteratorStack never grow past the capacity the planner
\* computed for them (EstimateMaxStackSize, IterStackRequirement): a push
\* beyond it fails ABSL_DCHECK(!full()), and in an optimised build grows the
\* stack in the middle of an evaluation.
StacksWithinCapacity ==
  /\ Len(valueStack) <= P.valueStackSize
  /\ Len(iteratorStack) <= P.iteratorStackSize

\* No step finds too few values or iterators on the stacks or jumps out of
\* its path, and the evaluation ends with exactly its result on the stack
\* (the Abort calls of the steps, AbortJumpOutOfRange, the check in Evaluate);
\* a subexpression returns with exactly its value added to its caller's stack
\* (ABSL_DCHECK_EQ in NextSlow).
NoStackFault ==
  /\ abortStatus \notin {"underflow", "jump", "stack"}
  /\ outcome.status # "stack"
  /\ (phase = "run" /\ pc = Len(Code) /\ callStack # <<>>) =>
       Len(valueStack) = callStack[Len(callStack)].expected

\* The inductive invariant: the heights are the certified ones as long as
\* nothing aborted, and between evaluations the state is as Reset needs it.
StackInv ==
  /\ StacksWithinCapacity
  /\ NoStackFault
  /\ AbortedAtEnd
  /\ (phase # "idle" /\ abortStatus = "ok") => AtCertifiedHeights
  /\ phase # "idle" => initialStackSize = 0
  /\ ~dirty => phase = "idle" /\ Pristine

\* When a lazily initialised variable is referred to and its slot is set, the
\* slot holds what that variable's own initialiser computed (LazyInit, Return).
LazySlotIsOwn ==
  (phase = "run" /\ pc < Len(Code) /\ Step.op = "kLazyInit" /\ slots[Step.slot].has) =>
    slots[Step.slot].writer = <<"lazy", Step.sub>>
=============================================================================
