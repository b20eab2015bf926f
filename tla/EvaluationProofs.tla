-------------------------- MODULE EvaluationProofs --------------------------
(***************************************************************************)
(* What the evaluator state guarantees over a whole evaluation: identifiers *)
(* are looked up once, the iteration budget bounds all loops together, and  *)
(* a lazily initialised variable finds its own value in its slot.           *)
(*                                                                         *)
(* None of these properties is inductive.  That an identifier is not looked *)
(* up again rests on its slot, so LookupInv says that what was looked up is *)
(* in its slot, and that no running loop has such a slot among its own.     *)
(* That the running loops keep to the budget rests on the counter of the    *)
(* frame, so BudgetInv bounds their sum by it.  What a slot holds was       *)
(* written elsewhere, so OwnerInv follows the writers along the program.    *)
(***************************************************************************)
EXTENDS StackDisciplineProofs

\* The stacks keep to their capacity and their certified heights, and a state
\* that is to be reused is as Reset needs it (the invariant the evaluation run
\* checks; EvaluatorStack, IteratorStack, Reset).
THEOREM StackInvariant == ASSUME Certified PROVE Spec => []StackInv
<1>1. Inv => StackInv
  BY DEF Inv
<1> QED BY <1>1, Inductive, PTL

-----------------------------------------------------------------------------
(***************************************************************************)
(* The steps in groups, by what they change.                                *)
(***************************************************************************)
\* Steps that leave slots, loops, lookups and the budget alone.
Quiet ==
  \/ Constant \/ ReadSlot \/ LazyInit
  \/ BoolJump("kBooleanOrJump", TRUE) \/ BoolJump("kBooleanAndJump", FALSE)
  \/ TernaryJump \/ FixedJump \/ BooleanNot \/ NotStrictlyFalse \/ BooleanOr
  \/ BooleanAnd \/ Ternary \/ EagerFunction \/ LazyFunction
  \/ FastEqual \/ FastNotEqual \/ FastIn \/ NewMutableList \/ CreateList \/ MutableListAppend

\* The functions of InvokeOverload and CallFunction change the value stack and
\* the arena only.
LEMMA CallQuiet ==
  ASSUME NEW resolved, CallFunction(resolved)
  PROVE  UNCHANGED <<slots, iteratorStack, iterations, lookups>>
BY DEF CallFunction, InvokeOverload, AbortStep, Replace

\* What the quiet steps leave unchanged.
LEMMA QuietSteps ==
  ASSUME TypeOK, Quiet
  PROVE  /\ Running /\ program' = program
         /\ UNCHANGED <<slots, iteratorStack, iterations, lookups>>
<1>1. \E op : At(op)
  BY DEF Quiet, Constant, ReadSlot, LazyInit, BoolJump, TernaryJump, FixedJump, BooleanNot,
         NotStrictlyFalse, BooleanOr, BooleanAnd, Ternary, Strict, EagerFunction,
         LazyFunction, FastEqual, FastNotEqual, FastIn, NewMutableList, CreateList,
         MutableListAppend
<1>2. Running /\ program' = program
  BY <1>1, AtFacts
<1> SUFFICES UNCHANGED <<slots, iteratorStack, iterations, lookups>>
  BY <1>2
<1>3. CASE Constant \/ ReadSlot \/ LazyInit \/ TernaryJump \/ FixedJump
  BY <1>3 DEF Constant, ReadSlot, LazyInit, TernaryJump, FixedJump, Replace, AbortStep
<1>4. CASE BoolJump("kBooleanOrJump", TRUE) \/ BoolJump("kBooleanAndJump", FALSE)
  BY <1>4 DEF BoolJump, AbortStep
<1>5. CASE BooleanNot \/ NotStrictlyFalse \/ BooleanOr \/ BooleanAnd \/ Ternary
           \/ FastEqual \/ FastNotEqual \/ FastIn
  <2>1. \E op, n, v : Strict(op, n, v)
    BY <1>5 DEF BooleanNot, NotStrictlyFalse, BooleanOr, BooleanAnd, Ternary, FastEqual,
                FastNotEqual, FastIn
  <2> QED BY <2>1 DEF Strict, Replace, AbortStep
<1>6. CASE EagerFunction \/ LazyFunction
  <2>1. AbortStep("underflow") \/ AbortStep("overloads") \/ (\E r : CallFunction(r))
    BY <1>6 DEF EagerFunction, LazyFunction
  <2> QED BY <2>1, CallQuiet DEF AbortStep
<1>7. CASE NewMutableList \/ CreateList \/ MutableListAppend
  BY <1>7 DEF NewMutableList, CreateList, MutableListAppend, ReplaceByContainer, Replace,
              AbortStep
<1> QED BY <1>3, <1>4, <1>5, <1>6, <1>7 DEF Quiet

-----------------------------------------------------------------------------
(***************************************************************************)
(* How a step moves the loops: one begins, moves on or ends.                *)
(***************************************************************************)
LoopSlots(entry) == {entry.iter, entry.iter2, entry.accu}

\* Slots outside dead are not emptied.
KeptBut(dead) == \A i \in SlotIndex : (slots[i].has /\ i \notin dead) => slots'[i].has

Begins ==
  /\ Step.op = "kComprehensionInit"
  /\ \E v \in ValueIn(Len(arena)) :
       IsContainer(v) /\ iteratorStack' = Append(iteratorStack, NewIterator(v))
  /\ UNCHANGED iterations

Ends == 1 <= Len(iteratorStack) /\ iteratorStack' = PopIterator /\ UNCHANGED iterations

MovesOn ==
  /\ 1 <= Len(iteratorStack)
  /\ iteratorStack' = [iteratorStack EXCEPT ![Len(iteratorStack)].pos = @ + 1]
  /\ iterations' = IF P.maxIterations = 0 THEN iterations ELSE iterations + 1
  /\ BudgetExceeded => abortStatus' # "ok"

LoopShape == Begins \/ MovesOn \/ Ends \/ UNCHANGED <<iteratorStack, iterations>>

LoopStep ==
  \/ ComprehensionInit \/ ComprehensionNext1 \/ ComprehensionNext2
  \/ ComprehensionCond1 \/ ComprehensionCond2 \/ ComprehensionFinish

\* ClearSlots empties the slots it is given.
LEMMA ClearedKept ==
  ASSUME NEW s, DOMAIN s = SlotIndex, NEW dead
  PROVE  \A i \in SlotIndex : (s[i].has /\ i \notin dead) => ClearSlots(s, dead)[i].has
BY DEF ClearSlots

LEMMA SlotsDomain == ASSUME TypeOK PROVE DOMAIN slots = SlotIndex
BY DEF TypeOK, DataOK

LEMMA InitLoop ==
  ASSUME Certified, Inv, ComprehensionInit
  PROVE  UNCHANGED slots /\ LoopShape
<1>1. Running /\ Step.op = "kComprehensionInit"
  BY AtFacts DEF ComprehensionInit, Inv
<1>2. HasEnough(1) /\ 1 \in Nat
  BY <1>1, NeededTable, Heights
<1>3. UNCHANGED <<slots, iterations>>
  BY <1>2 DEF ComprehensionInit
<1>4. Top \in ValueIn(Len(arena))
  BY <1>2, StackOps DEF Inv
<1>5. CASE UNCHANGED iteratorStack
  BY <1>3, <1>5 DEF LoopShape
<1>6. CASE IsContainer(Top) /\ iteratorStack' = Append(iteratorStack, NewIterator(Top))
  BY <1>1, <1>3, <1>4, <1>6 DEF LoopShape, Begins
<1> QED BY <1>2, <1>3, <1>5, <1>6 DEF ComprehensionInit

LEMMA FinishLoop ==
  ASSUME Certified, Inv, ComprehensionFinish
  PROVE  KeptBut(ClearedBy(Step)) /\ LoopShape
<1>1. Running /\ Step.op = "kComprehensionFinish"
  BY AtFacts DEF ComprehensionFinish, Inv
<1>2. HasEnough(2) /\ 1 <= Len(iteratorStack)
  BY <1>1, NeededTable, Heights
<1>3. /\ slots' = ClearSlots(slots, {Step.slot})
      /\ iteratorStack' = PopIterator /\ UNCHANGED iterations
  BY <1>2 DEF ComprehensionFinish
<1>4. ClearedBy(Step) = {Step.slot}
  BY <1>1 DEF ClearedBy
<1>5. KeptBut(ClearedBy(Step))
  BY <1>3, <1>4, SlotsDomain, ClearedKept DEF KeptBut, Inv
<1> QED BY <1>2, <1>3, <1>5 DEF LoopShape, Ends

LEMMA NextLoop ==
  ASSUME Certified, Inv, NEW op \in {"kComprehensionNext", "kComprehensionNext2"},
         NEW two \in BOOLEAN, ComprehensionNext(op, two)
  PROVE  1 <= Len(iteratorStack) /\ KeptBut(LoopSlots(Iterator)) /\ LoopShape
<1>1. Running /\ Step.op \in {"kComprehensionNext", "kComprehensionNext2"}
  BY AtFacts DEF ComprehensionNext, Inv
<1>2. HasEnough(2) /\ 1 <= Len(iteratorStack) /\ iteratorStack # <<>> /\ abortStatus = "ok"
  BY <1>1, NeededTable, Heights, IteratorFacts DEF Inv
<1>3. DOMAIN slots = SlotIndex
  BY SlotsDomain DEF Inv
<1>4. CASE /\ slots' = ClearSlots([slots EXCEPT ![Iterator.accu] =
                                     Filled(Top, <<"accu", Iterator.iter>>)],
                                  IF two THEN {Iterator.iter, Iterator.iter2}
                                         ELSE {Iterator.iter})
           /\ UNCHANGED <<iteratorStack, iterations>>
  <2> DEFINE kept == [slots EXCEPT ![Iterator.accu] = Filled(Top, <<"accu", Iterator.iter>>)]
             dead == IF two THEN {Iterator.iter, Iterator.iter2} ELSE {Iterator.iter}
  <2>1. DOMAIN kept = SlotIndex /\ \A i \in SlotIndex : slots[i].has => kept[i].has
    BY <1>3 DEF Filled
  <2>2. slots' = ClearSlots(kept, dead) /\ dead \subseteq LoopSlots(Iterator)
    BY <1>4 DEF LoopSlots
  <2> HIDE DEF kept, dead
  <2>3. KeptBut(LoopSlots(Iterator))
    BY <2>1, <2>2, ClearedKept DEF KeptBut
  <2> QED BY <1>2, <1>4, <2>3 DEF LoopShape
<1>5. CASE /\ slots' = IterationSlots(Iterator, two)
           /\ iteratorStack' = Advanced(two)
           /\ iterations' = IF P.maxIterations = 0 THEN iterations ELSE iterations + 1
           /\ \/ BudgetExceeded /\ Abort("budget")
              \/ ~BudgetExceeded /\ Continue
  <2>1. \A i \in SlotIndex : slots[i].has => slots'[i].has
    BY <1>3, <1>5 DEF IterationSlots, Filled
  <2>2. MovesOn
    BY <1>2, <1>5 DEF MovesOn, Advanced, Abort
  <2> QED BY <1>2, <2>1, <2>2 DEF LoopShape, KeptBut
<1>6. CASE slots' = MarkedSlots(Iterator, two) /\ UNCHANGED <<iteratorStack, iterations>>
  <2>1. \A i \in SlotIndex : slots[i].has => slots'[i].has
    BY <1>3, <1>6 DEF MarkedSlots, Filled
  <2> QED BY <1>2, <1>6, <2>1 DEF LoopShape, KeptBut
<1> QED BY <1>2, <1>4, <1>5, <1>6 DEF ComprehensionNext

LEMMA CondLoop ==
  ASSUME Certified, Inv, NEW op \in {"kComprehensionCond", "kComprehensionCond2"},
         NEW two \in BOOLEAN, ComprehensionCond(op, two)
  PROVE  1 <= Len(iteratorStack) /\ KeptBut(LoopSlots(Iterator)) /\ LoopShape
<1>1. Running /\ Step.op \in {"kComprehensionCond", "kComprehensionCond2"}
  BY AtFacts DEF ComprehensionCond, Inv
<1>2. HasEnough(2) /\ 1 <= Len(iteratorStack) /\ iteratorStack # <<>>
  BY <1>1, NeededTable, Heights, IteratorFacts DEF Inv
<1>3. DOMAIN slots = SlotIndex
  BY SlotsDomain DEF Inv
<1>4. UNCHANGED iterations
  BY <1>2 DEF ComprehensionCond
<1>5. ASSUME NEW v, CondFails(two, v) PROVE KeptBut(LoopSlots(Iterator)) /\ LoopShape
  <2> DEFINE dead == IF two THEN {Iterator.iter, Iterator.iter2, Iterator.accu}
                            ELSE {Iterator.iter, Iterator.accu}
  <2>1. slots' = ClearSlots(slots, dead) /\ iteratorStack' = PopIterator
    BY <1>5 DEF CondFails
  <2>2. dead \subseteq LoopSlots(Iterator)
    BY DEF LoopSlots
  <2> HIDE DEF dead
  <2>3. KeptBut(LoopSlots(Iterator))
    BY <1>3, <2>1, <2>2, ClearedKept DEF KeptBut
  <2> QED BY <1>2, <1>4, <2>1, <2>3 DEF LoopShape, Ends
<1>6. CASE \E v : CondFails(two, v)
  BY <1>2, <1>5, <1>6
<1>7. CASE UNCHANGED <<slots, iteratorStack>>
  BY <1>2, <1>4, <1>7 DEF KeptBut, LoopShape
<1> QED BY <1>2, <1>6, <1>7 DEF ComprehensionCond

\* The loop steps, and the slots each of them may empty.
LEMMA LoopSteps ==
  ASSUME Certified, Inv, LoopStep
  PROVE  /\ Running /\ program' = program /\ UNCHANGED lookups
         /\ LoopShape
         /\ \/ KeptBut(ClearedBy(Step))
            \/ 1 <= Len(iteratorStack) /\ KeptBut(LoopSlots(Iterator))
<1>1. \E op : At(op)
  BY DEF LoopStep, ComprehensionInit, ComprehensionNext1, ComprehensionNext2,
         ComprehensionNext, ComprehensionCond1, ComprehensionCond2, ComprehensionCond,
         ComprehensionFinish
<1>2. Running /\ program' = program
  BY <1>1, AtFacts DEF Inv
<1>3. UNCHANGED lookups
  BY DEF LoopStep, ComprehensionInit, ComprehensionNext1, ComprehensionNext2,
         ComprehensionNext, ComprehensionCond1, ComprehensionCond2, ComprehensionCond,
         ComprehensionFinish, AbortStep
<1>4. CASE ComprehensionInit
  BY <1>2, <1>3, <1>4, InitLoop DEF KeptBut
<1>5. CASE ComprehensionFinish
  BY <1>2, <1>3, <1>5, FinishLoop
<1>6. CASE ComprehensionNext1 \/ ComprehensionNext2
  BY <1>2, <1>3, <1>6, NextLoop DEF ComprehensionNext1, ComprehensionNext2
<1>7. CASE ComprehensionCond1 \/ ComprehensionCond2
  BY <1>2, <1>3, <1>7, CondLoop DEF ComprehensionCond1, ComprehensionCond2
<1> QED BY <1>4, <1>5, <1>6, <1>7 DEF LoopStep

-----------------------------------------------------------------------------
(***************************************************************************)
(* Identifiers are looked up once.                                          *)
(***************************************************************************)
\* What was looked up is in its slot, as long as the evaluation goes on.
LookedUpIsKept ==
  \A s \in StepsOf(P) : (s.op = "kIdentifier" /\ lookups[s.name] # 0) => slots[s.slot].has

\* The running loops clear only slots the program accounts for.
LoopsClearTheirs ==
  \A i \in 1 .. Len(iteratorStack) : LoopSlots(iteratorStack[i]) \subseteq ClearedSlots(P)

LookupInv ==
  /\ LookedUpAtMostOnce
  /\ (phase # "idle" /\ abortStatus = "ok") => LookedUpIsKept /\ LoopsClearTheirs

\* Every program of the table keeps the slots of its identifiers: what the
\* proof assumes of the planner, and what PlanIsCertified checks of its plans.
AllKeepSlots ==
  \A n \in DOMAIN ExpressionTable : IdentifiersKeepSlots(ExpressionTable[n])

\* A step of the program: its slot exists, and it accounts for what it clears.
LEMMA StepOfProgram ==
  ASSUME TypeOK, Running
  PROVE  Step \in StepsOf(P) /\ ClearedBy(Step) \subseteq ClearedSlots(P)
<1>1. /\ Step = P.paths[path][pc + 1] /\ path \in DOMAIN P.paths
      /\ pc + 1 \in DOMAIN P.paths[path]
  <2>1. path \in DOMAIN P.paths /\ pc + 1 \in 1 .. Len(Code) /\ Step = P.paths[path][pc + 1]
    BY StepFacts
  <2>2. P.paths[path] \in Seq(StepRecord)
    BY <2>1, ProgramFacts DEF TypeOK, RequestOK
  <2> QED BY <2>1, <2>2 DEF Code
<1>2. Step \in StepsOf(P)
  BY <1>1 DEF StepsOf
<1> QED BY <1>2 DEF ClearedSlots

LEMMA IdentifierSlots ==
  ASSUME TypeOK, NEW s \in StepsOf(P), s.op = "kIdentifier"
  PROVE  s.slot \in SlotIndex /\ s.name \in Identifiers
<1>1. PICK k \in DOMAIN P.paths : \E j \in DOMAIN P.paths[k] : s = P.paths[k][j]
  BY DEF StepsOf
<1>2. PICK j \in DOMAIN P.paths[k] : s = P.paths[k][j]
  BY <1>1
<1>3. P \in FlatExpression /\ P.paths \in Seq(Seq(StepRecord)) /\ P.slotCount \in Nat
  BY ProgramFacts DEF TypeOK, RequestOK
<1>4. s \in StepRecord
  BY <1>2, <1>3
<1>5. s.slot + SlotSpan(s) <= P.slotCount /\ s.name \in Identifiers
  <2>1. OperandsInRange(P)
    BY ProgramsAssumption DEF TypeOK, RequestOK, P
  <2> QED BY <1>2, <2>1, Zenon DEF OperandsInRange
<1>6. SlotSpan(s) = 1
  BY SlotSpanTable
<1>7. s.slot \in Nat
  BY <1>4 DEF StepRecord
<1> QED BY <1>3, <1>5, <1>6, <1>7 DEF SlotIndex

\* The program stays and accounts for the slots of the loops: a step that looks
\* nothing up keeps the invariant if it keeps the slots.
LEMMA KeptPreserves ==
  ASSUME AllKeepSlots, Certified, Inv, LookupInv, phase # "idle", abortStatus = "ok",
         program' = program, UNCHANGED lookups, KeptBut(ClearedSlots(P)), LoopsClearTheirs'
  PROVE  LookupInv'
<1>1. P' = P /\ SlotIndex' = SlotIndex
  BY SameProgram
<1>2. IdentifiersKeepSlots(P)
  BY DEF AllKeepSlots, Inv, TypeOK, RequestOK, P
<1>3. ASSUME NEW s \in StepsOf(P), s.op = "kIdentifier", lookups[s.name] # 0
      PROVE  slots'[s.slot].has
  <2>1. slots[s.slot].has
    BY <1>3 DEF LookupInv, LookedUpIsKept
  <2>2. s.slot \in SlotIndex /\ s.slot \notin ClearedSlots(P)
    BY <1>2, <1>3, IdentifierSlots DEF IdentifiersKeepSlots, Inv
  <2> QED BY <2>1, <2>2 DEF KeptBut
<1>4. LookedUpIsKept'
  BY <1>1, <1>3 DEF LookedUpIsKept
<1> QED BY <1>4 DEF LookupInv, LookedUpAtMostOnce

\* The running loops still clear only slots the program accounts for.
LEMMA LoopsKept ==
  ASSUME Inv, Running, LoopsClearTheirs, LoopShape, program' = program
  PROVE  LoopsClearTheirs'
<1> DEFINE n == Len(iteratorStack)
<1>1. P' = P /\ n \in Nat /\ iteratorStack \in Seq(IteratorEntry(Len(arena)))
  BY SameProgram DEF Inv, TypeOK, DataOK
<1>2. CASE UNCHANGED iteratorStack
  BY <1>1, <1>2 DEF LoopsClearTheirs
<1>3. CASE Begins
  <2>1. PICK v \in ValueIn(Len(arena)) :
          IsContainer(v) /\ iteratorStack' = Append(iteratorStack, NewIterator(v))
    BY <1>3 DEF Begins
  <2>2. Step.op = "kComprehensionInit" /\ NewIterator(v) \in IteratorEntry(Len(arena))
    BY <1>3, <2>1, NewIteratorTyped DEF Begins, Inv
  <2>3. LoopSlots(NewIterator(v)) \subseteq ClearedBy(Step)
    <3>1. Step.slot \in Nat
      BY StepFacts DEF Inv
    <3> QED BY <2>2, <3>1 DEF LoopSlots, NewIterator, ClearedBy
  <2>4. LoopSlots(NewIterator(v)) \subseteq ClearedSlots(P)
    BY <2>3, StepOfProgram DEF Inv
  <2>5. /\ Len(iteratorStack') = n + 1
        /\ \A i \in 1 .. n : iteratorStack'[i] = iteratorStack[i]
        /\ iteratorStack'[n + 1] = NewIterator(v)
    BY <1>1, <2>1, <2>2, AppendProperties
  <2> QED BY <1>1, <2>4, <2>5 DEF LoopsClearTheirs
<1>4. CASE MovesOn
  <2>1. Iterator \in IteratorEntry(Len(arena))
    BY <1>4, IteratorFacts DEF MovesOn, Inv
  <2>2. \A i \in 1 .. n : LoopSlots(iteratorStack'[i]) = LoopSlots(iteratorStack[i])
    BY <1>1, <1>4, <2>1 DEF MovesOn, LoopSlots, Iterator, IteratorEntry
  <2>3. Len(iteratorStack') = n
    BY <1>1, <1>4, IteratorMoves DEF MovesOn, Inv
  <2> QED BY <1>1, <2>2, <2>3 DEF LoopsClearTheirs
<1>5. CASE Ends
  <2>1. Len(iteratorStack') = n - 1
    BY <1>5, IteratorFacts DEF Ends, Inv
  <2>2. \A i \in 1 .. n - 1 : iteratorStack'[i] = iteratorStack[i]
    BY <1>1, <1>5 DEF Ends, PopIterator
  <2> QED BY <1>1, <2>1, <2>2 DEF LoopsClearTheirs
<1> QED BY <1>2, <1>3, <1>4, <1>5 DEF LoopShape

\* A step of a loop.
LEMMA LoopLookups ==
  ASSUME AllKeepSlots, Certified, Inv, LookupInv, LoopStep
  PROVE  LookupInv'
<1>1. /\ Running /\ program' = program /\ UNCHANGED lookups /\ LoopShape
      /\ \/ KeptBut(ClearedBy(Step))
         \/ 1 <= Len(iteratorStack) /\ KeptBut(LoopSlots(Iterator))
  BY LoopSteps
<1>2. phase # "idle" /\ abortStatus = "ok"
  BY <1>1, Heights DEF Running
<1>3. LoopsClearTheirs
  BY <1>2 DEF LookupInv
<1>4. KeptBut(ClearedSlots(P))
  <2>1. ClearedBy(Step) \subseteq ClearedSlots(P)
    BY <1>1, StepOfProgram DEF Inv
  <2>2. ASSUME 1 <= Len(iteratorStack) PROVE LoopSlots(Iterator) \subseteq ClearedSlots(P)
    <3>1. Len(iteratorStack) \in Nat
      BY DEF Inv, TypeOK, DataOK
    <3> QED BY <1>3, <2>2, <3>1 DEF LoopsClearTheirs, Iterator
  <2> QED BY <1>1, <2>1, <2>2 DEF KeptBut
<1> QED BY <1>1, <1>2, <1>3, <1>4, LoopsKept, KeptPreserves

\* Steps that write or clear a slot by themselves.
LEMMA SlotStepLookups ==
  ASSUME AllKeepSlots, Certified, Inv, LookupInv, AssignSlotAndPop \/ ClearSlotsStep
  PROVE  LookupInv'
<1>1. \E op : At(op)
  BY DEF AssignSlotAndPop, ClearSlotsStep
<1>2. Running /\ program' = program
  BY <1>1, AtFacts DEF Inv
<1>3. phase # "idle" /\ abortStatus = "ok" /\ UNCHANGED <<iteratorStack, iterations, lookups>>
  BY <1>2, Heights DEF Running, AssignSlotAndPop, ClearSlotsStep, AbortStep
<1>4. KeptBut(ClearedSlots(P))
  <2>1. DOMAIN slots = SlotIndex
    BY SlotsDomain DEF Inv
  <2>2. CASE AssignSlotAndPop
    BY <2>1, <2>2 DEF AssignSlotAndPop, AbortStep, KeptBut, Filled
  <2>3. CASE ClearSlotsStep
    <3>1. Step.op = "kClearSlots"
      BY <2>3, AtFacts DEF ClearSlotsStep, Inv
    <3>2. slots' = ClearSlots(slots, ClearedBy(Step))
      BY <2>3, <3>1 DEF ClearSlotsStep, ClearedBy
    <3>3. ClearedBy(Step) \subseteq ClearedSlots(P)
      BY <1>2, StepOfProgram DEF Inv
    <3> QED BY <2>1, <3>2, <3>3, ClearedKept DEF KeptBut
  <2> QED BY <2>2, <2>3
<1>5. LoopsClearTheirs'
  <2>1. LoopsClearTheirs /\ LoopShape
    BY <1>3 DEF LookupInv, LoopShape
  <2> QED BY <1>2, <2>1, LoopsKept
<1> QED BY <1>2, <1>3, <1>4, <1>5, KeptPreserves

\* A quiet step.
LEMMA QuietLookups ==
  ASSUME AllKeepSlots, Certified, Inv, LookupInv, Quiet
  PROVE  LookupInv'
<1>1. Running /\ program' = program /\ UNCHANGED <<slots, iteratorStack, iterations, lookups>>
  BY QuietSteps DEF Inv
<1>2. phase # "idle" /\ abortStatus = "ok"
  BY <1>1, Heights DEF Running
<1>3. KeptBut(ClearedSlots(P)) /\ LoopShape /\ LoopsClearTheirs
  BY <1>1, <1>2 DEF KeptBut, LoopShape, LookupInv
<1> QED BY <1>1, <1>2, <1>3, LoopsKept, KeptPreserves

\* EvaluateIdentifierStep: what was looked up is in its slot, so an identifier
\* with an empty slot was not; what is looked up now is kept, or the evaluation
\* is over.
LEMMA IdentifierLookups ==
  ASSUME AllKeepSlots, Certified, Inv, LookupInv, Identifier
  PROVE  LookupInv'
<1>1. Running /\ program' = program /\ P' = P /\ Step.op = "kIdentifier"
  BY AtFacts DEF Identifier, Inv
<1>2. phase # "idle" /\ abortStatus = "ok"
  BY <1>1, Heights DEF Running
<1>3. LookedUpAtMostOnce /\ LookedUpIsKept /\ LoopsClearTheirs
  BY <1>2 DEF LookupInv
<1>4. UNCHANGED <<iteratorStack, iterations>>
  BY DEF Identifier, Replace
<1>5. LoopsClearTheirs'
  BY <1>1, <1>3, <1>4, LoopsKept DEF LoopShape
<1>6. DOMAIN slots = SlotIndex
  BY SlotsDomain DEF Inv
<1>7. CASE UNCHANGED <<slots, lookups>>
  BY <1>1, <1>2, <1>5, <1>7, KeptPreserves DEF KeptBut
<1>8. CASE UNCHANGED lookups /\ \E v : PushIdentifier(v)
  <2>1. KeptBut(ClearedSlots(P))
    BY <1>6, <1>8 DEF PushIdentifier, KeptBut, Filled
  <2> QED BY <1>1, <1>2, <1>5, <1>8, <2>1, KeptPreserves
<1>9. CASE /\ ~slots[Step.slot].has
           /\ lookups' = [lookups EXCEPT ![Step.name] = @ + 1]
           /\ abortStatus' # "ok" \/ \E v : PushIdentifier(v)
  <2>1. Step \in StepsOf(P) /\ Step.name \in Identifiers /\ Step.slot \in SlotIndex
    BY <1>1, StepOfProgram, IdentifierSlots DEF Inv
  <2>2. lookups \in [Identifiers -> Nat] /\ lookups[Step.name] = 0
    BY <1>1, <1>3, <1>9, <2>1 DEF LookedUpIsKept, Inv, TypeOK, DataOK
  <2>3. /\ lookups'[Step.name] = 1
        /\ \A x \in Identifiers \ {Step.name} : lookups'[x] = lookups[x]
    BY <1>9, <2>1, <2>2
  <2>4. LookedUpAtMostOnce'
    BY <1>3, <2>3 DEF LookedUpAtMostOnce
  <2>5. CASE abortStatus' # "ok"
    BY <2>4, <2>5 DEF LookupInv
  <2>6. CASE \E v : PushIdentifier(v)
    <3>1. PICK v : slots' = [slots EXCEPT ![Step.slot] = Filled(v, <<"ident", Step.slot>>)]
      BY <2>6 DEF PushIdentifier
    <3>2. slots'[Step.slot].has /\ \A i \in SlotIndex : slots[i].has => slots'[i].has
      BY <1>6, <2>1, <3>1 DEF Filled
    <3>3. IdentifiersKeepSlots(P)
      BY DEF AllKeepSlots, Inv, TypeOK, RequestOK, P
    <3>4. ASSUME NEW s \in StepsOf(P), s.op = "kIdentifier", lookups'[s.name] # 0
          PROVE  slots'[s.slot].has
      <4>1. s.slot \in SlotIndex /\ s.name \in Identifiers
        BY <3>4, IdentifierSlots DEF Inv
      <4>2. CASE s.name = Step.name
        <5>1. s.slot = Step.slot
          BY <1>1, <2>1, <3>3, <3>4, <4>2 DEF IdentifiersKeepSlots
        <5> QED BY <3>2, <5>1
      <4>3. CASE s.name # Step.name
        <5>1. lookups[s.name] # 0
          BY <2>3, <3>4, <4>1, <4>3
        <5>2. slots[s.slot].has
          BY <1>3, <3>4, <5>1 DEF LookedUpIsKept
        <5> QED BY <3>2, <4>1, <5>2
      <4> QED BY <4>2, <4>3
    <3>5. LookedUpIsKept'
      BY <1>1, <3>4 DEF LookedUpIsKept
    <3> QED BY <1>5, <2>4, <3>5 DEF LookupInv
  <2> QED BY <1>9, <2>5, <2>6
<1>10. CASE Replace(0, slots[Step.slot].value)
  BY <1>7, <1>10 DEF Replace
<1>11. CASE ~slots[Step.slot].has /\ LookupIdent
  <2>1. CASE UNCHANGED lookups /\ PushIdentifier(UnknownValue({Step.name}))
    BY <1>8, <2>1
  <2>2. CASE /\ lookups' = [lookups EXCEPT ![Step.name] = @ + 1]
             /\ \E found \in activation.vars[Step.name] :
                  \/ Abort("lookup")
                  \/ PushIdentifier(ErrorValue(kNoSuchVariable))
                  \/ PushIdentifier(found)
    <3>1. abortStatus' # "ok" \/ \E v : PushIdentifier(v)
      BY <1>2, <2>2 DEF Abort
    <3> QED BY <1>9, <1>11, <2>2, <3>1
  <2> QED BY <1>11, <2>1, <2>2 DEF LookupIdent
<1> QED BY <1>10, <1>11 DEF Identifier

\* NextSlow writes the slot of a lazily initialised variable.
LEMMA ReturnLookups ==
  ASSUME AllKeepSlots, Certified, Inv, LookupInv, Return
  PROVE  LookupInv'
<1>1. /\ program' = program /\ UNCHANGED <<phase, abortStatus, iteratorStack, lookups>>
      /\ P' = P
  BY SameProgram DEF Return, request
<1>2. DOMAIN slots = SlotIndex
  BY SlotsDomain DEF Inv
<1>3. KeptBut(ClearedSlots(P))
  BY <1>2 DEF Return, KeptBut, Filled
<1>4. CASE phase # "idle" /\ abortStatus = "ok"
  <2>1. LoopsClearTheirs'
    BY <1>1, <1>4 DEF LookupInv, LoopsClearTheirs
  <2> QED BY <1>1, <1>3, <1>4, <2>1, KeptPreserves
<1>5. CASE ~(phase # "idle" /\ abortStatus = "ok")
  BY <1>1, <1>5 DEF LookupInv, LookedUpAtMostOnce
<1> QED BY <1>4, <1>5

\* Reset empties the iterator stack, and no identifier is looked up yet.
LEMMA StartLookups ==
  ASSUME Inv, NEW a \in Activations, NEW withListener \in ListenerChoices,
         StartEvaluate(a, withListener)
  PROVE  LookupInv' /\ iteratorStack' = <<>> /\ iterations' = 0 /\ P' = P
<1>1. program' = program /\ lookups' = [x \in Identifiers |-> 0] /\ iterations' = 0
  BY DEF StartEvaluate
<1>2. P' = P
  BY <1>1, SameProgram
<1>3. iteratorStack' = <<>>
  <2>1. Reset /\ (~dirty => Pristine)
    BY DEF StartEvaluate, Inv, StackInv
  <2> QED BY <2>1 DEF Reset, Pristine
<1>4. LookedUpAtMostOnce'
  BY <1>1 DEF LookedUpAtMostOnce
<1>5. LoopsClearTheirs'
  BY <1>3 DEF LoopsClearTheirs
<1>6. LookedUpIsKept'
  <2>1. ASSUME NEW s \in StepsOf(P), s.op = "kIdentifier" PROVE lookups'[s.name] = 0
    BY <1>1, <2>1, IdentifierSlots DEF Inv
  <2> QED BY <1>2, <2>1 DEF LookedUpIsKept
<1> QED BY <1>1, <1>2, <1>3, <1>4, <1>5, <1>6 DEF LookupInv

\* Steps after which the evaluation goes on as before or not at all.
Passes ==
  /\ program' = program
  /\ UNCHANGED <<iterations, iteratorStack, slots, lookups>>
  /\ (phase' # "idle" /\ abortStatus' = "ok") => (phase # "idle" /\ abortStatus = "ok")

LEMMA PassingSteps ==
  ASSUME ListenerContinues \/ ListenerFails \/ EndEvaluate \/ Terminated \/ UNCHANGED vars
  PROVE  Passes
<1>1. CASE ListenerContinues
  BY <1>1 DEF ListenerContinues, ListenerUnchanged, Passes, control, request
<1>2. CASE ListenerFails
  BY <1>2 DEF ListenerFails, ListenerUnchanged, Passes, Abort, request
<1>3. CASE EndEvaluate
  BY <1>3 DEF EndEvaluate, Passes
<1>4. CASE Terminated \/ UNCHANGED vars
  BY <1>4 DEF Terminated, vars, request, control, Passes
<1> QED BY <1>1, <1>2, <1>3, <1>4

LEMMA PassingLookups == ASSUME LookupInv, Passes PROVE LookupInv'
<1>1. P' = P
  BY SameProgram DEF Passes
<1> QED BY <1>1 DEF Passes, LookupInv, LookedUpAtMostOnce, LookedUpIsKept, LoopsClearTheirs

\* The steps of EvaluateStep in their groups.
LEMMA StepGroups ==
  ASSUME EvaluateStep
  PROVE  Quiet \/ LoopStep \/ Identifier \/ AssignSlotAndPop \/ ClearSlotsStep
BY DEF EvaluateStep, Quiet, LoopStep

\* In one evaluation the activation is asked for each identifier at most once,
\* also by loops and by lazily initialised subexpressions: LookupIdent keeps
\* the value in a slot that nothing empties before the state is reset.
THEOREM LookupsAreUnique ==
  ASSUME Certified, AllKeepSlots PROVE Spec => []LookedUpAtMostOnce
<1>1. Init => LookupInv
  BY DEF Init, LookupInv, LookedUpAtMostOnce
<1>2. Inv /\ LookupInv /\ [Next]_vars => LookupInv'
  <2> SUFFICES ASSUME Inv, LookupInv, [Next]_vars PROVE LookupInv'
    OBVIOUS
  <2>1. ASSUME NEW a \in Activations, NEW withListener \in ListenerChoices,
               StartEvaluate(a, withListener)
        PROVE  LookupInv'
    BY <2>1, StartLookups
  <2>2. CASE EvaluateStep
    BY <2>2, StepGroups, QuietLookups, LoopLookups, IdentifierLookups, SlotStepLookups
  <2>3. CASE Return
    BY <2>3, ReturnLookups
  <2>4. CASE ListenerContinues \/ ListenerFails \/ EndEvaluate \/ Terminated \/ UNCHANGED vars
    BY <2>4, PassingSteps, PassingLookups
  <2> QED BY <2>1, <2>2, <2>3, <2>4 DEF Next, Interpret
<1>3. LookupInv => LookedUpAtMostOnce
  BY DEF LookupInv
<1> QED BY <1>1, <1>2, <1>3, Inductive, PTL DEF Spec

-----------------------------------------------------------------------------
(***************************************************************************)
(* The iteration budget.                                                    *)
(***************************************************************************)
\* f adds up what the loops have taken, the outermost k in f[k].
Sums(f) ==
  /\ f \in [0 .. Len(iteratorStack) -> Nat]
  /\ f[0] = 0
  /\ \A k \in 1 .. Len(iteratorStack) : f[k] = f[k - 1] + iteratorStack[k].pos

BudgetInv ==
  P.maxIterations # 0 =>
    /\ \E f : Sums(f) /\ f[Len(iteratorStack)] <= iterations
    /\ iterations <= P.maxIterations
    /\ (phase # "idle" /\ abortStatus = "ok") => iterations < P.maxIterations

\* The recursive sum is the one that exists.
LEMMA SumIsTaken ==
  ASSUME TypeOK, NEW f, Sums(f)
  PROVE  IterationsTaken[Len(iteratorStack)] = f[Len(iteratorStack)]
<1> DEFINE n == Len(iteratorStack)
           taken[k \in 0 .. n] == IF k = 0 THEN 0 ELSE taken[k - 1] + iteratorStack[k].pos
<1>0. n \in Nat
  BY DEF TypeOK, DataOK
<1>1. f = [k \in 0 .. n |-> IF k = 0 THEN 0 ELSE f[k - 1] + iteratorStack[k].pos]
  BY <1>0 DEF Sums
<1>2. taken = [k \in 0 .. n |-> IF k = 0 THEN 0 ELSE taken[k - 1] + iteratorStack[k].pos]
  BY <1>1
<1>3. IterationsTaken = taken
  BY DEF IterationsTaken
<1> HIDE DEF taken
<1> DEFINE T == {k \in 0 .. n : taken[k] # f[k]}
<1>4. T \subseteq Nat
  BY <1>0
<1>5. ASSUME T # {} PROVE FALSE
  <2> HIDE DEF T
  <2>1. PICK m \in T : \A k \in T : m <= k
    BY <1>4, <1>5, LeastExists
  <2> USE DEF T
  <2>2. m \in 0 .. n /\ taken[m] # f[m] /\ m # 0
    BY <1>1, <1>2, <2>1
  <2>3. m - 1 \in 0 .. n /\ taken[m - 1] = f[m - 1]
    BY <1>0, <2>1, <2>2
  <2> QED BY <1>1, <1>2, <2>2, <2>3
<1>6. taken[n] = f[n]
  BY <1>0, <1>5
<1> QED BY <1>3, <1>6

LEMMA BudgetSuffices == ASSUME TypeOK, BudgetInv PROVE BudgetIsGlobal
<1> SUFFICES ASSUME P.maxIterations # 0
             PROVE  IterationsTaken[Len(iteratorStack)] <= P.maxIterations
  BY DEF BudgetIsGlobal
<1>1. PICK f : Sums(f) /\ f[Len(iteratorStack)] <= iterations
  BY DEF BudgetInv
<1>2. IterationsTaken[Len(iteratorStack)] = f[Len(iteratorStack)]
  BY <1>1, SumIsTaken
<1>3. f[Len(iteratorStack)] \in Nat /\ iterations \in Nat /\ P.maxIterations \in Nat
  BY <1>1, ProgramFacts DEF Sums, TypeOK, RequestOK, DataOK
<1> QED BY <1>1, <1>2, <1>3 DEF BudgetInv

\* Fewer iterations, or the same and one more of the budget.
LEMMA LoopBudget ==
  ASSUME Certified, Inv, BudgetInv, Running, program' = program, LoopShape
  PROVE  BudgetInv'
<1>0. PICK n \in Nat : n = Len(iteratorStack)
  BY DEF Inv, TypeOK, DataOK
<1>1. P' = P /\ n = Len(iteratorStack) /\ iteratorStack \in Seq(IteratorEntry(Len(arena)))
  BY <1>0, SameProgram DEF Inv, TypeOK, DataOK
<1>2. phase # "idle" /\ abortStatus = "ok"
  BY Heights DEF Running
<1> SUFFICES ASSUME P.maxIterations # 0
             PROVE  /\ (\E f : Sums(f) /\ f[Len(iteratorStack)] <= iterations)'
                    /\ iterations' <= P.maxIterations
                    /\ abortStatus' = "ok" => iterations' < P.maxIterations
  BY <1>1 DEF BudgetInv
<1>3. PICK f : Sums(f) /\ f[n] <= iterations
  BY <1>1 DEF BudgetInv
<1>4. /\ f \in [0 .. n -> Nat] /\ f[0] = 0
      /\ \A k \in 1 .. n : f[k] = f[k - 1] + iteratorStack[k].pos
  BY <1>1, <1>3 DEF Sums
<1>5. /\ iterations < P.maxIterations /\ iterations \in Nat /\ P.maxIterations \in Nat
  BY <1>2, ProgramFacts DEF BudgetInv, Inv, TypeOK, RequestOK, DataOK
<1>6. CASE UNCHANGED <<iteratorStack, iterations>>
  <2>1. Sums(f)' /\ f[Len(iteratorStack')] <= iterations'
    BY <1>1, <1>3, <1>6 DEF Sums
  <2> QED BY <1>5, <1>6, <2>1
<1>7. CASE Begins
  <2>0. PICK g : g = [k \in 0 .. n + 1 |-> IF k = n + 1 THEN f[n] ELSE f[k]]
    OBVIOUS
  <2>1. PICK v \in ValueIn(Len(arena)) :
          IsContainer(v) /\ iteratorStack' = Append(iteratorStack, NewIterator(v))
    BY <1>7 DEF Begins
  <2>2. NewIterator(v) \in IteratorEntry(Len(arena)) /\ NewIterator(v).pos = 0
    BY <1>7, <2>1, NewIteratorTyped DEF Begins, NewIterator, Inv
  <2>3. /\ Len(iteratorStack') = n + 1
        /\ \A i \in 1 .. n : iteratorStack'[i] = iteratorStack[i]
        /\ iteratorStack'[n + 1] = NewIterator(v)
    BY <1>1, <2>1, <2>2, AppendProperties
  <2>4. g \in [0 .. n + 1 -> Nat] /\ g[0] = 0 /\ g[n + 1] = f[n]
    BY <2>0, <1>1, <1>4
  <2>5. ASSUME NEW k \in 1 .. n + 1 PROVE g[k] = g[k - 1] + iteratorStack'[k].pos
    <3>1. CASE k = n + 1
      BY <1>1, <1>4, <2>0, <2>2, <2>3, <3>1
    <3>2. CASE k \in 1 .. n
      BY <1>1, <1>4, <2>0, <2>3, <3>2
    <3> QED BY <1>1, <3>1, <3>2
  <2>6. Sums(g)' /\ g[n + 1] <= iterations'
    BY <1>3, <1>7, <2>3, <2>4, <2>5 DEF Sums, Begins
  <2> QED BY <1>5, <1>7, <2>3, <2>6 DEF Begins
<1>8. CASE MovesOn
  <2>0. PICK g : g = [f EXCEPT ![n] = f[n] + 1]
    OBVIOUS
  <2>1. /\ 1 <= n /\ Iterator.pos \in Nat /\ Iterator \in IteratorEntry(Len(arena))
        /\ Len(iteratorStack') = n
    BY <1>1, <1>8, IteratorFacts, IteratorMoves DEF MovesOn, Inv
  <2>2. /\ iteratorStack'[n].pos = iteratorStack[n].pos + 1
        /\ \A i \in 1 .. n - 1 : iteratorStack'[i] = iteratorStack[i]
    BY <1>1, <1>8, <2>1 DEF MovesOn, Iterator, IteratorEntry
  <2>3. g \in [0 .. n -> Nat] /\ g[0] = 0 /\ g[n] = f[n] + 1
    BY <2>0, <1>1, <1>4, <2>1
  <2>4. ASSUME NEW k \in 1 .. n PROVE g[k] = g[k - 1] + iteratorStack'[k].pos
    <3>1. CASE k = n
      <4>1. g[n] = f[n] + 1 /\ g[n - 1] = f[n - 1] /\ f[n] = f[n - 1] + iteratorStack[n].pos
        BY <1>1, <1>4, <2>0, <2>1
      <4>2. f[n - 1] \in Nat /\ iteratorStack[n].pos \in Nat
        BY <1>1, <1>4, <2>1 DEF Iterator
      <4> QED BY <2>2, <3>1, <4>1, <4>2
    <3>2. CASE k \in 1 .. n - 1
      BY <1>1, <1>4, <2>0, <2>2, <3>2
    <3> QED BY <1>1, <3>1, <3>2
  <2>5. iterations' = iterations + 1 /\ f[n] \in Nat
    BY <1>1, <1>4, <1>8, <2>1 DEF MovesOn
  <2>6. Sums(g)' /\ g[n] <= iterations'
    BY <1>3, <1>5, <2>1, <2>3, <2>4, <2>5 DEF Sums
  <2>7. abortStatus' = "ok" => iterations' < P.maxIterations
    BY <1>5, <1>8, <2>5 DEF MovesOn, BudgetExceeded
  <2> QED BY <1>5, <2>1, <2>5, <2>6, <2>7
<1>9. CASE Ends
  <2>0. PICK g : g = [k \in 0 .. n - 1 |-> f[k]]
    OBVIOUS
  <2>1. Len(iteratorStack') = n - 1 /\ 1 <= n /\ Iterator.pos \in Nat
    BY <1>1, <1>9, IteratorFacts DEF Ends, Inv
  <2>2. \A i \in 1 .. n - 1 : iteratorStack'[i] = iteratorStack[i]
    BY <1>1, <1>9 DEF Ends, PopIterator
  <2>3. /\ g \in [0 .. n - 1 -> Nat] /\ g[0] = 0
        /\ \A k \in 1 .. n - 1 : g[k] = g[k - 1] + iteratorStack'[k].pos
    <3>1. g \in [0 .. n - 1 -> Nat] /\ g[0] = 0
      BY <1>4, <2>0, <2>1
    <3>2. ASSUME NEW k \in 1 .. n - 1 PROVE g[k] = g[k - 1] + iteratorStack'[k].pos
      <4>1. g[k] = f[k] /\ g[k - 1] = f[k - 1] /\ f[k] = f[k - 1] + iteratorStack[k].pos
        BY <1>4, <2>0
      <4> QED BY <2>2, <4>1
    <3> QED BY <3>1, <3>2
  <2>4. g[n - 1] <= iterations
    <3>1. g[n - 1] = f[n - 1] /\ f[n] = f[n - 1] + Iterator.pos /\ f[n - 1] \in Nat
      BY <1>1, <1>4, <2>0, <2>1 DEF Iterator
    <3> QED BY <1>3, <1>5, <2>1, <3>1
  <2>5. Sums(g)' /\ g[n - 1] <= iterations'
    BY <1>9, <2>1, <2>3, <2>4 DEF Sums, Ends
  <2> QED BY <1>5, <1>9, <2>1, <2>5 DEF Ends
<1> QED BY <1>6, <1>7, <1>8, <1>9 DEF LoopShape

\* Steps that leave the loops and the budget alone.
LEMMA OtherBudget ==
  ASSUME BudgetInv, program' = program, UNCHANGED <<iterations, iteratorStack>>,
         (phase' # "idle" /\ abortStatus' = "ok") => (phase # "idle" /\ abortStatus = "ok")
  PROVE  BudgetInv'
<1>1. P' = P
  BY SameProgram
<1> QED BY <1>1 DEF BudgetInv, Sums

\* The iterations of the loops that run, nested and in lazily initialised
\* subexpressions, are together within max_iterations (IncrementIterations):
\* the counter of the frame bounds their sum, and the iteration that brings it
\* to the limit is the last.
THEOREM BudgetHolds == ASSUME Certified PROVE Spec => []BudgetIsGlobal
<1>1. Init => BudgetInv
  <2> SUFFICES ASSUME Init, P.maxIterations # 0
               PROVE  /\ \E f : Sums(f) /\ f[Len(iteratorStack)] <= iterations
                      /\ iterations <= P.maxIterations
    BY DEF Init, BudgetInv
  <2>1. iteratorStack = <<>> /\ iterations = 0 /\ P.maxIterations \in Nat
    BY ProgramFacts DEF Init
  <2>2. Sums([k \in 0 .. 0 |-> 0])
    BY <2>1 DEF Sums
  <2> QED BY <2>1, <2>2
<1>2. Inv /\ BudgetInv /\ [Next]_vars => BudgetInv'
  <2> SUFFICES ASSUME Inv, BudgetInv, [Next]_vars PROVE BudgetInv'
    OBVIOUS
  <2>1. ASSUME NEW a \in Activations, NEW withListener \in ListenerChoices,
               StartEvaluate(a, withListener)
        PROVE  BudgetInv'
    <3>1. iteratorStack' = <<>> /\ iterations' = 0 /\ P' = P /\ P.maxIterations \in Nat
      BY <2>1, StartLookups, ProgramFacts DEF Inv, TypeOK, RequestOK
    <3>2. Sums([k \in 0 .. 0 |-> 0])'
      BY <3>1 DEF Sums
    <3> QED BY <3>1, <3>2 DEF BudgetInv
  <2>2. CASE Quiet
    <3>1. Running /\ program' = program /\ LoopShape
      BY <2>2, QuietSteps DEF LoopShape, Inv
    <3> QED BY <3>1, LoopBudget
  <2>3. CASE LoopStep
    BY <2>3, LoopSteps, LoopBudget
  <2>4. CASE Identifier \/ AssignSlotAndPop \/ ClearSlotsStep
    <3>1. \E op : At(op)
      BY <2>4 DEF Identifier, AssignSlotAndPop, ClearSlotsStep
    <3>2. UNCHANGED <<iterations, iteratorStack>>
      BY <2>4 DEF Identifier, AssignSlotAndPop, ClearSlotsStep, Replace, AbortStep
    <3>3. Running /\ program' = program
      BY <3>1, AtFacts DEF Inv
    <3> QED BY <3>2, <3>3, LoopBudget DEF LoopShape
  <2>5. CASE Return
    BY <2>5, OtherBudget DEF Return, request
  <2>6. CASE ListenerContinues \/ ListenerFails \/ EndEvaluate \/ Terminated \/ UNCHANGED vars
    BY <2>6, PassingSteps, OtherBudget DEF Passes
  <2> QED BY <2>1, <2>2, <2>3, <2>4, <2>5, <2>6, StepGroups DEF Next, Interpret
<1>3. Inv /\ BudgetInv => BudgetIsGlobal
  BY BudgetSuffices DEF Inv
<1> QED BY <1>1, <1>2, <1>3, Inductive, PTL DEF Spec

-----------------------------------------------------------------------------
(***************************************************************************)
(* A lazily initialised variable finds its own value in its slot.           *)
(*                                                                         *)
(* What a slot holds was written somewhere else in the program, so the      *)
(* invariant (OwnerInv) is that the slots hold what the certificate says    *)
(* may be there at the position reached.  To follow it through the steps of *)
(* a loop, whose slots come from the iterator stack, and back from a        *)
(* subexpression, whose slot comes from the call stack, the iterators are   *)
(* those of the certified loops and the callers are behind the step that    *)
(* called what runs now.                                                    *)
(***************************************************************************)
\* Every program of the table has its owners certified: what the proof assumes
\* of the planner, and what PlanIsCertified checks of its plans.
AllOwned ==
  \A n \in DOMAIN ExpressionTable : SlotsAreOwned(ExpressionTable[n], CertificateTable[n])

Loop == [iter : Nat, iter2 : Nat, accu : Nat]
LoopOn(it) == [iter |-> it.iter, iter2 |-> it.iter2, accu |-> it.accu]

\* The slots hold what the owners may have left there.
Holds(s, owners) == \A i \in DOMAIN s : s[i].has => <<i, s[i].writer>> \in owners

\* The iterators above a height are those of the loops.
RunsLoops(its, base, loops) ==
  \A i \in 1 .. Len(loops) : LoopOn(its[base + i]) = loops[i]

\* The path that runs on behalf of caller j.
Called(j) == IF j = Len(callStack) THEN path ELSE callStack[j + 1].path

CallerKnown(j) ==
  LET f == callStack[j] IN
  /\ f.pc >= 1
  /\ P.paths[f.path][f.pc].op = "kLazyInit"
  /\ P.paths[f.path][f.pc].slot = f.slot
  /\ P.paths[f.path][f.pc].sub = Called(j)
  /\ RunsLoops(iteratorStack, IBase(j - 1), C.loops[f.path][f.pc])

OwnerInv ==
  (phase # "idle" /\ abortStatus = "ok") =>
    /\ Holds(slots, C.owners[path][pc])
    /\ RunsLoops(iteratorStack, IBase(Len(callStack)), C.loops[path][pc])
    /\ \A j \in 1 .. Len(callStack) : CallerKnown(j)
    /\ \A i, j \in 0 .. Len(callStack) : i <= j => IBase(i) <= IBase(j)

\* Setting and clearing slots, and what may be there then.
LEMMA FilledHolds ==
  ASSUME NEW s, NEW owners, Holds(s, owners), NEW slot \in DOMAIN s, NEW v, NEW w
  PROVE  /\ DOMAIN [s EXCEPT ![slot] = Filled(v, w)] = DOMAIN s
         /\ Holds([s EXCEPT ![slot] = Filled(v, w)], Owned(owners, slot, w))
<1> DEFINE t == [s EXCEPT ![slot] = Filled(v, w)]
<1>1. DOMAIN t = DOMAIN s
  OBVIOUS
<1>2. ASSUME NEW i \in DOMAIN s, t[i].has PROVE <<i, t[i].writer>> \in Owned(owners, slot, w)
  <2>1. CASE i = slot
    BY <2>1 DEF Filled, Owned
  <2>2. CASE i # slot
    <3>1. t[i] = s[i] /\ <<i, s[i].writer>> \in owners
      BY <1>2, <2>2 DEF Holds
    <3>2. <<i, s[i].writer>>[1] = i
      OBVIOUS
    <3> QED BY <2>2, <3>1, <3>2 DEF Owned, Emptied
  <2> QED BY <2>1, <2>2
<1> QED BY <1>1, <1>2 DEF Holds

LEMMA ClearedHolds ==
  ASSUME NEW s, NEW owners, Holds(s, owners), NEW dead
  PROVE  Holds(ClearSlots(s, dead), Emptied(owners, dead))
<1> DEFINE t == ClearSlots(s, dead)
<1>1. DOMAIN t = DOMAIN s
  BY DEF ClearSlots
<1>2. ASSUME NEW i \in DOMAIN s, t[i].has PROVE <<i, t[i].writer>> \in Emptied(owners, dead)
  <2>1. i \notin dead /\ t[i] = s[i]
    BY <1>2 DEF ClearSlots, EmptySlot
  <2>2. <<i, s[i].writer>> \in owners /\ <<i, s[i].writer>>[1] = i
    BY <1>2, <2>1 DEF Holds
  <2> QED BY <2>1, <2>2 DEF Emptied
<1> QED BY <1>1, <1>2 DEF Holds

LEMMA HoldsMore ==
  ASSUME NEW s, NEW few, NEW many, Holds(s, few), few \subseteq many
  PROVE  Holds(s, many)
BY DEF Holds

\* What the certificate says at the current position.
LEMMA OwnerFacts ==
  ASSUME AllOwned, Certified, Inv
  PROVE  /\ \A k \in DOMAIN P.paths :
              /\ C.loops[k][0] = <<>>
              /\ \A q \in 0 .. Len(P.paths[k]) :
                   /\ C.loops[k][q] \in Seq(Loop)
                   /\ Len(C.loops[k][q]) = C.iters[k][q]
              /\ \A q \in 0 .. Len(P.paths[k]) - 1 : OwnersAt(P, C, k, q)
         /\ Running => /\ OwnersAt(P, C, path, pc) /\ Len(C.loops[path][pc]) = I /\ I \in Nat
                       /\ C.loops[path][pc] \in Seq(Loop)
                       /\ Step = P.paths[path][pc + 1]
<1>1. SlotsAreOwned(P, C)
  BY DEF AllOwned, Inv, TypeOK, RequestOK, P, C
<1>2. /\ \A k \in DOMAIN P.paths :
           /\ C.loops[k][0] = <<>>
           /\ \A q \in 0 .. Len(P.paths[k]) :
                /\ C.loops[k][q] \in Seq(Loop)
                /\ Len(C.loops[k][q]) = C.iters[k][q]
           /\ \A q \in 0 .. Len(P.paths[k]) - 1 : OwnersAt(P, C, k, q)
  BY <1>1 DEF SlotsAreOwned, Loop
<1>3. ASSUME Running
      PROVE  /\ path \in DOMAIN P.paths /\ pc \in 0 .. Len(P.paths[path]) - 1
             /\ pc \in 0 .. Len(P.paths[path]) /\ Step = P.paths[path][pc + 1] /\ I \in Nat
  BY <1>3, StepFacts, PositionFacts DEF Code, Inv
<1> QED BY <1>2, <1>3 DEF I

-----------------------------------------------------------------------------
(***************************************************************************)
(* A step that stays in its path follows a flow of the certificate.         *)
(***************************************************************************)
HereLoops  == C.loops[path][pc]
HereOwners == C.owners[path][pc]
HereFlows  == Flows(P, Step, pc, HereLoops, HereOwners)

FlowsOn ==
  \E e \in HereFlows :
    /\ pc' = e.pc /\ UNCHANGED <<path, callStack>>
    /\ Holds(slots', e.owners)
    /\ RunsLoops(iteratorStack', IBase(Len(callStack)), e.loops)
    /\ \A i \in 1 .. IBase(Len(callStack)) : LoopOn(iteratorStack'[i]) = LoopOn(iteratorStack[i])

\* A jump that does not abort lands where it aims.
LEMMA JumpLands ==
  ASSUME abortStatus = "ok", NEW offset, JumpToOrAbort(offset), abortStatus' = "ok"
  PROVE  pc' = pc + 1 + offset /\ UNCHANGED <<path, callStack>>
BY DEF JumpToOrAbort, Abort

LEMMA AbortIsOver ==
  ASSUME abortStatus = "ok", NEW status, status # "ok", Abort(status) PROVE abortStatus' # "ok"
BY DEF Abort

\* What the invariant says where a step is about to run.
LEMMA HereHolds ==
  ASSUME AllOwned, Certified, Inv, OwnerInv, Running
  PROVE  /\ phase # "idle" /\ abortStatus = "ok"
         /\ Len(callStack) \in Nat /\ IBase(Len(callStack)) \in Nat /\ I \in Nat
         /\ Len(iteratorStack) = IBase(Len(callStack)) + I
         /\ iteratorStack \in Seq(IteratorEntry(Len(arena)))
         /\ DOMAIN slots = SlotIndex
         /\ Holds(slots, HereOwners)
         /\ RunsLoops(iteratorStack, IBase(Len(callStack)), HereLoops)
         /\ HereLoops \in Seq(Loop) /\ Len(HereLoops) = I
         /\ OwnersAt(P, C, path, pc)
<1>1. phase # "idle" /\ abortStatus = "ok"
  BY Heights DEF Running
<1>2. /\ Len(callStack) \in Nat /\ IBase(Len(callStack)) \in Nat
      /\ Len(iteratorStack) = IBase(Len(callStack)) + I
  BY Heights
<1>3. DOMAIN slots = SlotIndex /\ iteratorStack \in Seq(IteratorEntry(Len(arena)))
  BY DEF Inv, TypeOK, DataOK
<1>4. /\ Holds(slots, HereOwners)
      /\ RunsLoops(iteratorStack, IBase(Len(callStack)), HereLoops)
  BY <1>1 DEF OwnerInv, HereOwners, HereLoops
<1>5. /\ HereLoops \in Seq(Loop) /\ Len(HereLoops) = I /\ I \in Nat
      /\ OwnersAt(P, C, path, pc)
  BY OwnerFacts DEF HereLoops
<1> QED BY <1>1, <1>2, <1>3, <1>4, <1>5

\* Where a step can lead.
LEMMA FlowTable ==
  /\ Step.op = "kIdentifier" =>
       HereFlows = {Flow(pc, 0, HereLoops, HereOwners \cup {<<Step.slot, <<"ident", Step.slot>>>>})}
  /\ Step.op = "kAssignSlotAndPop" =>
       HereFlows = {Flow(pc, 0, HereLoops, Owned(HereOwners, Step.slot, <<"assign", Step.slot>>))}
  /\ Step.op = "kClearSlots" =>
       HereFlows = {Flow(pc, 0, HereLoops,
                         Emptied(HereOwners, Step.slot .. Step.slot + Step.argc - 1))}
  /\ Step.op = "kComprehensionInit" =>
       HereFlows = {Flow(pc, 0, Append(HereLoops, LoopOf(Step)), HereOwners),
                    Flow(pc, Step.offset, HereLoops, HereOwners)}
  /\ Step.op = "kComprehensionNext" =>
       HereFlows = NextFlows(Step, pc, HereLoops, HereOwners, FALSE)
  /\ Step.op = "kComprehensionNext2" =>
       HereFlows = NextFlows(Step, pc, HereLoops, HereOwners, TRUE)
  /\ Step.op = "kComprehensionCond" =>
       HereFlows = CondFlows(P, Step, pc, HereLoops, HereOwners, FALSE)
  /\ Step.op = "kComprehensionCond2" =>
       HereFlows = CondFlows(P, Step, pc, HereLoops, HereOwners, TRUE)
  /\ Step.op = "kComprehensionFinish" =>
       HereFlows = {Flow(pc, 0, OuterLoops(HereLoops), Emptied(HereOwners, {Step.slot}))}
BY ZenonT(60) DEF HereFlows, Flows

\* A jump along a flow.
LEMMA FlowsTo ==
  ASSUME abortStatus = "ok", NEW offset, NEW loops, NEW owners,
         Flow(pc, offset, loops, owners) \in HereFlows,
         JumpToOrAbort(offset), abortStatus' = "ok", Holds(slots', owners),
         RunsLoops(iteratorStack', IBase(Len(callStack)), loops),
         \A i \in 1 .. IBase(Len(callStack)) : LoopOn(iteratorStack'[i]) = LoopOn(iteratorStack[i])
  PROVE  FlowsOn
<1>1. PICK e \in HereFlows : e = Flow(pc, offset, loops, owners)
  OBVIOUS
<1>2. e.pc = pc + 1 + offset /\ e.loops = loops /\ e.owners = owners
  BY <1>1 DEF Flow
<1> QED BY <1>2, JumpLands DEF FlowsOn

\* The loops of a suspended caller end where those of its callee begin.
LEMMA CallerLoops ==
  ASSUME AllOwned, Certified, Inv, AtCertifiedHeights, NEW j \in 1 .. Len(callStack)
  PROVE  /\ callStack[j] \in Frame
         /\ callStack[j].path \in DOMAIN P.paths
         /\ callStack[j].pc \in 0 .. Len(P.paths[callStack[j].path])
         /\ IBase(j - 1) \in Nat /\ IBase(j) \in Nat
         /\ Len(C.loops[callStack[j].path][callStack[j].pc]) \in Nat
         /\ IBase(j) = IBase(j - 1) + Len(C.loops[callStack[j].path][callStack[j].pc])
<1>0. PICK f : f = callStack[j]
  OBVIOUS
<1>1. Len(callStack) \in Nat /\ callStack \in Seq(Frame)
  BY DEF Inv, TypeOK, ControlOK
<1>2. f \in Frame /\ f.path \in DOMAIN P.paths
  <2>1. f \in Frame
    BY <1>0, <1>1, ElementOfSeq
  <2> QED BY <2>1 DEF Frame
<1>3. /\ f.pc \in 0 .. Len(P.paths[f.path])
      /\ f.iters = IBase(j - 1) + C.iters[f.path][f.pc]
  BY <1>0 DEF AtCertifiedHeights, CallerOK
<1>4. /\ C.loops[f.path][f.pc] \in Seq(Loop)
      /\ Len(C.loops[f.path][f.pc]) = C.iters[f.path][f.pc]
  BY <1>2, <1>3, OwnerFacts
<1>5. Len(C.loops[f.path][f.pc]) \in Nat
  BY <1>4
<1>6. j \in 0 .. Len(callStack) /\ j - 1 \in 0 .. Len(callStack) /\ j # 0
  BY <1>1
<1>7. IBase(j - 1) \in Nat /\ IBase(j) \in Nat /\ IBase(j) = f.iters
  BY <1>0, <1>6, BaseFacts DEF Inv, IBase
<1> QED BY <1>0, <1>2, <1>3, <1>4, <1>5, <1>7

LEMMA IndexBelow ==
  ASSUME NEW from \in Nat, NEW to \in Nat, NEW end \in Nat, NEW m \in Nat,
         to = from + m, to <= end, NEW i \in 1 .. m
  PROVE  from + i \in 1 .. end
OBVIOUS

\* The loops of the callers are not touched.
LEMMA CallerLoopsKept ==
  ASSUME AllOwned, Certified, Inv, AtCertifiedHeights, NEW j \in 1 .. Len(callStack),
         NEW n \in 0 .. Len(callStack), j <= n,
         \A k, l \in 0 .. Len(callStack) : k <= l => IBase(k) <= IBase(l),
         NEW its,
         \A i \in 1 .. IBase(n) : LoopOn(its[i]) = LoopOn(iteratorStack[i]),
         NEW loops, loops = C.loops[callStack[j].path][callStack[j].pc],
         RunsLoops(iteratorStack, IBase(j - 1), loops)
  PROVE  RunsLoops(its, IBase(j - 1), loops)
<1>1. /\ IBase(j - 1) \in Nat /\ IBase(j) \in Nat /\ Len(loops) \in Nat
      /\ IBase(j) = IBase(j - 1) + Len(loops)
  BY CallerLoops
<1>2. IBase(j) <= IBase(n) /\ IBase(n) \in Nat
  <2>1. j \in 0 .. Len(callStack)
    BY DEF Inv, TypeOK, ControlOK
  <2> QED BY <2>1, BaseFacts DEF Inv
<1>3. PICK from \in Nat, to \in Nat, end \in Nat, m \in Nat :
        /\ from = IBase(j - 1) /\ to = IBase(j) /\ end = IBase(n) /\ m = Len(loops)
        /\ to = from + m /\ to <= end
  BY <1>1, <1>2
<1>4. ASSUME NEW i \in 1 .. m PROVE LoopOn(its[from + i]) = loops[i]
  <2>1. from + i \in 1 .. end
    BY <1>3, IndexBelow
  <2>2. LoopOn(iteratorStack[from + i]) = loops[i]
    BY <1>3 DEF RunsLoops
  <2>3. LoopOn(its[from + i]) = LoopOn(iteratorStack[from + i])
    BY <1>3, <2>1
  <2> QED BY <2>2, <2>3
<1> QED BY <1>3, <1>4 DEF RunsLoops

\* A step along a flow, or one that ends the evaluation, keeps the invariant.
LEMMA FlowPreserves ==
  ASSUME AllOwned, Certified, Inv, OwnerInv, Running, program' = program,
         abortStatus' = "ok" => FlowsOn
  PROVE  OwnerInv'
<1>0. PICK n \in Nat : n = Len(callStack)
  BY DEF Inv, TypeOK, ControlOK
<1>1. P' = P /\ C' = C
  BY SameProgram
<1>2. AtCertifiedHeights
  BY Heights
<1>3. /\ \A j \in 1 .. n : CallerKnown(j)
      /\ \A i, j \in 0 .. n : i <= j => IBase(i) <= IBase(j)
  BY <1>0, HereHolds DEF OwnerInv
<1> SUFFICES ASSUME abortStatus' = "ok"
             PROVE  /\ Holds(slots', C.owners[path'][pc'])
                    /\ RunsLoops(iteratorStack', IBase(n)', C.loops[path'][pc'])
                    /\ callStack' = callStack
                    /\ \A j \in 1 .. n : CallerKnown(j)'
                    /\ \A i, j \in 0 .. n : i <= j => IBase(i)' <= IBase(j)'
  BY <1>0, <1>1 DEF OwnerInv
<1>4. PICK e \in HereFlows :
        /\ pc' = e.pc /\ UNCHANGED <<path, callStack>>
        /\ Holds(slots', e.owners)
        /\ RunsLoops(iteratorStack', IBase(n), e.loops)
        /\ \A i \in 1 .. IBase(n) : LoopOn(iteratorStack'[i]) = LoopOn(iteratorStack[i])
  BY <1>0 DEF FlowsOn
<1>5. \A j \in 0 .. n : IBase(j)' = IBase(j)
  BY <1>4 DEF IBase
<1>6. C.loops[path][e.pc] = e.loops /\ e.owners \subseteq C.owners[path][e.pc]
  <2>1. OwnersAt(P, C, path, pc) /\ Step = P.paths[path][pc + 1]
    BY OwnerFacts
  <2> QED BY <1>4, <2>1 DEF OwnersAt, HereFlows, HereLoops, HereOwners
<1>7. Holds(slots', C.owners[path'][pc'])
  BY <1>4, <1>6, HoldsMore
<1>8. RunsLoops(iteratorStack', IBase(n)', C.loops[path'][pc'])
  BY <1>4, <1>5, <1>6
<1>9. ASSUME NEW j \in 1 .. n PROVE CallerKnown(j)'
  <2>0. PICK f : f = callStack[j]
    OBVIOUS
  <2>1. /\ f.pc >= 1 /\ P.paths[f.path][f.pc].op = "kLazyInit"
        /\ P.paths[f.path][f.pc].slot = f.slot
        /\ P.paths[f.path][f.pc].sub = Called(j)
        /\ RunsLoops(iteratorStack, IBase(j - 1), C.loops[f.path][f.pc])
    BY <1>3, <2>0 DEF CallerKnown
  <2>2. n \in 0 .. n /\ j <= n
    OBVIOUS
  <2>3. RunsLoops(iteratorStack', IBase(j - 1), C.loops[f.path][f.pc])
    BY <1>0, <1>2, <1>3, <1>4, <2>0, <2>1, <2>2, CallerLoopsKept
  <2>4. Called(j)' = Called(j) /\ IBase(j - 1)' = IBase(j - 1)
    BY <1>4, <1>5 DEF Called
  <2> QED BY <1>1, <1>4, <2>0, <2>1, <2>3, <2>4 DEF CallerKnown
<1>10. \A i, j \in 0 .. n : i <= j => IBase(i)' <= IBase(j)'
  BY <1>3, <1>5
<1> QED BY <1>4, <1>7, <1>8, <1>9, <1>10

-----------------------------------------------------------------------------
(***************************************************************************)
(* The steps that leave slots and loops alone, and the call.                *)
(***************************************************************************)
QuietOps ==
  {"kConstant", "kReadSlot", "kLazyInit", "kBooleanOrJump", "kBooleanAndJump",
   "kTernaryJump", "kFixedJump", "kBooleanNot", "kNotStrictlyFalse", "kBooleanOr",
   "kBooleanAnd", "kTernary", "kEagerFunction", "kLazyFunction", "kFastEqual",
   "kFastNotEqual", "kFastIn", "kNewMutableList", "kCreateList", "kMutableListAppend"}

LEMMA QuietOp == ASSUME TypeOK, Quiet PROVE Step.op \in QuietOps
<1>1. CASE Constant \/ ReadSlot \/ LazyInit \/ TernaryJump \/ FixedJump
  BY <1>1, AtFacts DEF Constant, ReadSlot, LazyInit, TernaryJump, FixedJump, QuietOps
<1>2. CASE BoolJump("kBooleanOrJump", TRUE) \/ BoolJump("kBooleanAndJump", FALSE)
  BY <1>2, AtFacts DEF BoolJump, QuietOps
<1>3. CASE BooleanNot \/ NotStrictlyFalse \/ BooleanOr \/ BooleanAnd \/ Ternary
           \/ FastEqual \/ FastNotEqual \/ FastIn
  <2>1. \E op \in QuietOps : At(op)
    BY <1>3 DEF BooleanNot, NotStrictlyFalse, BooleanOr, BooleanAnd, Ternary, FastEqual,
                FastNotEqual, FastIn, Strict, QuietOps
  <2> QED BY <2>1, AtFacts
<1>4. CASE EagerFunction \/ LazyFunction \/ NewMutableList \/ CreateList \/ MutableListAppend
  BY <1>4, AtFacts DEF EagerFunction, LazyFunction, NewMutableList, CreateList,
     MutableListAppend, QuietOps
<1> QED BY <1>1, <1>2, <1>3, <1>4 DEF Quiet

LEMMA EdgeTarget ==
  ASSUME NEW q, NEW offset, NEW d, NEW i PROVE Edge(q, offset, d, i).pc = q + 1 + offset
BY DEF Edge

\* Where these steps lead does not depend on the heights.
LEMMA SameTargets ==
  ASSUME NEW s, s.op \in QuietOps, NEW q, NEW d, NEW i, NEW e \in Edges(s, q, d, i)
  PROVE  \E f \in Edges(s, q, 0, 0) : f.pc = e.pc
<1>1. CASE s.op \in {"kConstant", "kReadSlot", "kLazyInit", "kNewMutableList"}
  <2>1. /\ Edges(s, q, d, i) = {Edge(q, 0, d + 1, i)}
        /\ Edges(s, q, 0, 0) = {Edge(q, 0, 0 + 1, 0)}
    BY <1>1, EdgeTable
  <2> QED BY <2>1, EdgeTarget
<1>2. CASE s.op \in {"kBooleanNot", "kNotStrictlyFalse"}
  <2>1. /\ Edges(s, q, d, i) = {Edge(q, 0, d, i)}
        /\ Edges(s, q, 0, 0) = {Edge(q, 0, 0, 0)}
    BY <1>2, EdgeTable
  <2> QED BY <2>1, EdgeTarget
<1>3. CASE s.op \in {"kBooleanOrJump", "kBooleanAndJump"}
  <2>1. /\ Edges(s, q, d, i) = {Edge(q, 0, d, i), Edge(q, s.offset, d - s.argc + 1, i)}
        /\ Edges(s, q, 0, 0) = {Edge(q, 0, 0, 0), Edge(q, s.offset, 0 - s.argc + 1, 0)}
    BY <1>3, EdgeTable
  <2> QED BY <2>1, EdgeTarget
<1>4. CASE s.op = "kTernaryJump"
  <2>1. /\ Edges(s, q, d, i) = {Edge(q, 0, d - 1, i), Edge(q, s.offset2, d - 1, i),
                                Edge(q, s.offset, d, i)}
        /\ Edges(s, q, 0, 0) = {Edge(q, 0, 0 - 1, 0), Edge(q, s.offset2, 0 - 1, 0),
                                Edge(q, s.offset, 0, 0)}
    BY <1>4, EdgeTable
  <2> QED BY <2>1, EdgeTarget
<1>5. CASE s.op = "kFixedJump"
  <2>1. /\ Edges(s, q, d, i) = {Edge(q, s.offset, d, i)}
        /\ Edges(s, q, 0, 0) = {Edge(q, s.offset, 0, 0)}
    BY <1>5, EdgeTable
  <2> QED BY <2>1, EdgeTarget
<1>6. CASE s.op \in {"kBooleanOr", "kBooleanAnd", "kTernary", "kEagerFunction", "kLazyFunction",
                     "kFastEqual", "kFastNotEqual", "kFastIn", "kMutableListAppend",
                     "kCreateList"}
  <2>1. /\ Edges(s, q, d, i) = {Edge(q, 0, d - ValuesNeeded(s) + 1, i)}
        /\ Edges(s, q, 0, 0) = {Edge(q, 0, 0 - ValuesNeeded(s) + 1, 0)}
    BY <1>6, EdgeTable
  <2> QED BY <2>1, EdgeTarget
<1> QED BY <1>1, <1>2, <1>3, <1>4, <1>5, <1>6 DEF QuietOps

\* The flows of these steps keep loops and owners.
LEMMA QuietFlow ==
  ASSUME Step.op \in QuietOps, NEW e \in HereEdges
  PROVE  \E f \in HereFlows :
           f.pc = e.pc /\ f.loops = HereLoops /\ f.owners = HereOwners
<1>1. PICK g \in Edges(Step, pc, 0, 0) : g.pc = e.pc
  BY SameTargets DEF HereEdges
<1>2. HereFlows =
        {[pc |-> h.pc, loops |-> HereLoops, owners |-> HereOwners] : h \in Edges(Step, pc, 0, 0)}
  <2>1. Step.op \notin {"kIdentifier", "kAssignSlotAndPop", "kClearSlots",
                       "kComprehensionInit", "kComprehensionNext", "kComprehensionNext2",
                       "kComprehensionCond", "kComprehensionCond2", "kComprehensionFinish"}
    BY DEF QuietOps
  <2> QED BY <2>1, ZenonT(60) DEF HereFlows, Flows
<1>3. PICK f : f = [pc |-> g.pc, loops |-> HereLoops, owners |-> HereOwners]
  OBVIOUS
<1>4. f \in HereFlows
  BY <1>2, <1>3
<1>5. f.pc = e.pc /\ f.loops = HereLoops /\ f.owners = HereOwners
  BY <1>1, <1>3
<1> QED BY <1>4, <1>5

\* Call: the callee finds what its caller may have left, and the caller will
\* find its loops again.
LEMMA EntersOwners ==
  ASSUME AllOwned, Certified, Inv, OwnerInv, Running, program' = program, Enters,
         UNCHANGED slots
  PROVE  OwnerInv'
<1>0. PICK n \in Nat, k \in {path}, sub \in {Step.sub} : n = Len(callStack) /\ k = path /\ sub = Step.sub
  BY DEF Inv, TypeOK, ControlOK
<1> DEFINE f == [pc |-> pc + 1, path |-> k, slot |-> Step.slot,
                 expected |-> Len(valueStack) + 1, iters |-> Len(iteratorStack)]
<1>1. P' = P /\ C' = C
  BY SameProgram
<1>2. /\ callStack' = Append(callStack, f) /\ pc' = 0 /\ path' = sub
      /\ iteratorStack' = iteratorStack /\ Step.op = "kLazyInit"
  BY <1>0 DEF Enters, Call
<1>3. /\ k \in DOMAIN P.paths /\ sub \in DOMAIN P.paths
      /\ pc \in Nat /\ Step = P.paths[k][pc + 1]
  BY <1>0, <1>2, StepFacts DEF Inv
<1>4. f.pc = pc + 1 /\ f.path = k /\ f.slot = Step.slot /\ f.iters = Len(iteratorStack)
  OBVIOUS
<1>5. callStack \in Seq(Frame) /\ Len(callStack) = n
  BY <1>0 DEF Inv, TypeOK, ControlOK
<1> HIDE DEF f
<1>6. /\ Len(callStack') = n + 1
      /\ \A j \in 1 .. n : callStack'[j] = callStack[j]
      /\ callStack'[n + 1] = f
  BY <1>2, <1>5
<1>7. /\ Holds(slots, HereOwners) /\ OwnersAt(P, C, k, pc)
      /\ RunsLoops(iteratorStack, IBase(n), HereLoops)
      /\ IBase(n) \in Nat /\ I \in Nat /\ Len(iteratorStack) = IBase(n) + I
      /\ \A j \in 1 .. n : CallerKnown(j)
      /\ \A i, j \in 0 .. n : i <= j => IBase(i) <= IBase(j)
  BY <1>0, HereHolds DEF OwnerInv
<1>8. HereOwners \subseteq C.owners[sub][0] /\ C.loops[sub][0] = <<>>
  BY <1>0, <1>2, <1>3, <1>7, OwnerFacts DEF OwnersAt, HereOwners
<1>9. C.loops[k][pc + 1] = HereLoops
  <2>1. Edge(pc, 0, D + 1, I) \in HereEdges
    BY <1>2, EdgeTable DEF HereEdges
  <2>2. PICK e \in HereFlows :
          e.pc = Edge(pc, 0, D + 1, I).pc /\ e.loops = HereLoops
    BY <1>2, <2>1, QuietFlow DEF QuietOps
  <2>3. e.pc = pc + 1
    BY <1>3, <2>2 DEF Edge
  <2> QED BY <1>0, <1>3, <1>7, <2>2, <2>3 DEF OwnersAt, HereFlows, HereLoops, HereOwners
<1>10. /\ IBase(n + 1)' = Len(iteratorStack)
       /\ \A j \in 0 .. n : IBase(j)' = IBase(j)
  BY <1>4, <1>6 DEF IBase
<1>11. Holds(slots', C.owners[path'][pc'])
  BY <1>2, <1>7, <1>8, HoldsMore
<1>12. RunsLoops(iteratorStack', IBase(n + 1)', C.loops[path'][pc'])
  BY <1>2, <1>8 DEF RunsLoops
<1>13. ASSUME NEW j \in 1 .. n PROVE CallerKnown(j)'
  <2>1. CallerKnown(j)
    BY <1>7
  <2>2. Called(j)' = Called(j)
    <3>1. CASE j = n
      BY <1>0, <1>4, <1>6, <3>1 DEF Called
    <3>2. CASE j # n
      <4>1. j + 1 \in 1 .. n /\ j # n + 1
        BY <3>2
      <4> QED BY <1>0, <1>6, <3>2, <4>1 DEF Called
    <3> QED BY <3>1, <3>2
  <2>3. IBase(j - 1)' = IBase(j - 1) /\ callStack'[j] = callStack[j]
    BY <1>6, <1>10
  <2> QED BY <1>1, <1>2, <2>1, <2>2, <2>3 DEF CallerKnown
<1>14. CallerKnown(n + 1)'
  <2>1. Called(n + 1)' = sub
    BY <1>2, <1>6 DEF Called
  <2>2. IBase(n + 1 - 1)' = IBase(n)
    BY <1>10
  <2> QED BY <1>0, <1>1, <1>2, <1>3, <1>4, <1>6, <1>7, <1>9, <2>1, <2>2 DEF CallerKnown
<1>15. ASSUME NEW i \in 0 .. n + 1, NEW j \in 0 .. n + 1, i <= j PROVE IBase(i)' <= IBase(j)'
  <2>1. CASE j \in 0 .. n
    BY <1>7, <1>10, <1>15, <2>1
  <2>2. CASE j = n + 1 /\ i = n + 1
    BY <1>7, <1>10, <2>2
  <2>3. CASE j = n + 1 /\ i \in 0 .. n
    <3>1. IBase(i) <= IBase(n) /\ IBase(i) \in Nat
      BY <1>0, <1>7, <2>3, Heights, BaseFacts DEF Inv
    <3> QED BY <1>7, <1>10, <2>3, <3>1
  <2> QED BY <2>1, <2>2, <2>3
<1>16. /\ \A j \in 1 .. n + 1 : CallerKnown(j)'
       /\ \A i, j \in 0 .. n + 1 : i <= j => IBase(i)' <= IBase(j)'
  <2>1. \A j \in 1 .. n + 1 : CallerKnown(j)'
    <3>1. \A j \in 1 .. n + 1 : j \in 1 .. n \/ j = n + 1
      OBVIOUS
    <3> QED BY <1>13, <1>14, <3>1
  <2> QED BY <1>15, <2>1
<1>17. /\ RunsLoops(iteratorStack, IBase(Len(callStack)), C.loops[path][pc])'
       /\ (\A j \in 1 .. Len(callStack) : CallerKnown(j))'
       /\ (\A i, j \in 0 .. Len(callStack) : i <= j => IBase(i) <= IBase(j))'
  <2>1. RunsLoops(iteratorStack, IBase(Len(callStack)), C.loops[path][pc])'
    BY <1>1, <1>6, <1>12
  <2> QED BY <1>6, <1>16, <2>1
<1>18. Holds(slots, C.owners[path][pc])'
  BY <1>1, <1>11
<1> QED BY <1>17, <1>18 DEF OwnerInv

LEMMA QuietOwners ==
  ASSUME AllOwned, Certified, Inv, OwnerInv, Quiet
  PROVE  OwnerInv'
<1>1. Running /\ program' = program /\ UNCHANGED <<slots, iteratorStack>>
  BY QuietSteps DEF Inv
<1>2. Step.op \in QuietOps
  BY QuietOp DEF Inv
<1>3. StepShape
  <2>1. EvaluateStep
    BY DEF Quiet, EvaluateStep
  <2> QED BY <2>1, EvaluateStepShape DEF StepOK
<1>4. CASE \E e \in HereEdges : Follows(e)
  <2>1. PICK e \in HereEdges : Follows(e)
    BY <1>4
  <2>2. PICK f \in HereFlows :
          f.pc = e.pc /\ f.loops = HereLoops /\ f.owners = HereOwners
    BY <1>2, QuietFlow
  <2>3. pc' = f.pc /\ UNCHANGED <<path, callStack>>
    BY <2>1, <2>2 DEF Follows
  <2>4. FlowsOn
    BY <1>1, <2>2, <2>3, HereHolds DEF FlowsOn
  <2> QED BY <1>1, <2>4, FlowPreserves
<1>5. CASE Enters
  BY <1>1, <1>5, EntersOwners
<1>6. CASE CutShort
  BY <1>6 DEF CutShort, Failures, OwnerInv
<1> QED BY <1>3, <1>4, <1>5, <1>6 DEF StepShape

-----------------------------------------------------------------------------
(***************************************************************************)
(* The steps that set and clear slots.                                      *)
(***************************************************************************)
LEMMA IdentifierOwners ==
  ASSUME AllOwned, Certified, Inv, OwnerInv, Identifier
  PROVE  OwnerInv'
<1>1. Running /\ program' = program /\ Step.op = "kIdentifier"
  BY AtFacts DEF Identifier, Inv
<1>2. abortStatus = "ok" /\ DOMAIN slots = SlotIndex /\ Holds(slots, HereOwners)
  BY <1>1, HereHolds
<1>3. UNCHANGED iteratorStack /\ RunsLoops(iteratorStack, IBase(Len(callStack)), HereLoops)
  BY <1>1, HereHolds DEF Identifier, Replace
<1> DEFINE w == <<"ident", Step.slot>>
           more == HereOwners \cup {<<Step.slot, w>>}
<1>4. Flow(pc, 0, HereLoops, more) \in HereFlows
  BY <1>1, FlowTable
<1>5. Step.slot \in DOMAIN slots
  BY <1>1, <1>2, SlotSpanTable, SlotFacts DEF Inv
<1> SUFFICES ASSUME abortStatus' = "ok" PROVE FlowsOn
  BY <1>1, FlowPreserves
<1>6. ASSUME Continue, Holds(slots', more) PROVE FlowsOn
  BY <1>2, <1>3, <1>4, <1>6, FlowsTo DEF Continue
<1>7. CASE Replace(0, slots[Step.slot].value)
  <2>1. Holds(slots', more)
    BY <1>2, <1>7, HoldsMore DEF Replace
  <2> QED BY <1>6, <1>7, <2>1 DEF Replace
<1>8. ASSUME NEW v, PushIdentifier(v) PROVE FlowsOn
  <2>1. Holds([slots EXCEPT ![Step.slot] = Filled(v, w)], Owned(HereOwners, Step.slot, w))
    BY <1>2, <1>5, FilledHolds
  <2>2. Owned(HereOwners, Step.slot, w) \subseteq more
    BY DEF Owned, Emptied
  <2>3. Holds(slots', more)
    BY <1>8, <2>1, <2>2, HoldsMore DEF PushIdentifier
  <2> QED BY <1>6, <1>8, <2>3 DEF PushIdentifier
<1>9. CASE LookupIdent
  <2>1. ASSUME Abort("lookup") PROVE FALSE
    BY <1>2, <2>1 DEF Abort
  <2> QED BY <1>8, <1>9, <2>1 DEF LookupIdent
<1> QED BY <1>7, <1>9 DEF Identifier

LEMMA SlotStepOwners ==
  ASSUME AllOwned, Certified, Inv, OwnerInv, AssignSlotAndPop \/ ClearSlotsStep
  PROVE  OwnerInv'
<1>1. \E op : At(op)
  BY DEF AssignSlotAndPop, ClearSlotsStep
<1>2. Running /\ program' = program
  BY <1>1, AtFacts DEF Inv
<1>3. abortStatus = "ok" /\ DOMAIN slots = SlotIndex /\ Holds(slots, HereOwners)
  BY <1>2, HereHolds
<1>4. UNCHANGED iteratorStack /\ RunsLoops(iteratorStack, IBase(Len(callStack)), HereLoops)
  BY <1>2, HereHolds DEF AssignSlotAndPop, ClearSlotsStep, AbortStep
<1> SUFFICES ASSUME abortStatus' = "ok" PROVE FlowsOn
  BY <1>2, FlowPreserves
<1>5. CASE AssignSlotAndPop
  <2> DEFINE w == <<"assign", Step.slot>>
             owned == Owned(HereOwners, Step.slot, w)
  <2>1. Step.op = "kAssignSlotAndPop"
    BY <1>5, AtFacts DEF AssignSlotAndPop, Inv
  <2>2. Flow(pc, 0, HereLoops, owned) \in HereFlows
    BY <2>1, FlowTable
  <2>3. Step.slot \in DOMAIN slots
    BY <1>2, <1>3, <2>1, SlotSpanTable, SlotFacts DEF Inv
  <2>4. slots' = [slots EXCEPT ![Step.slot] = Filled(Top, w)] /\ Continue
    BY <1>3, <1>5 DEF AssignSlotAndPop, AbortStep, Abort
  <2>5. Holds(slots', owned)
    BY <1>3, <2>3, <2>4, FilledHolds
  <2> HIDE DEF owned
  <2> QED BY <1>3, <1>4, <2>2, <2>4, <2>5, FlowsTo DEF Continue
<1>6. CASE ClearSlotsStep
  <2> DEFINE dead == Step.slot .. Step.slot + Step.argc - 1
  <2>1. Step.op = "kClearSlots"
    BY <1>6, AtFacts DEF ClearSlotsStep, Inv
  <2>2. Flow(pc, 0, HereLoops, Emptied(HereOwners, dead))
          \in HereFlows
    BY <2>1, FlowTable
  <2>3. slots' = ClearSlots(slots, dead) /\ Continue
    BY <1>6 DEF ClearSlotsStep
  <2> HIDE DEF dead
  <2>4. Holds(slots', Emptied(HereOwners, dead))
    BY <1>3, <2>3, ClearedHolds
  <2> QED BY <1>3, <1>4, <2>2, <2>3, <2>4, FlowsTo DEF Continue
<1> QED BY <1>5, <1>6

-----------------------------------------------------------------------------
(***************************************************************************)
(* The steps of the loops.                                                  *)
(***************************************************************************)
LEMMA AppendElements ==
  ASSUME NEW S, NEW s \in Seq(S), NEW x
  PROVE  /\ Append(s, x)[Len(s) + 1] = x
         /\ \A i \in 1 .. Len(s) : Append(s, x)[i] = s[i]
OBVIOUS

\* Iterators that keep their slots run the same loops.
LEMMA SameRuns ==
  ASSUME AllOwned, Certified, Inv, OwnerInv, Running, NEW its,
         \A i \in 1 .. Len(iteratorStack) : LoopOn(its[i]) = LoopOn(iteratorStack[i])
  PROVE  /\ RunsLoops(its, IBase(Len(callStack)), HereLoops)
         /\ \A i \in 1 .. IBase(Len(callStack)) : LoopOn(its[i]) = LoopOn(iteratorStack[i])
<1>1. PICK base \in Nat, m \in Nat :
        /\ base = IBase(Len(callStack)) /\ m = Len(HereLoops)
        /\ Len(iteratorStack) = base + m
        /\ RunsLoops(iteratorStack, base, HereLoops)
  BY HereHolds
<1>2. ASSUME NEW i \in 1 .. m PROVE LoopOn(its[base + i]) = HereLoops[i]
  <2>1. base + i \in 1 .. Len(iteratorStack)
    BY <1>1
  <2>2. LoopOn(iteratorStack[base + i]) = HereLoops[i]
    BY <1>1 DEF RunsLoops
  <2> QED BY <2>1, <2>2
<1>3. \A i \in 1 .. base : i \in 1 .. Len(iteratorStack)
  BY <1>1
<1> QED BY <1>1, <1>2, <1>3 DEF RunsLoops

\* The iterator on top is that of the innermost loop.
LEMMA InnerRuns ==
  ASSUME AllOwned, Certified, Inv, OwnerInv, Running, IteratorsNeeded(Step) = 1
  PROVE  /\ 1 <= Len(iteratorStack)
         /\ Iterator.iter = InnerLoop(HereLoops).iter
         /\ Iterator.iter2 = InnerLoop(HereLoops).iter2
         /\ Iterator.accu = InnerLoop(HereLoops).accu
         /\ Iterator.iter \in DOMAIN slots /\ Iterator.iter2 \in DOMAIN slots
         /\ Iterator.accu \in DOMAIN slots
         /\ RunsLoops(PopIterator, IBase(Len(callStack)), OuterLoops(HereLoops))
         /\ \A i \in 1 .. IBase(Len(callStack)) : LoopOn(PopIterator[i]) = LoopOn(iteratorStack[i])
<1>1. PICK base \in Nat, m \in Nat :
        /\ base = IBase(Len(callStack)) /\ m = Len(HereLoops)
        /\ Len(iteratorStack) = base + m
        /\ RunsLoops(iteratorStack, base, HereLoops)
  BY HereHolds
<1>2. m >= 1
  BY <1>1, HereHolds, PositionFacts DEF Inv
<1>3. 1 <= Len(iteratorStack) /\ DOMAIN slots = SlotIndex
  BY <1>1, <1>2, HereHolds
<1>4. /\ Iterator.iter \in SlotIndex /\ Iterator.iter2 \in SlotIndex
      /\ Iterator.accu \in SlotIndex
  BY <1>3, IteratorFacts DEF Inv
<1>5. LoopOn(Iterator) = InnerLoop(HereLoops)
  <2>1. m \in 1 .. m
    BY <1>2
  <2>2. LoopOn(iteratorStack[base + m]) = HereLoops[m]
    BY <1>1, <2>1 DEF RunsLoops
  <2> QED BY <1>1, <2>2 DEF Iterator, InnerLoop
<1>6. \A i \in 1 .. Len(iteratorStack) - 1 : PopIterator[i] = iteratorStack[i]
  BY <1>3, HereHolds DEF PopIterator
<1>7. /\ Len(OuterLoops(HereLoops)) = m - 1
      /\ \A i \in 1 .. m - 1 : OuterLoops(HereLoops)[i] = HereLoops[i]
  BY <1>1, <1>2, HereHolds DEF OuterLoops
<1>8. ASSUME NEW i \in 1 .. m - 1 PROVE LoopOn(PopIterator[base + i]) = OuterLoops(HereLoops)[i]
  <2>1. base + i \in 1 .. Len(iteratorStack) - 1
    BY <1>1
  <2>2. LoopOn(iteratorStack[base + i]) = HereLoops[i]
    BY <1>1 DEF RunsLoops
  <2> QED BY <1>6, <1>7, <2>1, <2>2
<1>9. \A i \in 1 .. base : i \in 1 .. Len(iteratorStack) - 1
  BY <1>1, <1>2
<1>10. RunsLoops(PopIterator, base, OuterLoops(HereLoops))
  BY <1>7, <1>8 DEF RunsLoops
<1> QED BY <1>1, <1>3, <1>4, <1>5, <1>6, <1>9, <1>10 DEF LoopOn

LEMMA InitOwners ==
  ASSUME AllOwned, Certified, Inv, OwnerInv, ComprehensionInit
  PROVE  OwnerInv'
<1>1. Running /\ program' = program /\ Step.op = "kComprehensionInit"
  BY AtFacts DEF ComprehensionInit, Inv
<1>2. HasEnough(1) /\ 1 \in Nat
  BY <1>1, NeededTable, Heights
<1>3. abortStatus = "ok" /\ Holds(slots', HereOwners)
  BY <1>1, <1>2, HereHolds DEF ComprehensionInit
<1>4. PICK base \in Nat, m \in Nat :
        /\ base = IBase(Len(callStack)) /\ m = Len(HereLoops)
        /\ Len(iteratorStack) = base + m
        /\ iteratorStack \in Seq(IteratorEntry(Len(arena))) /\ HereLoops \in Seq(Loop)
        /\ RunsLoops(iteratorStack, base, HereLoops)
  BY <1>1, HereHolds
<1> SUFFICES ASSUME abortStatus' = "ok" PROVE FlowsOn
  BY <1>1, FlowPreserves
<1>5. CASE UNCHANGED iteratorStack /\ JumpToOrAbort(Step.offset)
  <2>1. Flow(pc, Step.offset, HereLoops, HereOwners) \in HereFlows
    BY <1>1, FlowTable
  <2> QED BY <1>3, <1>4, <1>5, <2>1, FlowsTo
<1>6. CASE IsContainer(Top) /\ iteratorStack' = Append(iteratorStack, NewIterator(Top)) /\ Continue
  <2>0. PICK ls : ls = Append(HereLoops, LoopOf(Step))
    OBVIOUS
  <2>1. Flow(pc, 0, ls, HereOwners) \in HereFlows
    BY <1>1, <2>0, FlowTable
  <2>2. /\ Len(ls) = m + 1 /\ ls[m + 1] = LoopOf(Step)
        /\ \A i \in 1 .. m : ls[i] = HereLoops[i]
    BY <1>4, <2>0
  <2>3. /\ iteratorStack'[base + m + 1] = NewIterator(Top)
        /\ \A i \in 1 .. base + m : iteratorStack'[i] = iteratorStack[i]
    <3>1. PICK it : it = NewIterator(Top)
      OBVIOUS
    <3>2. iteratorStack' = Append(iteratorStack, it)
      BY <1>6, <3>1
    <3>3. /\ iteratorStack'[Len(iteratorStack) + 1] = it
          /\ \A i \in 1 .. Len(iteratorStack) : iteratorStack'[i] = iteratorStack[i]
      BY <1>4, <3>2, AppendElements
    <3> QED BY <1>4, <3>1, <3>3
  <2>4. LoopOn(NewIterator(Top)) = LoopOf(Step)
    BY DEF LoopOn, NewIterator, LoopOf
  <2>5. ASSUME NEW i \in 1 .. m + 1 PROVE LoopOn(iteratorStack'[base + i]) = ls[i]
    <3>1. CASE i = m + 1
      <4>1. base + i = base + m + 1
        BY <3>1
      <4> QED BY <2>2, <2>3, <2>4, <3>1, <4>1
    <3>2. CASE i \in 1 .. m
      <4>1. base + i \in 1 .. base + m
        BY <3>2
      <4>2. LoopOn(iteratorStack[base + i]) = HereLoops[i]
        BY <1>4, <3>2 DEF RunsLoops
      <4> QED BY <2>2, <2>3, <3>2, <4>1, <4>2
    <3> QED BY <3>1, <3>2
  <2>6. RunsLoops(iteratorStack', base, ls)
    BY <2>2, <2>5 DEF RunsLoops
  <2>7. \A i \in 1 .. base : LoopOn(iteratorStack'[i]) = LoopOn(iteratorStack[i])
    BY <2>3
  <2> QED BY <1>3, <1>4, <1>6, <2>1, <2>6, <2>7, FlowsTo DEF Continue
<1>7. ~Abort("iterator")
  BY <1>3, AbortIsOver
<1> QED BY <1>2, <1>5, <1>6, <1>7 DEF ComprehensionInit

LEMMA NextOwners ==
  ASSUME AllOwned, Certified, Inv, OwnerInv,
         NEW op, NEW two \in BOOLEAN, ComprehensionNext(op, two),
         \/ op = "kComprehensionNext" /\ two = FALSE
         \/ op = "kComprehensionNext2" /\ two = TRUE
  PROVE  OwnerInv'
<1>1. Running /\ program' = program /\ Step.op = op
  BY AtFacts DEF ComprehensionNext, Inv
<1>2. HasEnough(2) /\ iteratorStack # <<>> /\ IteratorsNeeded(Step) = 1
  BY <1>1, NeededTable, Heights, IteratorFacts DEF Inv
<1>3. abortStatus = "ok" /\ Holds(slots, HereOwners)
  BY <1>1, HereHolds
<1>4. PICK loop : /\ loop = InnerLoop(HereLoops)
                  /\ Iterator.iter = loop.iter /\ Iterator.iter2 = loop.iter2
                  /\ Iterator.accu = loop.accu
                  /\ loop.iter \in DOMAIN slots /\ loop.iter2 \in DOMAIN slots
                  /\ loop.accu \in DOMAIN slots
  BY <1>1, <1>2, InnerRuns
<1>5. HereFlows =
        {Flow(pc, 0, HereLoops, Iterated(HereOwners, loop, two)),
         Flow(pc, Step.offset, HereLoops, Exhausted(HereOwners, loop, two))}
  <2>1. HereFlows =
          NextFlows(Step, pc, HereLoops, HereOwners, two)
    BY <1>1, FlowTable
  <2> QED BY <1>4, <2>1 DEF NextFlows
<1> DEFINE accu == <<"accu", loop.iter>>
           iter == <<"iter", loop.iter>>
<1> SUFFICES ASSUME abortStatus' = "ok" PROVE FlowsOn
  BY <1>1, FlowPreserves
<1>6. CASE /\ slots' = ClearSlots([slots EXCEPT ![Iterator.accu] =
                                     Filled(Top, <<"accu", Iterator.iter>>)],
                                  IF two THEN {Iterator.iter, Iterator.iter2}
                                         ELSE {Iterator.iter})
           /\ JumpToOrAbort(Step.offset)
           /\ UNCHANGED iteratorStack
  <2> DEFINE kept == [slots EXCEPT ![loop.accu] = Filled(Top, accu)]
             dead == IF two THEN {loop.iter, loop.iter2} ELSE {loop.iter}
  <2>1. slots' = ClearSlots(kept, dead)
    BY <1>4, <1>6
  <2>2. Holds(kept, Owned(HereOwners, loop.accu, accu))
    BY <1>3, <1>4, FilledHolds
  <2>3. Exhausted(HereOwners, loop, two) = Emptied(Owned(HereOwners, loop.accu, accu), dead)
    BY DEF Exhausted
  <2> HIDE DEF kept, dead
  <2>4. Holds(slots', Exhausted(HereOwners, loop, two))
    BY <2>1, <2>2, <2>3, ClearedHolds
  <2>5. /\ RunsLoops(iteratorStack', IBase(Len(callStack)), HereLoops)
        /\ \A i \in 1 .. IBase(Len(callStack)) : LoopOn(iteratorStack'[i]) = LoopOn(iteratorStack[i])
    BY <1>1, <1>6, SameRuns
  <2> QED BY <1>3, <1>5, <1>6, <2>4, <2>5, FlowsTo
<1>7. CASE slots' = IterationSlots(Iterator, two) /\ iteratorStack' = Advanced(two) /\ Continue
  <2>1. Holds(slots', Iterated(HereOwners, loop, two))
    <3>0. PICK key, val, one, top :
            /\ one = Filled(IF Iterator.map THEN key ELSE val, iter)
            /\ top = Filled(Top, accu)
            /\ slots' = IF two
                        THEN [[[slots EXCEPT ![loop.iter] = Filled(key, iter)]
                                 EXCEPT ![loop.iter2] = Filled(val, iter)]
                                 EXCEPT ![loop.accu] = top]
                        ELSE [[slots EXCEPT ![loop.iter] = one] EXCEPT ![loop.accu] = top]
      BY <1>4, <1>7 DEF IterationSlots
    <3>1. CASE ~two
      <4>0. PICK s1 : s1 = [slots EXCEPT ![loop.iter] = one]
        OBVIOUS
      <4>1. DOMAIN s1 = DOMAIN slots /\ Holds(s1, Owned(HereOwners, loop.iter, iter))
        BY <1>3, <1>4, <3>0, <4>0, FilledHolds
      <4>2. Holds(slots', Owned(Owned(HereOwners, loop.iter, iter), loop.accu, accu))
        BY <1>4, <3>0, <3>1, <4>0, <4>1, FilledHolds
      <4> QED BY <3>1, <4>2 DEF Iterated
    <3>2. CASE two
      <4>0. PICK s1, s2 : /\ s1 = [slots EXCEPT ![loop.iter] = Filled(key, iter)]
                          /\ s2 = [s1 EXCEPT ![loop.iter2] = Filled(val, iter)]
        OBVIOUS
      <4>1. DOMAIN s1 = DOMAIN slots /\ Holds(s1, Owned(HereOwners, loop.iter, iter))
        BY <1>3, <1>4, <4>0, FilledHolds
      <4>2. /\ DOMAIN s2 = DOMAIN slots
            /\ Holds(s2, Owned(Owned(HereOwners, loop.iter, iter), loop.iter2, iter))
        BY <1>4, <4>0, <4>1, FilledHolds
      <4>3. slots' = [s2 EXCEPT ![loop.accu] = Filled(Top, accu)]
        BY <3>0, <3>2, <4>0
      <4>4. Holds(slots', Owned(Owned(Owned(HereOwners, loop.iter, iter), loop.iter2, iter),
                                loop.accu, accu))
        BY <1>4, <4>2, <4>3, FilledHolds
      <4> QED BY <3>2, <4>4 DEF Iterated
    <3> QED BY <3>1, <3>2
  <2>2. \A i \in 1 .. Len(iteratorStack) : LoopOn(iteratorStack'[i]) = LoopOn(iteratorStack[i])
    <3>1. iteratorStack \in Seq(IteratorEntry(Len(arena))) /\ Iterator \in IteratorEntry(Len(arena))
      BY <1>1, <1>2, HereHolds, InnerRuns, IteratorFacts DEF Inv
    <3> QED BY <1>7, <3>1 DEF Advanced, LoopOn, Iterator, IteratorEntry
  <2>3. /\ RunsLoops(iteratorStack', IBase(Len(callStack)), HereLoops)
        /\ \A i \in 1 .. IBase(Len(callStack)) : LoopOn(iteratorStack'[i]) = LoopOn(iteratorStack[i])
    BY <1>1, <2>2, SameRuns
  <2> QED BY <1>3, <1>5, <1>7, <2>1, <2>3, FlowsTo DEF Continue
<1>8. ~Abort("budget") /\ ~Abort("iterator")
  BY <1>3, AbortIsOver
<1> QED BY <1>2, <1>6, <1>7, <1>8 DEF ComprehensionNext

LEMMA CondOwners ==
  ASSUME AllOwned, Certified, Inv, OwnerInv,
         NEW op, NEW two \in BOOLEAN, ComprehensionCond(op, two),
         \/ op = "kComprehensionCond" /\ two = FALSE
         \/ op = "kComprehensionCond2" /\ two = TRUE
  PROVE  OwnerInv'
<1>1. Running /\ program' = program /\ Step.op = op
  BY AtFacts DEF ComprehensionCond, Inv
<1>2. HasEnough(2) /\ iteratorStack # <<>> /\ IteratorsNeeded(Step) = 1
  BY <1>1, NeededTable, Heights, IteratorFacts DEF Inv
<1>3. abortStatus = "ok" /\ Holds(slots, HereOwners)
  BY <1>1, HereHolds
<1>4. PICK loop : /\ loop = InnerLoop(HereLoops)
                  /\ Iterator.iter = loop.iter /\ Iterator.iter2 = loop.iter2
                  /\ Iterator.accu = loop.accu
  BY <1>1, <1>2, InnerRuns
<1>5. HereFlows =
        {Flow(pc, 0, HereLoops, HereOwners),
         Flow(pc, Step.offset2, OuterLoops(HereLoops), Interrupted(HereOwners, loop, two))}
        \cup {Flow(pc, Step.offset, HereLoops, HereOwners) :
                short \in {P.shortCircuiting} \cap {TRUE}}
  <2>1. HereFlows =
          CondFlows(P, Step, pc, HereLoops, HereOwners, two)
    BY <1>1, FlowTable
  <2> QED BY <1>4, <2>1 DEF CondFlows
<1>6. P.shortCircuiting => Flow(pc, Step.offset, HereLoops, HereOwners)
                             \in HereFlows
  <2>1. P.shortCircuiting \in BOOLEAN
    BY ProgramFacts DEF Inv, TypeOK, RequestOK, FlatExpression
  <2> QED BY <1>5, <2>1
<1> SUFFICES ASSUME abortStatus' = "ok" PROVE FlowsOn
  BY <1>1, FlowPreserves
<1>7. ASSUME NEW v, CondFails(two, v) PROVE FlowsOn
  <2> DEFINE dead == IF two THEN {loop.iter, loop.iter2, loop.accu} ELSE {loop.iter, loop.accu}
  <2>1. slots' = ClearSlots(slots, dead)
    BY <1>4, <1>7 DEF CondFails
  <2>2. Interrupted(HereOwners, loop, two) = Emptied(HereOwners, dead)
    BY DEF Interrupted
  <2> HIDE DEF dead
  <2>3. Holds(slots', Interrupted(HereOwners, loop, two))
    BY <1>3, <2>1, <2>2, ClearedHolds
  <2>4. iteratorStack' = PopIterator /\ JumpToOrAbort(Step.offset2)
    BY <1>7 DEF CondFails
  <2>5. /\ RunsLoops(iteratorStack', IBase(Len(callStack)), OuterLoops(HereLoops))
        /\ \A i \in 1 .. IBase(Len(callStack)) : LoopOn(iteratorStack'[i]) = LoopOn(iteratorStack[i])
    BY <1>1, <1>2, <2>4, InnerRuns
  <2> QED BY <1>3, <1>5, <2>3, <2>4, <2>5, FlowsTo
<1>8. ASSUME UNCHANGED <<slots, iteratorStack>>, NEW offset, JumpToOrAbort(offset),
             Flow(pc, offset, HereLoops, HereOwners) \in HereFlows
      PROVE  FlowsOn
  BY <1>1, <1>3, <1>8, HereHolds, FlowsTo
<1>9. CASE UNCHANGED <<slots, iteratorStack>> /\ Continue
  BY <1>5, <1>8, <1>9 DEF Continue
<1>10. CASE UNCHANGED <<slots, iteratorStack>> /\ P.shortCircuiting /\ JumpToOrAbort(Step.offset)
  BY <1>6, <1>8, <1>10
<1> QED BY <1>2, <1>7, <1>9, <1>10 DEF ComprehensionCond

LEMMA FinishOwners ==
  ASSUME AllOwned, Certified, Inv, OwnerInv, ComprehensionFinish
  PROVE  OwnerInv'
<1>1. Running /\ program' = program /\ Step.op = "kComprehensionFinish"
  BY AtFacts DEF ComprehensionFinish, Inv
<1>2. HasEnough(2) /\ IteratorsNeeded(Step) = 1
  BY <1>1, NeededTable, Heights
<1>3. abortStatus = "ok" /\ Holds(slots, HereOwners)
  BY <1>1, HereHolds
<1>4. /\ slots' = ClearSlots(slots, {Step.slot})
      /\ iteratorStack' = PopIterator /\ Continue
  BY <1>2 DEF ComprehensionFinish
<1>5. Flow(pc, 0, OuterLoops(HereLoops), Emptied(HereOwners, {Step.slot}))
        \in HereFlows
  BY <1>1, FlowTable
<1>6. Holds(slots', Emptied(HereOwners, {Step.slot}))
  BY <1>3, <1>4, ClearedHolds
<1>7. /\ RunsLoops(iteratorStack', IBase(Len(callStack)), OuterLoops(HereLoops))
      /\ \A i \in 1 .. IBase(Len(callStack)) : LoopOn(iteratorStack'[i]) = LoopOn(iteratorStack[i])
  BY <1>1, <1>2, <1>4, InnerRuns
<1>8. abortStatus' = "ok" => FlowsOn
  BY <1>3, <1>4, <1>5, <1>6, <1>7, FlowsTo DEF Continue
<1> QED BY <1>1, <1>8, FlowPreserves

-----------------------------------------------------------------------------
(***************************************************************************)
(* The return, the beginning of an evaluation, and the theorem.             *)
(***************************************************************************)
\* NextSlow: the caller finds what its callee may have left, and the variable.
LEMMA ReturnOwners ==
  ASSUME AllOwned, Certified, Inv, OwnerInv, Return
  PROVE  OwnerInv'
<1>0. PICK n \in Nat, k \in {path} : n = Len(callStack) /\ k = path
  BY DEF Inv, TypeOK, ControlOK
<1>1. P' = P /\ C' = C /\ UNCHANGED <<abortStatus, iteratorStack>>
  BY SameProgram DEF Return, request
<1> SUFFICES ASSUME abortStatus = "ok" PROVE OwnerInv'
  BY <1>1 DEF OwnerInv
<1>2. phase # "idle" /\ pc = Len(Code) /\ callStack \in Seq(Frame) /\ n >= 1
  BY <1>0 DEF Return, Inv, TypeOK, ControlOK
<1>3. AtCertifiedHeights
  BY <1>2 DEF Inv, StackInv
<1>4. /\ Holds(slots, C.owners[k][pc])
      /\ \A j \in 1 .. n : CallerKnown(j)
      /\ \A i, j \in 0 .. n : i <= j => IBase(i) <= IBase(j)
  BY <1>0, <1>2 DEF OwnerInv
<1>5. PICK f : f = callStack[n]
  OBVIOUS
<1>6. /\ pc' = f.pc /\ path' = f.path
      /\ slots' = [slots EXCEPT ![f.slot] = Filled(Top, <<"lazy", k>>)]
      /\ callStack' = SubSeq(callStack, 1, n - 1)
  BY <1>0, <1>5 DEF Return
<1>7. /\ Len(callStack') = n - 1
      /\ \A j \in 1 .. n - 1 : callStack'[j] = callStack[j]
  BY <1>0, <1>2, <1>6
<1>8. /\ f \in Frame /\ f.path \in DOMAIN P.paths /\ f.pc \in 0 .. Len(P.paths[f.path])
      /\ f.slot \in DOMAIN slots
  <2>1. n \in 1 .. Len(callStack)
    BY <1>0, <1>2
  <2>2. f \in Frame /\ f.path \in DOMAIN P.paths /\ f.pc \in 0 .. Len(P.paths[f.path])
    BY <1>3, <1>5, <2>1, CallerLoops
  <2>3. f.slot \in SlotIndex
    BY <2>2 DEF Frame
  <2> QED BY <2>2, <2>3, SlotsDomain DEF Inv
<1>9. /\ f.pc >= 1 /\ P.paths[f.path][f.pc].op = "kLazyInit"
      /\ P.paths[f.path][f.pc].slot = f.slot
      /\ P.paths[f.path][f.pc].sub = k
      /\ RunsLoops(iteratorStack, IBase(n - 1), C.loops[f.path][f.pc])
  <2>1. CallerKnown(n) /\ Called(n) = k
    BY <1>0, <1>2, <1>4 DEF Called
  <2> QED BY <1>5, <2>1 DEF CallerKnown
<1>10. Owned(C.owners[k][pc], f.slot, <<"lazy", k>>) \subseteq C.owners[f.path][f.pc]
  <2>1. PICK q \in Nat : q = f.pc - 1 /\ f.pc = q + 1 /\ q \in 0 .. Len(P.paths[f.path]) - 1
    <3>1. Len(P.paths[f.path]) \in Nat
      BY <1>8, ProgramFacts DEF Inv, TypeOK, RequestOK
    <3> QED BY <1>8, <1>9, <3>1
  <2>2. OwnersAt(P, C, f.path, q)
    BY <1>8, <2>1, OwnerFacts
  <2>3. Returned(C.owners[k][Len(P.paths[k])], P.paths[f.path][f.pc]) \subseteq C.owners[f.path][f.pc]
    BY <1>9, <2>1, <2>2 DEF OwnersAt
  <2>4. pc = Len(P.paths[k])
    BY <1>0, <1>2 DEF Code
  <2> QED BY <1>9, <2>3, <2>4 DEF Returned
<1>11. Holds(slots', C.owners[f.path][f.pc])
  <2>1. Holds(slots', Owned(C.owners[k][pc], f.slot, <<"lazy", k>>))
    BY <1>4, <1>6, <1>8, FilledHolds
  <2> QED BY <1>10, <2>1, HoldsMore
<1>12. \A j \in 0 .. n - 1 : IBase(j)' = IBase(j)
  BY <1>7 DEF IBase
<1>13. ASSUME NEW j \in 1 .. n - 1 PROVE CallerKnown(j)'
  <2>1. CallerKnown(j)
    BY <1>4
  <2>2. Called(j)' = Called(j)
    <3>1. CASE j = n - 1
      BY <1>0, <1>5, <1>6, <1>7, <3>1 DEF Called
    <3>2. CASE j # n - 1
      <4>1. j + 1 \in 1 .. n - 1 /\ j # n
        BY <3>2
      <4> QED BY <1>0, <1>7, <3>2, <4>1 DEF Called
    <3> QED BY <3>1, <3>2
  <2>3. IBase(j - 1)' = IBase(j - 1) /\ callStack'[j] = callStack[j]
    BY <1>7, <1>12
  <2> QED BY <1>1, <2>1, <2>2, <2>3 DEF CallerKnown
<1>14. /\ Holds(slots, C.owners[path][pc])'
       /\ RunsLoops(iteratorStack, IBase(Len(callStack)), C.loops[path][pc])'
  <2>1. n - 1 \in 0 .. n - 1
    BY <1>2
  <2>2. IBase(Len(callStack))' = IBase(n - 1)
    BY <1>7, <1>12, <2>1
  <2> QED BY <1>1, <1>6, <1>9, <1>11, <2>2
<1>15. /\ (\A j \in 1 .. Len(callStack) : CallerKnown(j))'
       /\ (\A i, j \in 0 .. Len(callStack) : i <= j => IBase(i) <= IBase(j))'
  <2>1. \A i, j \in 0 .. n - 1 : i <= j => IBase(i)' <= IBase(j)'
    BY <1>4, <1>12
  <2> QED BY <1>7, <1>13, <2>1
<1> QED BY <1>14, <1>15 DEF OwnerInv

\* Reset empties the slots, and the main expression starts without loops.
LEMMA StartOwners ==
  ASSUME AllOwned, Certified, Inv, NEW a \in Activations, NEW withListener \in ListenerChoices,
         StartEvaluate(a, withListener)
  PROVE  OwnerInv'
<1>1. P' = P /\ C' = C /\ SlotIndex' = SlotIndex /\ path' = 1 /\ pc' = 0 /\ callStack' = <<>>
  BY SameProgram DEF StartEvaluate
<1>2. slots' = [i \in SlotIndex |-> EmptySlot]
  <2>1. Reset /\ (~dirty => Pristine)
    BY DEF StartEvaluate, Inv, StackInv
  <2> QED BY <2>1 DEF Reset, Pristine
<1>3. Holds(slots, C.owners[path][pc])'
  BY <1>2 DEF Holds, EmptySlot
<1>4. C.loops[1][0] = <<>>
  <2>1. 1 \in DOMAIN P.paths
    BY ProgramFacts DEF Inv, TypeOK, RequestOK
  <2> QED BY <2>1, OwnerFacts
<1>5. RunsLoops(iteratorStack, IBase(Len(callStack)), C.loops[path][pc])'
  BY <1>1, <1>4 DEF RunsLoops
<1>6. /\ (\A j \in 1 .. Len(callStack) : CallerKnown(j))'
      /\ (\A i, j \in 0 .. Len(callStack) : i <= j => IBase(i) <= IBase(j))'
  BY <1>1 DEF IBase
<1> QED BY <1>3, <1>5, <1>6 DEF OwnerInv

\* The listener and the end of the evaluation leave all of this alone.
LEMMA PassingOwners ==
  ASSUME OwnerInv, ListenerContinues \/ ListenerFails \/ EndEvaluate \/ Terminated \/ UNCHANGED vars
  PROVE  OwnerInv'
<1>1. CASE (phase' # "idle" /\ abortStatus' = "ok") => FALSE
  BY <1>1 DEF OwnerInv
<1>2. CASE phase' # "idle" /\ abortStatus' = "ok"
  <2>1. Passes /\ P' = P /\ C' = C
    BY PassingSteps, SameProgram DEF Passes
  <2>2. UNCHANGED <<path, pc, callStack>>
    <3>1. CASE ListenerContinues
      BY <3>1 DEF ListenerContinues, control
    <3>2. CASE ListenerFails
      BY <1>2, <3>2 DEF ListenerFails, ListenerIsCalled, Abort
    <3>3. CASE EndEvaluate
      BY <1>2, <3>3 DEF EndEvaluate
    <3>4. CASE Terminated \/ UNCHANGED vars
      BY <3>4 DEF Terminated, vars, control
    <3> QED BY <3>1, <3>2, <3>3, <3>4
  <2>3. UNCHANGED <<slots, iteratorStack>> /\ phase # "idle" /\ abortStatus = "ok"
    BY <1>2, <2>1 DEF Passes
  <2>4. \A j : IBase(j)' = IBase(j) /\ Called(j)' = Called(j)
    BY <2>2 DEF IBase, Called
  <2>5. \A j : CallerKnown(j)' = CallerKnown(j)
    BY <2>1, <2>2, <2>3, <2>4 DEF CallerKnown
  <2> QED BY <2>1, <2>2, <2>3, <2>4, <2>5 DEF OwnerInv
<1> QED BY <1>1, <1>2

\* The owners of the slot of a kLazyInit are the variable's own initialiser.
LEMMA OwnersSuffice ==
  ASSUME AllOwned, Certified, Inv, OwnerInv PROVE LazySlotIsOwn
<1> SUFFICES ASSUME Running, Step.op = "kLazyInit", slots[Step.slot].has
             PROVE  slots[Step.slot].writer = <<"lazy", Step.sub>>
  BY DEF LazySlotIsOwn, Running
<1>1. Step.slot \in DOMAIN slots /\ Holds(slots, HereOwners) /\ OwnersAt(P, C, path, pc)
  BY HereHolds, SlotSpanTable, SlotFacts DEF Inv
<1>2. PICK o : o = <<Step.slot, slots[Step.slot].writer>>
  OBVIOUS
<1>3. o \in HereOwners /\ o[1] = Step.slot /\ o[2] = slots[Step.slot].writer
  BY <1>1, <1>2 DEF Holds
<1>4. \A x \in HereOwners : x[1] = Step.slot => x[2] = <<"lazy", Step.sub>>
  <2>1. Step = P.paths[path][pc + 1]
    BY OwnerFacts
  <2> QED BY <1>1, <2>1 DEF OwnersAt, HereOwners
<1> QED BY <1>3, <1>4

\* Wherever a lazily initialised variable is referred to, its slot is empty or
\* holds the value of its own initialiser, although slots are shared and a
\* variable may be initialised inside a loop or another initialiser (LazyInit,
\* NextSlow, ClearSlots).
THEOREM LazySlotsAreOwn ==
  ASSUME Certified, AllOwned PROVE Spec => []LazySlotIsOwn
<1>1. Init => OwnerInv
  BY DEF Init, OwnerInv
<1>2. Inv /\ OwnerInv /\ [Next]_vars => OwnerInv'
  <2> SUFFICES ASSUME Inv, OwnerInv, [Next]_vars PROVE OwnerInv'
    OBVIOUS
  <2>1. ASSUME NEW a \in Activations, NEW withListener \in ListenerChoices,
               StartEvaluate(a, withListener)
        PROVE  OwnerInv'
    BY <2>1, StartOwners
  <2>2. CASE Quiet
    BY <2>2, QuietOwners
  <2>3. CASE Identifier \/ AssignSlotAndPop \/ ClearSlotsStep
    BY <2>3, IdentifierOwners, SlotStepOwners
  <2>4. CASE LoopStep
    <3>1. CASE ComprehensionInit \/ ComprehensionFinish
      BY <3>1, InitOwners, FinishOwners
    <3>2. CASE ComprehensionNext1 \/ ComprehensionNext2
      BY <3>2, NextOwners DEF ComprehensionNext1, ComprehensionNext2
    <3>3. CASE ComprehensionCond1 \/ ComprehensionCond2
      BY <3>3, CondOwners DEF ComprehensionCond1, ComprehensionCond2
    <3> QED BY <2>4, <3>1, <3>2, <3>3 DEF LoopStep
  <2>5. CASE Return
    BY <2>5, ReturnOwners
  <2>6. CASE ListenerContinues \/ ListenerFails \/ EndEvaluate \/ Terminated \/ UNCHANGED vars
    BY <2>6, PassingOwners
  <2> QED BY <2>1, <2>2, <2>3, <2>4, <2>5, <2>6, StepGroups DEF Next, Interpret
<1>3. Inv /\ OwnerInv => LazySlotIsOwn
  BY OwnersSuffice
<1> QED BY <1>1, <1>2, <1>3, Inductive, PTL DEF Spec
=============================================================================
