----------------------- MODULE StackDisciplineProofs -----------------------
(***************************************************************************)
(* A certified program never underflows or overruns the evaluator's stacks, *)
(* for every program table, activation and number of evaluations.           *)
(*                                                                         *)
(* The inductive invariant is TypeOK /\ StackInv: the heights of the stacks *)
(* are the certified ones, so that a step finds its arguments and moves     *)
(* along an edge of the certificate; the types are needed because what a    *)
(* step does depends on the values, and the heights are needed for the      *)
(* types because NextSlow reads the top of the stack without a check.       *)
(*                                                                         *)
(* Every step of the machine is brought into one of three forms (StepShape):*)
(* it follows an edge, enters a subexpression, or aborts with a failure     *)
(* that is not a stack fault.                                               *)
(***************************************************************************)
EXTENDS StackDiscipline, EvaluatorProofs

Inv == TypeOK /\ StackInv

\* Certified heights and the edges from here.
D == C.depth[path][pc]
I == C.iters[path][pc]
HereEdges == Edges(Step, pc, D, I)

\* The frame is in the middle of a path.
Running == phase = "run" /\ pc < Len(Code)

Follows(e) ==
  /\ pc' = e.pc
  /\ UNCHANGED <<path, callStack, abortStatus>>
  /\ Len(valueStack') = Len(valueStack) - D + e.depth
  /\ Len(iteratorStack') = Len(iteratorStack) - I + e.iters

Enters ==
  /\ Step.op = "kLazyInit"
  /\ Call(Step.slot, Step.sub)
  /\ UNCHANGED <<valueStack, iteratorStack>>

\* What a certified program may still fail with.
Failures ==
  {"scope", "lookup", "function", "overloads", "append", "iterator", "budget"}

CutShort ==
  /\ abortStatus' \in Failures
  /\ callStack' = <<>> /\ path' = 1 /\ pc' = Len(P.paths[1])
  /\ Len(valueStack') <= P.valueStackSize
  /\ Len(iteratorStack') <= P.iteratorStackSize

StepShape == (\E e \in HereEdges : Follows(e)) \/ Enters \/ CutShort

\* What has to be shown of each kind of step.
StepOK == StepShape /\ DataOK' /\ Len(arena) <= Len(arena')

-----------------------------------------------------------------------------
(***************************************************************************)
(* The program and its certificate at the current position.                 *)
(***************************************************************************)
\* The program evaluated is one of the table.
LEMMA ProgramFacts ==
  ASSUME program \in DOMAIN ExpressionTable
  PROVE  /\ P \in FlatExpression
         /\ P.paths \in Seq(Seq(StepRecord))
         /\ 1 \in DOMAIN P.paths
         /\ P.slotCount \in Nat /\ P.valueStackSize \in Nat /\ P.iteratorStackSize \in Nat
         /\ P.maxIterations \in Nat
         /\ \A k \in DOMAIN P.paths : P.paths[k] \in Seq(StepRecord) /\ Len(P.paths[k]) \in Nat
<1>1. P \in FlatExpression /\ P.paths # <<>>
  BY ProgramsAssumption DEF OperandsInRange, P
<1>2. P.paths \in Seq(Seq(StepRecord))
  BY <1>1 DEF FlatExpression
<1>3. /\ P.slotCount \in Nat /\ P.valueStackSize \in Nat /\ P.iteratorStackSize \in Nat
      /\ P.maxIterations \in Nat
  BY <1>1 DEF FlatExpression
<1>4. 1 \in DOMAIN P.paths
  BY <1>1, <1>2
<1>5. ASSUME NEW k \in DOMAIN P.paths PROVE P.paths[k] \in Seq(StepRecord)
  BY <1>2
<1> QED BY <1>1, <1>2, <1>3, <1>4, <1>5

\* The step about to run has typed operands within their ranges.
LEMMA StepFacts ==
  ASSUME TypeOK, Running
  PROVE  /\ Step \in StepRecord
         /\ pc \in Nat /\ Len(Code) \in Nat /\ pc + 1 \in 1 .. Len(Code)
         /\ Step = P.paths[path][pc + 1]
         /\ path \in DOMAIN P.paths
         /\ Step.slot \in Nat /\ Step.argc \in Nat /\ Step.offset \in Int /\ Step.offset2 \in Int
         /\ Step.slot + SlotSpan(Step) <= P.slotCount
         /\ Step.op = "kLazyInit" => Step.sub \in DOMAIN P.paths
         /\ Step.op = "kIdentifier" => Step.name \in Identifiers
         /\ Step.op \in {"kBooleanOrJump", "kBooleanAndJump", "kBooleanOr", "kBooleanAnd"}
              => Step.argc > 0
<1>1. program \in DOMAIN ExpressionTable /\ path \in DOMAIN P.paths /\ pc \in 0 .. Len(Code)
  BY DEF TypeOK, RequestOK, ControlOK
<1>2. Code \in Seq(StepRecord) /\ Len(Code) \in Nat
  BY <1>1, ProgramFacts DEF Code
<1>3. pc + 1 \in 1 .. Len(Code) /\ pc \in Nat
  BY <1>1, <1>2 DEF Running
<1>4. Step \in StepRecord
  BY <1>2, <1>3 DEF Step
<1>5. Step.slot \in Nat /\ Step.argc \in Nat /\ Step.offset \in Int /\ Step.offset2 \in Int
  BY <1>4 DEF StepRecord
<1>6. OperandsInRange(P)
  BY <1>1, ProgramsAssumption DEF P
<1>7. Step = P.paths[path][pc + 1] /\ pc + 1 \in DOMAIN P.paths[path]
  BY <1>2, <1>3 DEF Step, Code
<1>8. /\ Step.slot + SlotSpan(Step) <= P.slotCount
      /\ Step.op = "kLazyInit" => Step.sub \in DOMAIN P.paths
      /\ Step.op = "kIdentifier" => Step.name \in Identifiers
      /\ Step.op \in {"kBooleanOrJump", "kBooleanAndJump", "kBooleanOr", "kBooleanAnd"}
           => Step.argc > 0
  BY <1>1, <1>6, <1>7, Zenon DEF OperandsInRange
<1> QED BY <1>1, <1>2, <1>3, <1>4, <1>5, <1>7, <1>8

\* The certificate of the current program, position by position.
LEMMA CertificateFacts ==
  ASSUME Certified, TypeOK
  PROVE  /\ WellFormed(P, C)
         /\ \A k \in DOMAIN P.paths :
              /\ C.cap[k] \in Nat /\ C.icap[k] \in Nat
              /\ \A q \in 0 .. Len(P.paths[k]) :
                   /\ C.depth[k][q] \in Nat /\ C.iters[k][q] \in Nat
                   /\ C.depth[k][q] <= C.cap[k] /\ C.iters[k][q] <= C.icap[k]
              /\ C.depth[k][0] = 0 /\ C.iters[k][0] = 0
              /\ C.depth[k][Len(P.paths[k])] = 1 /\ C.iters[k][Len(P.paths[k])] = 0
         /\ C.cap[1] <= P.valueStackSize /\ C.icap[1] <= P.iteratorStackSize
<1>1. program \in DOMAIN ExpressionTable
  BY DEF TypeOK, RequestOK
<1>2. WellFormed(P, C)
  BY <1>1 DEF Certified, P, C
<1>3. CertificateTypeOK(P, C) /\ \A k \in DOMAIN P.paths : PathOK(P, C, k)
  BY <1>2 DEF WellFormed
<1>4. ASSUME NEW k \in DOMAIN P.paths
      PROVE  /\ C.cap[k] \in Nat /\ C.icap[k] \in Nat
             /\ \A q \in 0 .. Len(P.paths[k]) :
                  C.depth[k][q] \in Nat /\ C.iters[k][q] \in Nat
  BY <1>3 DEF CertificateTypeOK
<1>5. ASSUME NEW k \in DOMAIN P.paths
      PROVE  /\ \A q \in 0 .. Len(P.paths[k]) :
                  C.depth[k][q] <= C.cap[k] /\ C.iters[k][q] <= C.icap[k]
             /\ C.depth[k][0] = 0 /\ C.iters[k][0] = 0
             /\ C.depth[k][Len(P.paths[k])] = 1 /\ C.iters[k][Len(P.paths[k])] = 0
  BY <1>3 DEF PathOK
<1> QED BY <1>2, <1>4, <1>5 DEF WellFormed

\* At the current position the step has what it needs and its edges fit.
LEMMA PositionFacts ==
  ASSUME Certified, TypeOK, Running
  PROVE  /\ D \in Nat /\ I \in Nat
         /\ ValuesNeeded(Step) <= D
         /\ IteratorsNeeded(Step) <= I
         /\ \A e \in HereEdges :
              /\ e.pc \in 0 .. Len(Code)
              /\ C.depth[path][e.pc] = e.depth
              /\ C.iters[path][e.pc] = e.iters
         /\ Step.op = "kLazyInit" =>
              /\ D + C.cap[Step.sub] <= C.cap[path]
              /\ I + C.icap[Step.sub] <= C.icap[path]
<1>1. path \in DOMAIN P.paths /\ pc \in 0 .. Len(P.paths[path]) - 1 /\ pc \in 0 .. Len(P.paths[path])
  BY StepFacts DEF Code
<1>2. PathOK(P, C, path)
  BY <1>1, CertificateFacts DEF WellFormed
<1>3. PositionOK(P, C, path, pc)
  BY <1>1, <1>2 DEF PathOK
<1>4. D \in Nat /\ I \in Nat
  BY <1>1, CertificateFacts DEF D, I
<1>5. Step = P.paths[path][pc + 1]
  BY StepFacts
<1> QED BY <1>3, <1>4, <1>5, Zenon DEF PositionOK, HereEdges, D, I, Code

\* The arms of ValuesNeeded, IteratorsNeeded and Edges.
LEMMA NeededTable ==
  ASSUME NEW s
  PROVE  /\ s.op \in {"kAssignSlotAndPop", "kTernaryJump", "kBooleanNot", "kNotStrictlyFalse",
                      "kComprehensionInit"} => ValuesNeeded(s) = 1
         /\ s.op \in {"kComprehensionNext", "kComprehensionNext2", "kComprehensionCond",
                      "kComprehensionCond2", "kComprehensionFinish", "kFastEqual",
                      "kFastNotEqual", "kFastIn", "kMutableListAppend"} => ValuesNeeded(s) = 2
         /\ s.op \in {"kBooleanOr", "kBooleanAnd", "kBooleanOrJump", "kBooleanAndJump",
                      "kEagerFunction", "kLazyFunction", "kCreateList"} =>
              ValuesNeeded(s) = s.argc
         /\ s.op = "kTernary" => ValuesNeeded(s) = 3
         /\ s.op \in {"kComprehensionNext", "kComprehensionNext2", "kComprehensionCond",
                      "kComprehensionCond2", "kComprehensionFinish"} => IteratorsNeeded(s) = 1
BY Zenon DEF ValuesNeeded, IteratorsNeeded

\* The arms of Edges.
LEMMA EdgeTable ==
  ASSUME NEW s, NEW q, NEW d, NEW i
  PROVE  /\ s.op \in {"kConstant", "kIdentifier", "kReadSlot", "kLazyInit", "kNewMutableList"} =>
              Edges(s, q, d, i) = {Edge(q, 0, d + 1, i)}
         /\ s.op = "kAssignSlotAndPop" => Edges(s, q, d, i) = {Edge(q, 0, d - 1, i)}
         /\ s.op \in {"kClearSlots", "kBooleanNot", "kNotStrictlyFalse"} =>
              Edges(s, q, d, i) = {Edge(q, 0, d, i)}
         /\ s.op \in {"kBooleanOrJump", "kBooleanAndJump"} =>
              Edges(s, q, d, i) = {Edge(q, 0, d, i), Edge(q, s.offset, d - s.argc + 1, i)}
         /\ s.op = "kTernaryJump" =>
              Edges(s, q, d, i) = {Edge(q, 0, d - 1, i), Edge(q, s.offset2, d - 1, i),
                                   Edge(q, s.offset, d, i)}
         /\ s.op = "kFixedJump" => Edges(s, q, d, i) = {Edge(q, s.offset, d, i)}
         /\ s.op = "kComprehensionInit" =>
              Edges(s, q, d, i) = {Edge(q, 0, d, i + 1), Edge(q, s.offset, d, i)}
         /\ s.op \in {"kComprehensionNext", "kComprehensionNext2"} =>
              Edges(s, q, d, i) = {Edge(q, 0, d - 1, i), Edge(q, s.offset, d - 1, i)}
         /\ s.op \in {"kComprehensionCond", "kComprehensionCond2"} =>
              Edges(s, q, d, i) = {Edge(q, 0, d - 1, i), Edge(q, s.offset, d - 1, i),
                                   Edge(q, s.offset2, d - 1, i - 1)}
         /\ s.op = "kComprehensionFinish" => Edges(s, q, d, i) = {Edge(q, 0, d - 1, i - 1)}
         /\ s.op \in {"kBooleanOr", "kBooleanAnd", "kTernary", "kEagerFunction", "kLazyFunction",
                      "kFastEqual", "kFastNotEqual", "kFastIn", "kMutableListAppend",
                      "kCreateList"} =>
              Edges(s, q, d, i) = {Edge(q, 0, d - ValuesNeeded(s) + 1, i)}
BY ZenonT(60) DEF Edges

-----------------------------------------------------------------------------
(***************************************************************************)
(* The heights of the stacks at a step.                                     *)
(***************************************************************************)
\* The bases of the suspended callers are heights.
LEMMA BaseFacts ==
  ASSUME TypeOK, AtCertifiedHeights
  PROVE  /\ Len(callStack) \in Nat
         /\ \A j \in 0 .. Len(callStack) : Base(j) \in Nat /\ IBase(j) \in Nat
<1>1. callStack \in Seq(Frame)
  BY DEF TypeOK, ControlOK
<1>2. ASSUME NEW j \in 1 .. Len(callStack)
      PROVE  callStack[j].expected \in Nat /\ callStack[j].iters \in Nat
  <2>1. callStack[j] \in Frame
    BY <1>1, ElementOfSeq
  <2> QED BY <2>1 DEF Frame
<1>3. ASSUME NEW j \in 1 .. Len(callStack) PROVE callStack[j].expected > 0
  BY DEF AtCertifiedHeights, CallerOK
<1> QED BY <1>1, <1>2, <1>3 DEF Base, IBase

\* Nothing has aborted where a step is about to run, and the stacks have the
\* certified heights.
LEMMA Heights ==
  ASSUME Certified, Inv, Running
  PROVE  /\ abortStatus = "ok"
         /\ AtCertifiedHeights
         /\ Len(callStack) \in Nat /\ Base(Len(callStack)) \in Nat /\ IBase(Len(callStack)) \in Nat
         /\ Len(valueStack) \in Nat /\ Len(valueStack) = Base(Len(callStack)) + D
         /\ Len(iteratorStack) \in Nat /\ Len(iteratorStack) = IBase(Len(callStack)) + I
         /\ Base(Len(callStack)) + C.cap[path] <= P.valueStackSize
         /\ IBase(Len(callStack)) + C.icap[path] <= P.iteratorStackSize
         /\ HasEnough(ValuesNeeded(Step))
         /\ IteratorsNeeded(Step) <= Len(iteratorStack)
<1>1. AbortInv
  BY DEF Inv, TypeOK, RequestOK, StackInv, AbortInv
<1>2. abortStatus = "ok"
  BY <1>1, AbortedHasNoStep DEF Running
<1>3. AtCertifiedHeights
  BY <1>2 DEF Inv, StackInv, Running
<1>4. /\ Len(callStack) \in Nat /\ Base(Len(callStack)) \in Nat
      /\ IBase(Len(callStack)) \in Nat
  BY <1>3, BaseFacts DEF Inv
<1>5. /\ Len(valueStack) = Base(Len(callStack)) + D
      /\ Len(iteratorStack) = IBase(Len(callStack)) + I
      /\ Base(Len(callStack)) + C.cap[path] <= P.valueStackSize
      /\ IBase(Len(callStack)) + C.icap[path] <= P.iteratorStackSize
  BY <1>3 DEF AtCertifiedHeights, Room, D, I
<1>6. Len(valueStack) \in Nat /\ Len(iteratorStack) \in Nat
  BY DEF Inv, TypeOK, DataOK
<1>7. /\ D \in Nat /\ I \in Nat /\ ValuesNeeded(Step) <= D /\ IteratorsNeeded(Step) <= I
  BY PositionFacts DEF Inv
<1>8. ValuesNeeded(Step) \in Nat /\ IteratorsNeeded(Step) \in Nat
  <2>1. Step.argc \in Nat
    BY StepFacts DEF Inv
  <2>2. ValuesNeeded(Step) \in {0, 1, 2, 3, Step.argc}
    BY Zenon DEF ValuesNeeded
  <2> QED BY <2>1, <2>2 DEF IteratorsNeeded
<1>9. HasEnough(ValuesNeeded(Step)) /\ IteratorsNeeded(Step) <= Len(iteratorStack)
  BY <1>4, <1>5, <1>6, <1>7, <1>8 DEF HasEnough
<1> QED BY <1>2, <1>3, <1>4, <1>5, <1>6, <1>9

\* A height within the capacity of the path fits the stack.
LEMMA HeightFits ==
  ASSUME NEW base \in Nat, NEW height \in Nat, NEW cap \in Nat, NEW size \in Nat,
         height <= cap, base + cap <= size
  PROVE  base + height <= size
OBVIOUS

\* The heights an edge leads to fit the stacks.
LEMMA EdgeFits ==
  ASSUME Certified, Inv, Running, NEW e \in HereEdges
  PROVE  /\ e.pc \in 0 .. Len(Code) /\ e.pc \in Nat
         /\ e.depth \in Nat /\ e.iters \in Nat
         /\ C.depth[path][e.pc] = e.depth /\ C.iters[path][e.pc] = e.iters
         /\ Len(valueStack) - D + e.depth = Base(Len(callStack)) + e.depth
         /\ Len(iteratorStack) - I + e.iters = IBase(Len(callStack)) + e.iters
         /\ Len(valueStack) - D + e.depth <= P.valueStackSize
         /\ Len(iteratorStack) - I + e.iters <= P.iteratorStackSize
<1>1. /\ e.pc \in 0 .. Len(Code)
      /\ C.depth[path][e.pc] = e.depth /\ C.iters[path][e.pc] = e.iters
      /\ D \in Nat /\ I \in Nat
  BY PositionFacts DEF Inv
<1>2. path \in DOMAIN P.paths /\ Len(Code) \in Nat
  BY StepFacts DEF Inv
<1>3. /\ e.depth \in Nat /\ e.iters \in Nat
      /\ e.depth <= C.cap[path] /\ e.iters <= C.icap[path]
      /\ C.cap[path] \in Nat /\ C.icap[path] \in Nat
  BY <1>1, <1>2, CertificateFacts DEF Inv, Code
<1>4. P.valueStackSize \in Nat /\ P.iteratorStackSize \in Nat
  BY ProgramFacts DEF Inv, TypeOK, RequestOK
<1>5. /\ Len(valueStack) = Base(Len(callStack)) + D
      /\ Len(iteratorStack) = IBase(Len(callStack)) + I
      /\ Base(Len(callStack)) + C.cap[path] <= P.valueStackSize
      /\ IBase(Len(callStack)) + C.icap[path] <= P.iteratorStackSize
      /\ Base(Len(callStack)) \in Nat /\ IBase(Len(callStack)) \in Nat
  BY Heights
<1>6. /\ Len(valueStack) - D + e.depth = Base(Len(callStack)) + e.depth
      /\ Len(iteratorStack) - I + e.iters = IBase(Len(callStack)) + e.iters
  <2>1. /\ D \in Nat /\ I \in Nat /\ e.depth \in Nat /\ e.iters \in Nat
        /\ Base(Len(callStack)) \in Nat /\ IBase(Len(callStack)) \in Nat
    BY <1>1, <1>3, <1>5
  <2> QED BY <2>1, <1>5
<1>7. /\ Base(Len(callStack)) + e.depth <= P.valueStackSize
      /\ IBase(Len(callStack)) + e.iters <= P.iteratorStackSize
  BY <1>3, <1>4, <1>5, HeightFits
<1>8. e.pc \in Nat
  BY <1>1, <1>2
<1> QED BY <1>1, <1>3, <1>6, <1>7, <1>8

-----------------------------------------------------------------------------
(***************************************************************************)
(* A step in one of the three forms preserves the invariant.                *)
(***************************************************************************)
\* A step does not change the program.
LEMMA SameProgram ==
  ASSUME program' = program
  PROVE  P' = P /\ C' = C /\ SlotIndex' = SlotIndex /\ Frame' = Frame
BY DEF P, C, SlotIndex, Frame

\* A step keeps the request it serves.
LEMMA RequestPreserved ==
  ASSUME TypeOK, UNCHANGED request, phase' \in {"run", "callback"}, reported' \in BOOLEAN,
         DataOK', Len(arena) <= Len(arena')
  PROVE  RequestOK'
<1>1. Len(arena) \in Nat /\ Len(arena') \in Nat
  BY DEF TypeOK, DataOK, ArenaOK
<1>2. ValueIn(Len(arena)) \subseteq ValueIn(Len(arena'))
  BY <1>1, ValueInGrows
<1>3. outcome' \in [status : AbortStatuses \cup {"none", "running"},
                   value : ValueIn(Len(arena'))]
  BY <1>2 DEF TypeOK, RequestOK, request
<1>4. activation' \in Activations /\ Len(activation'.arena) <= Len(arena')
  <2>1. activation \in Activations /\ Len(activation.arena) <= Len(arena)
    BY DEF TypeOK, RequestOK
  <2>2. Len(activation.arena) \in Nat
    BY <2>1, ActivationsAssumption DEF ActivationOK, ArenaOK
  <2> QED BY <1>1, <2>1, <2>2 DEF request
<1> QED BY <1>3, <1>4 DEF TypeOK, RequestOK, request

\* A step along an edge keeps to the certificate.
LEMMA FollowsPreserves ==
  ASSUME Certified, Inv, Running, UNCHANGED request, phase' \in {"run", "callback"},
         NEW e \in HereEdges, Follows(e)
  PROVE  ControlOK' /\ StackInv'
<1>1. P' = P /\ C' = C /\ SlotIndex' = SlotIndex /\ Frame' = Frame
  BY SameProgram DEF request
<1>2. path' = path /\ callStack' = callStack /\ abortStatus' = abortStatus /\ pc' = e.pc
  BY DEF Follows
<1>3. Code' = Code
  BY <1>1, <1>2 DEF Code
<1>4. ControlOK'
  <2>1. pc' \in 0 .. Len(Code')
    BY <1>2, <1>3, EdgeFits
  <2> QED BY <1>1, <1>2, <2>1 DEF Inv, TypeOK, ControlOK
<1>5. abortStatus' = "ok" /\ AbortedAtEnd'
  BY <1>2, Heights DEF AbortedAtEnd
<1>6. /\ Len(valueStack') = Base(Len(callStack)) + e.depth
      /\ Len(iteratorStack') = IBase(Len(callStack)) + e.iters
      /\ Len(valueStack') <= P.valueStackSize
      /\ Len(iteratorStack') <= P.iteratorStackSize
  BY EdgeFits DEF Follows
<1>7. StacksWithinCapacity'
  BY <1>1, <1>6 DEF StacksWithinCapacity
<1>8. AtCertifiedHeights
  BY Heights
<1>9. /\ Base(Len(callStack))' = Base(Len(callStack))
      /\ IBase(Len(callStack))' = IBase(Len(callStack))
      /\ Room(Len(callStack), path)'
  BY <1>1, <1>2, <1>8 DEF AtCertifiedHeights, Base, IBase, Room
<1>10. AtCertifiedHeights'
  <2>1. /\ (Len(valueStack) = Base(Len(callStack)) + C.depth[path][pc])'
        /\ (Len(iteratorStack) = IBase(Len(callStack)) + C.iters[path][pc])'
    BY <1>1, <1>2, <1>6, <1>9, EdgeFits
  <2>2. ASSUME NEW j \in 1 .. Len(callStack) PROVE CallerOK(j)'
    <3>1. CallerOK(j)
      BY <1>8 DEF AtCertifiedHeights
    <3> QED BY <1>1, <1>2, <3>1 DEF CallerOK, Room, Base, IBase
  <2>3. (\A j \in 1 .. Len(callStack) : CallerOK(j))'
    BY <1>2, <2>2
  <2> QED BY <1>9, <2>1, <2>3 DEF AtCertifiedHeights
<1>11. NoStackFault'
  <2>1. outcome'.status # "stack"
    BY DEF Inv, StackInv, NoStackFault, request
  <2>2. ASSUME pc' = Len(Code'), callStack' # <<>>
        PROVE  Len(valueStack') = callStack'[Len(callStack')].expected
    <3>1. e.depth = 1
      <4>1. path \in DOMAIN P.paths /\ e.pc = Len(P.paths[path])
        BY <1>2, <1>3, <2>2, StepFacts DEF Inv, Code
      <4> QED BY <4>1, EdgeFits, CertificateFacts DEF Inv
    <3>2. Len(callStack) # 0 /\ Len(callStack) \in 1 .. Len(callStack)
      BY <1>2, <2>2 DEF Inv, TypeOK, ControlOK
    <3>3. callStack[Len(callStack)].expected \in Nat
      <4>1. callStack[Len(callStack)] \in Frame
        BY <3>2, ElementOfSeq DEF Inv, TypeOK, ControlOK
      <4> QED BY <4>1 DEF Frame
    <3>4. Base(Len(callStack)) = callStack[Len(callStack)].expected - 1
      BY <3>2 DEF Base
    <3> QED BY <1>2, <1>6, <3>1, <3>3, <3>4
  <2> QED BY <1>5, <2>1, <2>2 DEF NoStackFault
<1>12. (phase # "idle" => initialStackSize = 0)' /\ (~dirty => phase = "idle" /\ Pristine)'
  BY DEF Inv, StackInv, Running, request
<1> QED BY <1>4, <1>5, <1>7, <1>10, <1>11, <1>12 DEF StackInv

\* Call: the subexpression starts at its own certified heights, and the caller
\* is left behind its kLazyInit.
LEMMA EntersPreserves ==
  ASSUME Certified, Inv, Running, UNCHANGED request, phase' \in {"run", "callback"}, Enters
  PROVE  ControlOK' /\ StackInv'
<1>0. PICK n \in Nat, k \in {path}, sub \in {Step.sub} : n = Len(callStack) /\ k = path /\ sub = Step.sub
  BY DEF Inv, TypeOK, ControlOK
<1> DEFINE f == [pc |-> pc + 1, path |-> k, slot |-> Step.slot,
                expected |-> Len(valueStack) + 1, iters |-> Len(iteratorStack)]
<1>1. P' = P /\ C' = C /\ SlotIndex' = SlotIndex /\ Frame' = Frame
  BY SameProgram DEF request
<1>2. /\ callStack' = Append(callStack, f) /\ pc' = 0 /\ path' = sub
      /\ abortStatus' = abortStatus
      /\ valueStack' = valueStack /\ iteratorStack' = iteratorStack
      /\ Step.op = "kLazyInit"
  BY <1>0 DEF Enters, Call
<1>3. /\ k \in DOMAIN P.paths /\ sub \in DOMAIN P.paths
      /\ pc \in Nat /\ Len(Code) \in Nat /\ pc + 1 \in 1 .. Len(Code)
      /\ Step.slot \in Nat /\ Step.slot + SlotSpan(Step) <= P.slotCount
  BY <1>0, <1>2, StepFacts DEF Inv
<1>4. SlotSpan(Step) = 1
  BY <1>2, Zenon DEF SlotSpan
<1>5. f \in Frame
  <2>1. Step.slot \in SlotIndex
    <3>1. P.slotCount \in Nat
      BY ProgramFacts DEF Inv, TypeOK, RequestOK
    <3> QED BY <1>3, <1>4, <3>1 DEF SlotIndex
  <2>2. Len(valueStack) \in Nat /\ Len(iteratorStack) \in Nat
    BY DEF Inv, TypeOK, DataOK
  <2> QED BY <1>3, <2>1, <2>2 DEF Frame
<1>6. callStack \in Seq(Frame) /\ Len(callStack) = n
  BY <1>0 DEF Inv, TypeOK, ControlOK
<1> HIDE DEF f
<1>7. /\ Append(callStack, f) \in Seq(Frame)
      /\ Len(Append(callStack, f)) = n + 1
      /\ \A j \in 1 .. n : Append(callStack, f)[j] = callStack[j]
      /\ Append(callStack, f)[n + 1] = f
  BY <1>5, <1>6, AppendProperties
<1>8. ControlOK'
  <2>1. Len(P.paths[sub]) \in Nat
    BY <1>3, ProgramFacts DEF Inv, TypeOK, RequestOK
  <2>2. pc' \in 0 .. Len(Code')
    BY <1>1, <1>2, <2>1 DEF Code
  <2> QED BY <1>1, <1>2, <1>3, <1>7, <2>2 DEF Inv, TypeOK, ControlOK
<1>9. abortStatus' = "ok" /\ AbortedAtEnd'
  BY <1>2, Heights DEF AbortedAtEnd
<1>10. StacksWithinCapacity'
  BY <1>1, <1>2 DEF Inv, StackInv, StacksWithinCapacity
<1>11. /\ AtCertifiedHeights
       /\ Len(valueStack) \in Nat /\ Len(valueStack) = Base(n) + D
       /\ Len(iteratorStack) \in Nat /\ Len(iteratorStack) = IBase(n) + I
       /\ Base(n) + C.cap[k] <= P.valueStackSize
       /\ IBase(n) + C.icap[k] <= P.iteratorStackSize
       /\ Base(n) \in Nat /\ IBase(n) \in Nat
  BY <1>0, Heights
<1>12. /\ D \in Nat /\ I \in Nat
       /\ D + C.cap[sub] <= C.cap[k]
       /\ I + C.icap[sub] <= C.icap[k]
  BY <1>0, <1>2, PositionFacts DEF Inv
<1>13. /\ f.expected = Len(valueStack) + 1 /\ f.iters = Len(iteratorStack)
       /\ f.pc = pc + 1 /\ f.path = k
  BY DEF f
<1>14. /\ Base(n + 1)' = Len(valueStack) /\ IBase(n + 1)' = Len(iteratorStack)
       /\ \A j \in 0 .. n : Base(j)' = Base(j) /\ IBase(j)' = IBase(j)
  BY <1>2, <1>6, <1>7, <1>11, <1>13 DEF Base, IBase
<1>15. /\ C.cap[k] \in Nat /\ C.icap[k] \in Nat
       /\ C.cap[sub] \in Nat /\ C.icap[sub] \in Nat
       /\ C.depth[sub][0] = 0 /\ C.iters[sub][0] = 0
  BY <1>3, CertificateFacts DEF Inv
<1>16. P.valueStackSize \in Nat /\ P.iteratorStackSize \in Nat
  BY ProgramFacts DEF Inv, TypeOK, RequestOK
<1>17. Room(n + 1, sub)'
  <2>1. /\ Len(valueStack) + C.cap[sub] <= P.valueStackSize
        /\ Len(iteratorStack) + C.icap[sub] <= P.iteratorStackSize
    <3>1. /\ Base(n) + D + C.cap[sub] <= P.valueStackSize
          /\ IBase(n) + I + C.icap[sub] <= P.iteratorStackSize
      <4>1. /\ Base(n) + C.cap[k] <= P.valueStackSize /\ IBase(n) + C.icap[k] <= P.iteratorStackSize
            /\ Base(n) \in Nat /\ IBase(n) \in Nat
        BY <1>11
      <4> QED BY <4>1, <1>12, <1>15, <1>16
    <3> QED BY <1>11, <3>1
  <2> QED BY <1>1, <1>2, <1>14, <2>1 DEF Room
<1>18. CallerOK(n + 1)'
  <2>1. C.depth[k][pc + 1] = D + 1 /\ C.iters[k][pc + 1] = I
    <3>1. Edge(pc, 0, D + 1, I) \in HereEdges
      BY <1>2, EdgeTable DEF HereEdges
    <3>2. /\ Edge(pc, 0, D + 1, I).pc = pc + 1
          /\ Edge(pc, 0, D + 1, I).depth = D + 1 /\ Edge(pc, 0, D + 1, I).iters = I
      BY <1>3 DEF Edge
    <3> QED BY <1>0, <3>1, <3>2, EdgeFits
  <2>2. /\ f.pc \in 0 .. Len(P.paths[f.path])
        /\ f.expected = Base(n) + C.depth[f.path][f.pc]
        /\ f.iters = IBase(n) + C.iters[f.path][f.pc]
        /\ f.expected > 0
    BY <1>0, <1>3, <1>11, <1>12, <1>13, <2>1 DEF Code
  <2>3. Room(n, k)'
    BY <1>1, <1>6, <1>11, <1>14 DEF Room
  <2>4. Base(n + 1 - 1)' = Base(n) /\ IBase(n + 1 - 1)' = IBase(n) /\ Room(n + 1 - 1, k)'
    BY <1>6, <1>14, <2>3
  <2> QED BY <1>1, <1>2, <1>7, <1>13, <2>2, <2>4 DEF CallerOK
<1>19. ASSUME NEW j \in 1 .. n PROVE CallerOK(j)'
  <2>1. CallerOK(j)
    BY <1>0, <1>11 DEF AtCertifiedHeights
  <2>2. j - 1 \in 0 .. n /\ callStack'[j] = callStack[j]
    BY <1>2, <1>6, <1>7
  <2>3. /\ Base(j - 1)' = Base(j - 1) /\ IBase(j - 1)' = IBase(j - 1)
    BY <1>14, <2>2
  <2> QED BY <1>1, <2>1, <2>2, <2>3 DEF CallerOK, Room
<1>20. AtCertifiedHeights'
  <2>1. Len(callStack') = n + 1
    BY <1>2, <1>7
  <2>2. /\ (Len(valueStack) = Base(n + 1) + C.depth[path][pc])'
        /\ (Len(iteratorStack) = IBase(n + 1) + C.iters[path][pc])'
    BY <1>1, <1>2, <1>11, <1>14, <1>15
  <2>3. ASSUME NEW j \in 1 .. n + 1 PROVE CallerOK(j)'
    BY <1>6, <1>18, <1>19
  <2> QED BY <1>2, <1>17, <2>1, <2>2, <2>3 DEF AtCertifiedHeights
<1>21. NoStackFault'
  <2>1. C.depth[sub][Len(P.paths[sub])] = 1
    BY <1>3, CertificateFacts DEF Inv
  <2>2. ~(pc = Len(Code))'
    BY <1>1, <1>2, <1>15, <2>1 DEF Code
  <2> QED BY <1>9, <2>2 DEF Inv, StackInv, NoStackFault, request
<1>22. (phase # "idle" => initialStackSize = 0)' /\ (~dirty => phase = "idle" /\ Pristine)'
  BY DEF Inv, StackInv, Running, request
<1> QED BY <1>8, <1>9, <1>10, <1>20, <1>21, <1>22 DEF StackInv

\* A failure that is not a stack fault leaves the frame where Abort does.
LEMMA CutShortPreserves ==
  ASSUME Inv, Running, UNCHANGED request, phase' \in {"run", "callback"}, CutShort
  PROVE  ControlOK' /\ StackInv'
<1>1. P' = P /\ SlotIndex' = SlotIndex /\ Frame' = Frame
  BY SameProgram DEF request
<1>2. 1 \in DOMAIN P.paths /\ Len(P.paths[1]) \in Nat
  BY ProgramFacts DEF Inv, TypeOK, RequestOK
<1>3. ControlOK'
  BY <1>1, <1>2 DEF CutShort, Failures, ControlOK, Code, AbortStatuses
<1>4. StacksWithinCapacity' /\ AbortedAtEnd'
  BY <1>1 DEF CutShort, StacksWithinCapacity, AbortedAtEnd
<1>5. NoStackFault'
  BY DEF CutShort, Failures, Inv, StackInv, NoStackFault, request
<1>6. (phase # "idle" => initialStackSize = 0)' /\ (~dirty => phase = "idle" /\ Pristine)'
  BY DEF Inv, StackInv, Running, request
<1>7. abortStatus' # "ok"
  BY DEF CutShort, Failures
<1> QED BY <1>3, <1>4, <1>5, <1>6, <1>7 DEF StackInv

\* So a step of any of the three forms preserves the invariant.
LEMMA StepOKPreserves ==
  ASSUME Certified, Inv, Running, UNCHANGED request, phase' \in {"run", "callback"},
         reported' \in BOOLEAN, StepOK
  PROVE  Inv'
BY RequestPreserved, FollowsPreserves, EntersPreserves, CutShortPreserves
   DEF StepOK, StepShape, Inv, TypeOK

-----------------------------------------------------------------------------
(***************************************************************************)
(* The pieces the steps are made of.                                        *)
(***************************************************************************)
\* What every step has in common.
LEMMA AtFacts ==
  ASSUME NEW op, At(op), TypeOK
  PROVE  /\ Running /\ Step.op = op /\ UNCHANGED request
         /\ phase' \in {"run", "callback"}
         /\ reported' \in BOOLEAN
         /\ program' = program /\ P' = P /\ SlotIndex' = SlotIndex
<1>1. Running /\ Step.op = op /\ UNCHANGED request /\ program' = program
  BY DEF At, Running, request
<1>2. phase' \in {"run", "callback"}
  BY DEF At
<1>3. reported' \in BOOLEAN
  <2>1. Step \in StepRecord /\ reported' = Step.ast
    BY <1>1, StepFacts DEF At
  <2> QED BY <2>1 DEF StepRecord
<1> QED BY <1>1, <1>2, <1>3, SameProgram

\* The arguments, the rest of the stack and its top, when there are n values.
LEMMA StackOps ==
  ASSUME TypeOK, NEW n \in Nat, HasEnough(n)
  PROVE  /\ Args(n) \in Seq(ValueIn(Len(arena))) /\ Len(Args(n)) = n
         /\ Pop(n) \in Seq(ValueIn(Len(arena))) /\ Len(Pop(n)) = Len(valueStack) - n
         /\ n > 0 => Top \in ValueIn(Len(arena))
         /\ \A v \in ValueIn(Len(arena)) :
              /\ PopAndPush(n, v) \in Seq(ValueIn(Len(arena)))
              /\ Len(PopAndPush(n, v)) = Len(valueStack) - n + 1
<1> DEFINE S == ValueIn(Len(arena))
<1>1. valueStack \in Seq(S) /\ Len(valueStack) \in Nat /\ n <= Len(valueStack)
  BY DEF TypeOK, DataOK, HasEnough
<1>2. \A i \in 1 .. Len(valueStack) : valueStack[i] \in S
  BY <1>1, ElementOfSeq
<1> HIDE DEF S
<1>3. Args(n) \in Seq(S) /\ Len(Args(n)) = n
  <2>1. \A i \in Len(valueStack) - n + 1 .. Len(valueStack) : valueStack[i] \in S
    BY <1>1, <1>2
  <2>2. Len(valueStack) - n + 1 \in Int
    BY <1>1
  <2>3. /\ SubSeq(valueStack, Len(valueStack) - n + 1, Len(valueStack)) \in Seq(S)
        /\ Len(SubSeq(valueStack, Len(valueStack) - n + 1, Len(valueStack))) =
             IF Len(valueStack) - n + 1 <= Len(valueStack)
             THEN Len(valueStack) - (Len(valueStack) - n + 1) + 1 ELSE 0
    BY <1>1, <2>1, <2>2, SubSeqProperties
  <2> QED BY <1>1, <2>3 DEF Args
<1>4. Pop(n) \in Seq(S) /\ Len(Pop(n)) = Len(valueStack) - n
  <2>1. \A i \in 1 .. Len(valueStack) - n : valueStack[i] \in S
    BY <1>1, <1>2
  <2>2. Len(valueStack) - n \in Int
    BY <1>1
  <2>3. /\ SubSeq(valueStack, 1, Len(valueStack) - n) \in Seq(S)
        /\ Len(SubSeq(valueStack, 1, Len(valueStack) - n)) =
             IF 1 <= Len(valueStack) - n THEN Len(valueStack) - n - 1 + 1 ELSE 0
    BY <2>1, <2>2, SubSeqProperties
  <2> QED BY <1>1, <2>3 DEF Pop
<1>5. n > 0 => Top \in S
  BY <1>1, <1>2 DEF Top
<1>6. ASSUME NEW v \in S
      PROVE  PopAndPush(n, v) \in Seq(S) /\ Len(PopAndPush(n, v)) = Len(valueStack) - n + 1
  BY <1>4, AppendProperties DEF PopAndPush
<1> QED BY <1>3, <1>4, <1>5, <1>6 DEF S

\* A jump along an edge does not abort.
LEMMA JumpFollows ==
  ASSUME Certified, Inv, Running, NEW offset, NEW d, NEW i,
         Edge(pc, offset, d, i) \in HereEdges, JumpToOrAbort(offset),
         Len(valueStack') = Len(valueStack) - D + d,
         Len(iteratorStack') = Len(iteratorStack) - I + i
  PROVE  StepShape
<1> DEFINE e == Edge(pc, offset, d, i)
<1>1. e.pc = pc + 1 + offset /\ e.depth = d /\ e.iters = i
  BY DEF Edge
<1>2. e.pc \in 0 .. Len(Code)
  BY EdgeFits
<1>3. pc' = e.pc /\ UNCHANGED <<path, callStack, abortStatus>>
  BY <1>1, <1>2 DEF JumpToOrAbort
<1>4. Follows(e)
  BY <1>1, <1>3 DEF Follows
<1> QED BY <1>4 DEF StepShape

\* The typed data after a step that changes the value stack only.
LEMMA SameData ==
  ASSUME TypeOK, program' = program,
         UNCHANGED <<iteratorStack, slots, heap, iterations, lookups>>,
         valueStack' \in Seq(ValueIn(Len(arena)))
  PROVE  DataOK' /\ Len(arena) <= Len(arena')
<1>1. P' = P /\ SlotIndex' = SlotIndex
  BY SameProgram
<1>2. arena' = arena /\ mutableLists' = mutableLists
  BY DEF heap
<1>3. IteratorEntry(Len(arena))' = IteratorEntry(Len(arena))
  BY <1>1, <1>2 DEF IteratorEntry
<1>4. Len(arena) \in Nat
  BY DEF TypeOK, DataOK, ArenaOK
<1> QED BY <1>1, <1>2, <1>3, <1>4 DEF TypeOK, DataOK

\* A step that replaces n arguments by a value.
LEMMA ReplaceOK ==
  ASSUME Certified, Inv, Running, program' = program, NEW n \in Nat, HasEnough(n),
         NEW v \in ValueIn(Len(arena)), Edge(pc, 0, D - n + 1, I) \in HereEdges,
         Replace(n, v)
  PROVE  StepOK
<1>1. /\ PopAndPush(n, v) \in Seq(ValueIn(Len(arena)))
      /\ Len(PopAndPush(n, v)) = Len(valueStack) - n + 1
  BY StackOps DEF Inv
<1>2. /\ valueStack' = PopAndPush(n, v) /\ JumpToOrAbort(0)
      /\ UNCHANGED <<iteratorStack, slots, heap, iterations, lookups>>
  BY DEF Replace, Continue
<1>3. Len(valueStack) \in Nat /\ Len(iteratorStack) \in Nat /\ D \in Nat /\ I \in Nat
  BY Heights, PositionFacts DEF Inv
<1>4. /\ Len(valueStack') = Len(valueStack) - D + (D - n + 1)
      /\ Len(iteratorStack') = Len(iteratorStack) - I + I
  BY <1>1, <1>2, <1>3
<1>5. StepShape
  BY <1>2, <1>4, JumpFollows
<1> QED BY <1>1, <1>2, <1>5, SameData DEF StepOK, Inv

\* A step that fails without touching the data.
LEMMA AbortStepOK ==
  ASSUME Certified, Inv, Running, program' = program,
         NEW status \in Failures, AbortStep(status)
  PROVE  StepOK
<1>1. abortStatus = "ok"
  BY Heights
<1>2. /\ Abort(status)
      /\ UNCHANGED <<valueStack, iteratorStack, slots, heap, iterations, lookups>>
  BY DEF AbortStep
<1>3. CutShort
  BY <1>1, <1>2 DEF Abort, CutShort, Inv, StackInv, StacksWithinCapacity
<1>4. valueStack' \in Seq(ValueIn(Len(arena)))
  BY <1>2 DEF Inv, TypeOK, DataOK
<1> QED BY <1>2, <1>3, <1>4, SameData DEF StepOK, StepShape, Inv

-----------------------------------------------------------------------------
(***************************************************************************)
(* The results of the steps are values of the arena.                        *)
(***************************************************************************)
\* Not and NotStrictlyFalse return bools, errors or unknowns.
LEMMA NotTyped ==
  ASSUME NEW m \in Nat, NEW v \in ValueIn(m)
  PROVE  NotResult(v) \in ValueIn(m) /\ NotStrictlyFalseResult(v) \in ValueIn(m)
<1>1. \A b : BoolValue(b) \in ValueIn(m)
  BY ConstructorsTyped
<1>2. ErrorValue(kNoMatchingOverload) \in ValueIn(m)
  BY ConstructorsTyped DEF kNoMatchingOverload
<1>3. NotResult(v) \in ValueIn(m)
  BY <1>1, <1>2, Zenon DEF NotResult
<1>4. NotStrictlyFalseResult(v) \in ValueIn(m)
  BY <1>1, <1>2, Zenon DEF NotStrictlyFalseResult
<1> QED BY <1>3, <1>4

\* BoolLogic returns a bool, an unknown or an error.
LEMMA BoolLogicTyped ==
  ASSUME NEW m \in Nat, NEW args \in Seq(ValueIn(m)), NEW shortcircuit
  PROVE  BoolLogicResult(args, shortcircuit) \in ValueIn(m)
<1> DEFINE bad == {i \in DOMAIN args : args[i].kind \notin {"bool", "unknown"}}
           c == CHOOSE i \in bad : \A j \in bad : i <= j
<1>1. \A b : BoolValue(b) \in ValueIn(m)
  BY ConstructorsTyped
<1>2. MergeUnknowns(args) \in ValueIn(m) /\ ErrorValue(kNoMatchingOverload) \in ValueIn(m)
  BY MergeUnknownsTyped, ConstructorsTyped DEF kNoMatchingOverload
<1>3. bad # {} => args[c] \in ValueIn(m)
  <2>1. bad \in SUBSET Nat /\ \A i \in bad : args[i] \in ValueIn(m)
    OBVIOUS
  <2>2. bad # {} => \E i \in bad : \A j \in bad : i <= j
    BY <2>1, LeastExists
  <2>3. bad # {} => c \in bad
    BY <2>2
  <2> QED BY <2>1, <2>3
<1> QED BY <1>1, <1>2, <1>3, Zenon DEF BoolLogicResult

\* TernaryStep returns one of its arguments or an error.
LEMMA TernaryTyped ==
  ASSUME NEW m \in Nat, NEW args \in Seq(ValueIn(m)), Len(args) = 3
  PROVE  TernaryResult(args) \in ValueIn(m)
<1>1. args[1] \in ValueIn(m) /\ args[2] \in ValueIn(m) /\ args[3] \in ValueIn(m)
  BY ElementOfSeq
<1>2. ErrorValue(kNoMatchingOverload) \in ValueIn(m)
  BY ConstructorsTyped DEF kNoMatchingOverload
<1> QED BY <1>1, <1>2, Zenon DEF TernaryResult

\* An error or a merged unknown that takes precedence is a value.
LEMMA PropagatedTyped ==
  ASSUME NEW m \in Nat, NEW args \in Seq(ValueIn(m))
  PROVE  Propagated(args) \in ValueIn(m)
BY FirstErrorTyped, MergeUnknownsTyped DEF Propagated

\* EvaluateEquality and EvaluateIn return values.
LEMMA EqualityTyped ==
  ASSUME NEW m \in Nat, NEW args \in Seq(ValueIn(m)), NEW negation
  PROVE  EqualityResult(args, negation) \in ValueIn(m) /\ InResult(args) \in ValueIn(m)
<1>1. \A b : BoolValue(b) \in ValueIn(m)
  BY ConstructorsTyped
<1>2. ErrorValue(kNoMatchingOverload) \in ValueIn(m) /\ Propagated(args) \in ValueIn(m)
  BY ConstructorsTyped, PropagatedTyped DEF kNoMatchingOverload
<1>3. EqualityResult(args, negation) \in ValueIn(m)
  BY <1>1, <1>2, Zenon DEF EqualityResult
<1>4. InResult(args) \in ValueIn(m)
  BY <1>1, <1>2, Zenon DEF InResult
<1> QED BY <1>3, <1>4

-----------------------------------------------------------------------------
(***************************************************************************)
(* The steps, one lemma for each kind.                                      *)
(***************************************************************************)
\* A step that checks for its n arguments and finds them.
LEMMA StrictOK ==
  ASSUME Certified, Inv, NEW op, NEW n \in Nat, NEW v, Strict(op, n, v),
         ValuesNeeded(Step) = n,
         Edge(pc, 0, D - n + 1, I) \in HereEdges,
         HasEnough(n) => v \in ValueIn(Len(arena))
  PROVE  StepOK
<1>1. Running /\ program' = program
  BY AtFacts DEF Strict, Inv
<1>2. HasEnough(n)
  BY <1>1, Heights
<1>3. Replace(n, v)
  BY <1>2 DEF Strict
<1> QED BY <1>1, <1>2, <1>3, ReplaceOK

\* The steps Not and NotStrictlyFalse.
LEMMA UnaryOK ==
  ASSUME Certified, Inv, BooleanNot \/ NotStrictlyFalse
  PROVE  StepOK
<1>1. Step.op \in {"kBooleanNot", "kNotStrictlyFalse"} /\ Running
  BY AtFacts DEF BooleanNot, NotStrictlyFalse, Strict, Inv
<1>2. ValuesNeeded(Step) = 1 /\ Edge(pc, 0, D, I) \in HereEdges
  BY <1>1, NeededTable, EdgeTable DEF HereEdges
<1>3. D - 1 + 1 = D
  BY <1>1, PositionFacts DEF Inv
<1>4. Edge(pc, 0, D - 1 + 1, I) \in HereEdges
  BY <1>2, <1>3
<1>5. Len(arena) \in Nat
  BY DEF Inv, TypeOK, DataOK, ArenaOK
<1>6. HasEnough(1) => /\ NotResult(Top) \in ValueIn(Len(arena))
                      /\ NotStrictlyFalseResult(Top) \in ValueIn(Len(arena))
  BY <1>5, StackOps, NotTyped DEF Inv
<1>7. 1 \in Nat
  OBVIOUS
<1>8. CASE BooleanNot
  BY <1>2, <1>4, <1>6, <1>7, <1>8, StrictOK DEF BooleanNot
<1>9. CASE NotStrictlyFalse
  BY <1>2, <1>4, <1>6, <1>7, <1>9, StrictOK DEF NotStrictlyFalse
<1> QED BY <1>8, <1>9

\* BoolLogic, the exhaustive ternary, equality and membership.
LEMMA OperatorOK ==
  ASSUME Certified, Inv,
         BooleanOr \/ BooleanAnd \/ Ternary \/ FastEqual \/ FastNotEqual \/ FastIn
  PROVE  StepOK
<1>1. /\ Step.op \in {"kBooleanOr", "kBooleanAnd", "kTernary", "kFastEqual", "kFastNotEqual",
                      "kFastIn"}
      /\ Running
  BY AtFacts DEF BooleanOr, BooleanAnd, Ternary, FastEqual, FastNotEqual, FastIn, Strict, Inv
<1>2. Edge(pc, 0, D - ValuesNeeded(Step) + 1, I) \in HereEdges
  BY <1>1, EdgeTable DEF HereEdges
<1>3. Len(arena) \in Nat /\ Step.argc \in Nat
  BY <1>1, StepFacts DEF Inv, TypeOK, DataOK, ArenaOK
<1>4. ASSUME NEW n \in Nat, HasEnough(n)
      PROVE  Args(n) \in Seq(ValueIn(Len(arena))) /\ Len(Args(n)) = n
  BY <1>4, StackOps DEF Inv
<1>5. CASE BooleanOr
  <2>1. ValuesNeeded(Step) = Step.argc
    BY <1>5, AtFacts, NeededTable DEF BooleanOr, Strict, Inv
  <2>2. HasEnough(Step.argc) =>
          BoolLogicResult(Args(Step.argc), TRUE) \in ValueIn(Len(arena))
    BY <1>3, <1>4, BoolLogicTyped
  <2> QED BY <1>2, <1>3, <1>5, <2>1, <2>2, StrictOK DEF BooleanOr
<1>6. CASE BooleanAnd
  <2>1. ValuesNeeded(Step) = Step.argc
    BY <1>6, AtFacts, NeededTable DEF BooleanAnd, Strict, Inv
  <2>2. HasEnough(Step.argc) =>
          BoolLogicResult(Args(Step.argc), FALSE) \in ValueIn(Len(arena))
    BY <1>3, <1>4, BoolLogicTyped
  <2> QED BY <1>2, <1>3, <1>6, <2>1, <2>2, StrictOK DEF BooleanAnd
<1>7. CASE Ternary
  <2>1. ValuesNeeded(Step) = 3
    BY <1>7, AtFacts, NeededTable DEF Ternary, Strict, Inv
  <2>2. HasEnough(3) => TernaryResult(Args(3)) \in ValueIn(Len(arena))
    BY <1>3, <1>4, TernaryTyped
  <2>3. 3 \in Nat
    OBVIOUS
  <2> QED BY <1>2, <1>7, <2>1, <2>2, <2>3, StrictOK DEF Ternary
<1>8. CASE FastEqual \/ FastNotEqual \/ FastIn
  <2>0. Step.op \in {"kFastEqual", "kFastNotEqual", "kFastIn"}
    BY <1>8, AtFacts DEF FastEqual, FastNotEqual, FastIn, Strict, Inv
  <2>1. ValuesNeeded(Step) = 2
    BY <2>0, NeededTable
  <2>2. HasEnough(2) => /\ EqualityResult(Args(2), FALSE) \in ValueIn(Len(arena))
                        /\ EqualityResult(Args(2), TRUE) \in ValueIn(Len(arena))
                        /\ InResult(Args(2)) \in ValueIn(Len(arena))
    BY <1>3, <1>4, EqualityTyped
  <2>3. 2 \in Nat
    OBVIOUS
  <2>4. CASE FastEqual
    BY <1>2, <2>1, <2>2, <2>3, <2>4, StrictOK DEF FastEqual
  <2>5. CASE FastNotEqual
    BY <1>2, <2>1, <2>2, <2>3, <2>5, StrictOK DEF FastNotEqual
  <2>6. CASE FastIn
    BY <1>2, <2>1, <2>2, <2>3, <2>6, StrictOK DEF FastIn
  <2> QED BY <1>8, <2>4, <2>5, <2>6
<1> QED BY <1>5, <1>6, <1>7, <1>8

\* A step that pushes, without arguments.
LEMMA PushOK ==
  ASSUME Certified, Inv, Running, program' = program,
         Step.op \in {"kConstant", "kIdentifier", "kReadSlot", "kLazyInit", "kNewMutableList"},
         NEW v \in ValueIn(Len(arena)), Replace(0, v)
  PROVE  StepOK
<1>1. Edge(pc, 0, D + 1, I) \in HereEdges
  BY EdgeTable DEF HereEdges
<1>2. D - 0 + 1 = D + 1
  BY PositionFacts DEF Inv
<1>3. Edge(pc, 0, D - 0 + 1, I) \in HereEdges
  BY <1>1, <1>2
<1>4. 0 \in Nat /\ HasEnough(0)
  BY Heights DEF HasEnough
<1> QED BY <1>3, <1>4, ReplaceOK

\* The slot a step names exists, and what it holds is a value.
LEMMA SlotFacts ==
  ASSUME TypeOK, Running, SlotSpan(Step) >= 1
  PROVE  Step.slot \in SlotIndex /\ slots[Step.slot].value \in ValueIn(Len(arena))
<1>1. P.slotCount \in Nat
  BY ProgramFacts DEF TypeOK, RequestOK
<1>2. SlotSpan(Step) \in Int
  <2>1. SlotSpan(Step) \in {0, 1, 2, 3, Step.argc}
    BY Zenon DEF SlotSpan
  <2> QED BY <2>1, StepFacts
<1>3. Step.slot \in SlotIndex
  BY <1>1, <1>2, StepFacts DEF SlotIndex
<1>4. slots[Step.slot] \in SlotIn(Len(arena))
  BY <1>3 DEF TypeOK, DataOK
<1> QED BY <1>3, <1>4 DEF SlotIn

\* The arms of SlotSpan.
LEMMA SlotSpanTable ==
  ASSUME NEW s
  PROVE  /\ s.op \in {"kReadSlot", "kLazyInit", "kAssignSlotAndPop", "kIdentifier",
                      "kComprehensionFinish"} => SlotSpan(s) = 1
         /\ s.op = "kComprehensionInit" => SlotSpan(s) = IF s.v2 THEN 3 ELSE 2
BY Zenon DEF SlotSpan

\* The constant steps.
LEMMA ConstantOK == ASSUME Certified, Inv, Constant PROVE StepOK
<1>1. Running /\ program' = program /\ Step.op = "kConstant"
  BY AtFacts DEF Constant, Inv
<1>2. Step.value \in ValueIn(0)
  BY <1>1, StepFacts DEF Inv, StepRecord
<1>3. Len(arena) \in Nat
  BY DEF Inv, TypeOK, DataOK, ArenaOK
<1>4. Step.value \in ValueIn(Len(arena))
  BY <1>2, <1>3, ValueInGrows
<1> QED BY <1>1, <1>4, PushOK DEF Constant

\* ReadSlot.
LEMMA ReadSlotOK == ASSUME Certified, Inv, ReadSlot PROVE StepOK
<1>1. Running /\ program' = program /\ Step.op = "kReadSlot"
  BY AtFacts DEF ReadSlot, Inv
<1>2. slots[Step.slot].value \in ValueIn(Len(arena))
  BY <1>1, SlotSpanTable, SlotFacts DEF Inv
<1>3. CASE Replace(0, slots[Step.slot].value)
  BY <1>1, <1>2, <1>3, PushOK
<1>4. CASE AbortStep("scope")
  BY <1>1, <1>4, AbortStepOK DEF Failures
<1> QED BY <1>3, <1>4 DEF ReadSlot

\* LazyInit reads its slot or calls its subexpression.
LEMMA LazyInitOK == ASSUME Certified, Inv, LazyInit PROVE StepOK
<1>1. Running /\ program' = program /\ Step.op = "kLazyInit"
  BY AtFacts DEF LazyInit, Inv
<1>2. slots[Step.slot].value \in ValueIn(Len(arena))
  BY <1>1, SlotSpanTable, SlotFacts DEF Inv
<1>3. CASE Replace(0, slots[Step.slot].value)
  BY <1>1, <1>2, <1>3, PushOK
<1>4. CASE /\ Call(Step.slot, Step.sub)
           /\ UNCHANGED <<valueStack, iteratorStack, slots, heap, iterations, lookups>>
  <2>1. Enters
    BY <1>1, <1>4 DEF Enters
  <2>2. valueStack' \in Seq(ValueIn(Len(arena)))
    BY <1>4 DEF Inv, TypeOK, DataOK
  <2> QED BY <1>1, <1>4, <2>1, <2>2, SameData DEF StepOK, StepShape, Inv
<1> QED BY <1>3, <1>4 DEF LazyInit

\* Steps that change the value stack and the control only.
LEMMA DataStepOK ==
  ASSUME Certified, Inv, Running, program' = program,
         NEW offset, NEW d \in Int, Edge(pc, offset, d, I) \in HereEdges, JumpToOrAbort(offset),
         valueStack' \in Seq(ValueIn(Len(arena))),
         Len(valueStack') = Len(valueStack) - D + d,
         UNCHANGED <<iteratorStack, slots, heap, iterations, lookups>>
  PROVE  StepOK
<1>1. Len(iteratorStack) \in Nat /\ I \in Nat
  BY Heights, PositionFacts DEF Inv
<1>2. Len(iteratorStack') = Len(iteratorStack) - I + I
  BY <1>1
<1> QED BY <1>2, JumpFollows, SameData DEF StepOK, Inv

\* The fixed jump.
LEMMA FixedJumpOK == ASSUME Certified, Inv, FixedJump PROVE StepOK
<1>1. Running /\ program' = program /\ Step.op = "kFixedJump"
  BY AtFacts DEF FixedJump, Inv
<1>2. Edge(pc, Step.offset, D, I) \in HereEdges
  BY <1>1, EdgeTable DEF HereEdges
<1>3. D \in Int /\ Len(valueStack) \in Nat
  BY <1>1, Heights, PositionFacts DEF Inv
<1>4. valueStack' \in Seq(ValueIn(Len(arena))) /\ Len(valueStack') = Len(valueStack) - D + D
  BY <1>3 DEF FixedJump, Inv, TypeOK, DataOK
<1> QED BY <1>1, <1>2, <1>3, <1>4, DataStepOK DEF FixedJump

\* BoolJump.
LEMMA BoolJumpOK ==
  ASSUME Certified, Inv, NEW op \in {"kBooleanOrJump", "kBooleanAndJump"}, NEW target,
         BoolJump(op, target)
  PROVE  StepOK
<1>1. Running /\ program' = program /\ Step.op \in {"kBooleanOrJump", "kBooleanAndJump"}
  BY AtFacts DEF BoolJump, Inv
<1>2. Edge(pc, 0, D, I) \in HereEdges /\ Edge(pc, Step.offset, D - Step.argc + 1, I) \in HereEdges
  BY <1>1, EdgeTable DEF HereEdges
<1>3. D \in Nat /\ Len(valueStack) \in Nat
  BY <1>1, Heights, PositionFacts DEF Inv
<1>4. Step.argc \in Nat /\ Step.argc > 0
  BY <1>1, StepFacts DEF Inv
<1>5. HasEnough(Step.argc)
  <2>1. ValuesNeeded(Step) = Step.argc
    BY <1>1, NeededTable
  <2> QED BY <1>1, <2>1, Heights
<1>6. UNCHANGED <<iteratorStack, slots, heap, iterations, lookups>>
  BY <1>5 DEF BoolJump
<1>7. CASE valueStack' = PopAndPush(Step.argc, Top) /\ JumpToOrAbort(Step.offset)
  <2>1. Top \in ValueIn(Len(arena))
    BY <1>4, <1>5, StackOps DEF Inv
  <2>2. /\ valueStack' \in Seq(ValueIn(Len(arena)))
        /\ Len(valueStack') = Len(valueStack) - Step.argc + 1
    BY <1>4, <1>5, <1>7, <2>1, StackOps DEF Inv
  <2>3. D - Step.argc + 1 \in Int /\ Len(valueStack') = Len(valueStack) - D + (D - Step.argc + 1)
    BY <1>3, <1>4, <2>2
  <2> QED BY <1>1, <1>2, <1>6, <1>7, <2>2, <2>3, DataStepOK
<1>8. CASE Continue /\ UNCHANGED valueStack
  <2>1. valueStack' \in Seq(ValueIn(Len(arena))) /\ Len(valueStack') = Len(valueStack) - D + D
    BY <1>3, <1>8 DEF Inv, TypeOK, DataOK
  <2> QED BY <1>1, <1>2, <1>3, <1>6, <1>8, <2>1, DataStepOK DEF Continue
<1> QED BY <1>5, <1>7, <1>8 DEF BoolJump

\* TernaryJump: to either branch, or past both with an error or unknown.
LEMMA TernaryJumpOK == ASSUME Certified, Inv, TernaryJump PROVE StepOK
<1>1. Running /\ program' = program /\ Step.op = "kTernaryJump"
  BY AtFacts DEF TernaryJump, Inv
<1>2. /\ Edge(pc, 0, D - 1, I) \in HereEdges
      /\ Edge(pc, Step.offset2, D - 1, I) \in HereEdges
      /\ Edge(pc, Step.offset, D, I) \in HereEdges
  BY <1>1, EdgeTable DEF HereEdges
<1>3. D \in Nat /\ Len(valueStack) \in Nat /\ Len(arena) \in Nat
  BY <1>1, Heights, PositionFacts DEF Inv, TypeOK, DataOK, ArenaOK
<1>4. HasEnough(1) /\ 1 \in Nat
  BY <1>1, NeededTable, Heights
<1>5. UNCHANGED <<iteratorStack, slots, heap, iterations, lookups>>
  BY <1>4 DEF TernaryJump
<1>6. ASSUME valueStack' = Pop(1), NEW offset, JumpToOrAbort(offset),
             Edge(pc, offset, D - 1, I) \in HereEdges
      PROVE  StepOK
  <2>1. /\ valueStack' \in Seq(ValueIn(Len(arena)))
        /\ Len(valueStack') = Len(valueStack) - 1
    BY <1>4, <1>6, StackOps DEF Inv
  <2>2. D - 1 \in Int /\ Len(valueStack') = Len(valueStack) - D + (D - 1)
    BY <1>3, <2>1
  <2> QED BY <1>1, <1>5, <1>6, <2>1, <2>2, DataStepOK
<1>7. ASSUME valueStack' \in Seq(ValueIn(Len(arena))), Len(valueStack') = Len(valueStack),
             JumpToOrAbort(Step.offset)
      PROVE  StepOK
  <2>1. D \in Int /\ Len(valueStack') = Len(valueStack) - D + D
    BY <1>3, <1>7
  <2> QED BY <1>1, <1>2, <1>5, <1>7, <2>1, DataStepOK
<1>8. CASE valueStack' = Pop(1) /\ Continue
  BY <1>2, <1>6, <1>8 DEF Continue
<1>9. CASE valueStack' = Pop(1) /\ JumpToOrAbort(Step.offset2)
  BY <1>2, <1>6, <1>9
<1>10. CASE JumpToOrAbort(Step.offset) /\ UNCHANGED valueStack
  BY <1>7, <1>10 DEF Inv, TypeOK, DataOK
<1>11. CASE /\ valueStack' = PopAndPush(1, ErrorValue(kNoMatchingOverload))
            /\ JumpToOrAbort(Step.offset)
  <2>1. ErrorValue(kNoMatchingOverload) \in ValueIn(Len(arena))
    BY <1>3, ConstructorsTyped DEF kNoMatchingOverload
  <2>2. /\ valueStack' \in Seq(ValueIn(Len(arena)))
        /\ Len(valueStack') = Len(valueStack) - 1 + 1
    BY <1>4, <1>11, <2>1, StackOps DEF Inv
  <2> QED BY <1>3, <1>7, <1>11, <2>2
<1> QED BY <1>4, <1>8, <1>9, <1>10, <1>11 DEF TernaryJump

\* Slots that are written with values, or cleared, stay typed.
LEMMA FilledTyped ==
  ASSUME NEW m \in Nat, NEW v \in ValueIn(m), NEW w \in Writers
  PROVE  Filled(v, w) \in SlotIn(m)
BY DEF Filled, SlotIn

\* Clearing slots keeps them typed.
LEMMA ClearedTyped ==
  ASSUME NEW m \in Nat, NEW S, NEW s \in [S -> SlotIn(m)], NEW dead
  PROVE  ClearSlots(s, dead) \in [S -> SlotIn(m)]
<1>1. EmptySlot \in SlotIn(m)
  BY ConstructorsTyped DEF EmptySlot, SlotIn, NoWriter, Writers
<1> QED BY <1>1 DEF ClearSlots

\* The typed data after a step that leaves the heap and the iterators alone.
LEMMA SlotData ==
  ASSUME TypeOK, program' = program, UNCHANGED <<iteratorStack, heap>>,
         iterations' \in Nat, lookups' \in [Identifiers -> Nat],
         valueStack' \in Seq(ValueIn(Len(arena))),
         slots' \in [SlotIndex -> SlotIn(Len(arena))]
  PROVE  DataOK' /\ Len(arena) <= Len(arena')
<1>1. P' = P /\ SlotIndex' = SlotIndex
  BY SameProgram
<1>2. arena' = arena /\ mutableLists' = mutableLists
  BY DEF heap
<1>3. IteratorEntry(Len(arena))' = IteratorEntry(Len(arena))
  BY <1>1, <1>2 DEF IteratorEntry
<1>4. Len(arena) \in Nat
  BY DEF TypeOK, DataOK, ArenaOK
<1> QED BY <1>1, <1>2, <1>3, <1>4 DEF TypeOK, DataOK

\* AssignSlotAndPop.
LEMMA AssignSlotAndPopOK == ASSUME Certified, Inv, AssignSlotAndPop PROVE StepOK
<1>1. Running /\ program' = program /\ Step.op = "kAssignSlotAndPop"
  BY AtFacts DEF AssignSlotAndPop, Inv
<1>2. Edge(pc, 0, D - 1, I) \in HereEdges
  BY <1>1, EdgeTable DEF HereEdges
<1>3. /\ D \in Nat /\ I \in Nat /\ Len(valueStack) \in Nat /\ Len(iteratorStack) \in Nat
      /\ Len(arena) \in Nat
  BY <1>1, Heights, PositionFacts DEF Inv, TypeOK, DataOK, ArenaOK
<1>4. HasEnough(1) /\ 1 \in Nat
  BY <1>1, NeededTable, Heights
<1>5. /\ slots' = [slots EXCEPT ![Step.slot] = Filled(Top, <<"assign", Step.slot>>)]
      /\ valueStack' = Pop(1)
      /\ JumpToOrAbort(0)
      /\ UNCHANGED <<iteratorStack, heap, iterations, lookups>>
  BY <1>4 DEF AssignSlotAndPop, Continue
<1>6. /\ valueStack' \in Seq(ValueIn(Len(arena))) /\ Len(valueStack') = Len(valueStack) - 1
      /\ Top \in ValueIn(Len(arena))
  BY <1>4, <1>5, StackOps DEF Inv
<1>7. slots' \in [SlotIndex -> SlotIn(Len(arena))]
  <2>1. <<"assign", Step.slot>> \in Writers
    BY <1>1, StepFacts DEF Writers, Inv
  <2>2. Filled(Top, <<"assign", Step.slot>>) \in SlotIn(Len(arena))
    BY <1>3, <1>6, <2>1, FilledTyped
  <2> QED BY <1>5, <2>2 DEF Inv, TypeOK, DataOK
<1>8. /\ Len(valueStack') = Len(valueStack) - D + (D - 1)
      /\ Len(iteratorStack') = Len(iteratorStack) - I + I
  BY <1>3, <1>5, <1>6
<1>9. StepShape
  BY <1>1, <1>2, <1>5, <1>8, JumpFollows
<1>10. DataOK' /\ Len(arena) <= Len(arena')
  BY <1>1, <1>5, <1>6, <1>7, SlotData DEF Inv, TypeOK, DataOK
<1> QED BY <1>9, <1>10 DEF StepOK

\* ClearSlot over the range of the step.
LEMMA ClearSlotsOK == ASSUME Certified, Inv, ClearSlotsStep PROVE StepOK
<1>1. Running /\ program' = program /\ Step.op = "kClearSlots"
  BY AtFacts DEF ClearSlotsStep, Inv
<1>2. Edge(pc, 0, D, I) \in HereEdges
  BY <1>1, EdgeTable DEF HereEdges
<1>3. /\ D \in Nat /\ I \in Nat /\ Len(valueStack) \in Nat /\ Len(iteratorStack) \in Nat
      /\ Len(arena) \in Nat
  BY <1>1, Heights, PositionFacts DEF Inv, TypeOK, DataOK, ArenaOK
<1>4. /\ Len(valueStack') = Len(valueStack) - D + D
      /\ Len(iteratorStack') = Len(iteratorStack) - I + I
  BY <1>3 DEF ClearSlotsStep
<1>5. StepShape
  BY <1>1, <1>2, <1>4, JumpFollows DEF ClearSlotsStep, Continue
<1>6. slots' \in [SlotIndex -> SlotIn(Len(arena))]
  BY <1>3, ClearedTyped DEF ClearSlotsStep, Inv, TypeOK, DataOK
<1>7. DataOK' /\ Len(arena) <= Len(arena')
  BY <1>1, <1>6, SlotData DEF ClearSlotsStep, Inv, TypeOK, DataOK
<1> QED BY <1>5, <1>7 DEF StepOK

\* What FindVariable yields refers to the activation's part of the arena.
LEMMA FoundTyped ==
  ASSUME TypeOK, NEW x \in Identifiers, NEW found \in activation.vars[x],
         found \notin {Failing, Unbound}
  PROVE  found \in ValueIn(Len(arena))
<1>1. activation \in Activations /\ Len(activation.arena) <= Len(arena) /\ Len(arena) \in Nat
  BY DEF TypeOK, RequestOK, DataOK, ArenaOK
<1>2. /\ Len(activation.arena) \in Nat
      /\ activation.vars \in
           [Identifiers -> SUBSET (ValueIn(Len(activation.arena)) \cup {Unbound, Failing})]
  BY <1>1, ActivationsAssumption DEF ActivationOK, ArenaOK
<1>3. found \in ValueIn(Len(activation.arena))
  BY <1>2
<1> QED BY <1>1, <1>2, <1>3, ValueInGrows

\* The value found for an identifier, pushed and kept.
LEMMA PushIdentifierOK ==
  ASSUME Certified, Inv, Running, program' = program, Step.op = "kIdentifier",
         NEW v \in ValueIn(Len(arena)), PushIdentifier(v),
         lookups' \in [Identifiers -> Nat],
         UNCHANGED <<iteratorStack, heap, iterations>>
  PROVE  StepOK
<1>1. Edge(pc, 0, D + 1, I) \in HereEdges
  BY EdgeTable DEF HereEdges
<1>2. /\ D \in Nat /\ I \in Nat /\ Len(valueStack) \in Nat /\ Len(iteratorStack) \in Nat
      /\ Len(arena) \in Nat
  BY Heights, PositionFacts DEF Inv, TypeOK, DataOK, ArenaOK
<1>3. /\ valueStack' = Append(valueStack, v)
      /\ slots' = [slots EXCEPT ![Step.slot] = Filled(v, <<"ident", Step.slot>>)]
      /\ JumpToOrAbort(0)
  BY DEF PushIdentifier, Continue
<1>4. valueStack' \in Seq(ValueIn(Len(arena))) /\ Len(valueStack') = Len(valueStack) + 1
  BY <1>3, AppendProperties DEF Inv, TypeOK, DataOK
<1>5. slots' \in [SlotIndex -> SlotIn(Len(arena))]
  <2>1. <<"ident", Step.slot>> \in Writers
    BY StepFacts DEF Writers, Inv
  <2>2. Filled(v, <<"ident", Step.slot>>) \in SlotIn(Len(arena))
    BY <1>2, <2>1, FilledTyped
  <2> QED BY <1>3, <2>2 DEF Inv, TypeOK, DataOK
<1>6. /\ Len(valueStack') = Len(valueStack) - D + (D + 1)
      /\ Len(iteratorStack') = Len(iteratorStack) - I + I
  BY <1>2, <1>4
<1>7. StepShape
  BY <1>1, <1>3, <1>6, JumpFollows
<1>8. DataOK' /\ Len(arena) <= Len(arena')
  BY <1>4, <1>5, SlotData DEF Inv, TypeOK, DataOK
<1> QED BY <1>7, <1>8 DEF StepOK

\* EvaluateIdentifierStep, with a lookup that finds, misses or fails.
LEMMA IdentifierOK == ASSUME Certified, Inv, Identifier PROVE StepOK
<1>1. Running /\ program' = program /\ Step.op = "kIdentifier"
  BY AtFacts DEF Identifier, Inv
<1>2. slots[Step.slot].value \in ValueIn(Len(arena))
  BY <1>1, SlotSpanTable, SlotFacts DEF Inv
<1>3. Step.name \in Identifiers /\ Len(arena) \in Nat
  BY <1>1, StepFacts DEF Inv, TypeOK, DataOK, ArenaOK
<1>4. CASE Replace(0, slots[Step.slot].value)
  BY <1>1, <1>2, <1>4, PushOK
<1>5. CASE LookupIdent /\ UNCHANGED <<iteratorStack, heap, iterations>>
  <2>1. CASE /\ Step.name \in activation.unknown
             /\ PushIdentifier(UnknownValue({Step.name}))
             /\ UNCHANGED lookups
    <3>1. {Step.name} \in SUBSET Attributes
      BY <2>1, ActivationsAssumption DEF ActivationOK, Inv, TypeOK, RequestOK
    <3>2. UnknownValue({Step.name}) \in ValueIn(Len(arena))
      BY <1>3, <3>1, ConstructorsTyped
    <3>3. lookups' \in [Identifiers -> Nat]
      BY <2>1 DEF Inv, TypeOK, DataOK
    <3> QED BY <1>1, <1>5, <2>1, <3>2, <3>3, PushIdentifierOK
  <2>2. ASSUME lookups' = [lookups EXCEPT ![Step.name] = @ + 1],
               NEW found \in activation.vars[Step.name],
               \/ /\ found = Failing
                  /\ valueStack' = Append(valueStack, NullValue)
                  /\ Abort("lookup")
                  /\ UNCHANGED slots
               \/ found = Unbound /\ PushIdentifier(ErrorValue(kNoSuchVariable))
               \/ found \notin {Failing, Unbound} /\ PushIdentifier(found)
        PROVE  StepOK
    <3>1. lookups' \in [Identifiers -> Nat]
      <4>1. lookups \in [Identifiers -> Nat] /\ lookups[Step.name] + 1 \in Nat
        BY <1>3 DEF Inv, TypeOK, DataOK
      <4>2. lookups' = [lookups EXCEPT ![Step.name] = lookups[Step.name] + 1]
        BY <2>2
      <4> QED BY <4>1, <4>2
    <3>2. CASE /\ valueStack' = Append(valueStack, NullValue)
               /\ Abort("lookup")
               /\ UNCHANGED slots
      <4>1. NullValue \in ValueIn(Len(arena))
        BY <1>3, ConstructorsTyped
      <4>2. /\ valueStack' \in Seq(ValueIn(Len(arena)))
            /\ Len(valueStack') = Len(valueStack) + 1
        BY <3>2, <4>1, AppendProperties DEF Inv, TypeOK, DataOK
      <4>3. Len(valueStack) + 1 <= P.valueStackSize
        <5>1. Edge(pc, 0, D + 1, I) \in HereEdges /\ Edge(pc, 0, D + 1, I).depth = D + 1
          BY <1>1, EdgeTable DEF HereEdges, Edge
        <5>2. Len(valueStack) - D + (D + 1) <= P.valueStackSize
          BY <1>1, <5>1, EdgeFits
        <5>3. D \in Nat /\ Len(valueStack) \in Nat
          BY <1>1, Heights, PositionFacts DEF Inv
        <5> QED BY <5>2, <5>3
      <4>4. Len(iteratorStack') <= P.iteratorStackSize
        BY <1>5 DEF Inv, StackInv, StacksWithinCapacity
      <4>5. abortStatus = "ok"
        BY <1>1, Heights
      <4>6. CutShort
        BY <3>2, <4>2, <4>3, <4>4, <4>5 DEF CutShort, Failures, Abort
      <4>7. DataOK' /\ Len(arena) <= Len(arena')
        BY <1>1, <1>5, <3>1, <3>2, <4>2, SlotData DEF Inv, TypeOK, DataOK
      <4> QED BY <4>6, <4>7 DEF StepOK, StepShape
    <3>3. CASE PushIdentifier(ErrorValue(kNoSuchVariable))
      <4>1. ErrorValue(kNoSuchVariable) \in ValueIn(Len(arena))
        BY <1>3, ConstructorsTyped DEF kNoSuchVariable
      <4> QED BY <1>1, <1>5, <3>1, <3>3, <4>1, PushIdentifierOK
    <3>4. CASE found \notin {Failing, Unbound} /\ PushIdentifier(found)
      <4>1. found \in ValueIn(Len(arena))
        BY <1>3, <3>4, FoundTyped DEF Inv
      <4> QED BY <1>1, <1>5, <3>1, <3>4, <4>1, PushIdentifierOK
    <3> QED BY <2>2, <3>2, <3>3, <3>4
  <2> QED BY <1>5, <2>1, <2>2 DEF LookupIdent
<1> QED BY <1>4, <1>5 DEF Identifier

-----------------------------------------------------------------------------
(***************************************************************************)
(* Comprehensions.                                                          *)
(***************************************************************************)
\* The typed data after a step of a comprehension.
LEMMA LoopData ==
  ASSUME TypeOK, program' = program, UNCHANGED <<heap, lookups>>,
         iterations' \in Nat,
         valueStack' \in Seq(ValueIn(Len(arena))),
         iteratorStack' \in Seq(IteratorEntry(Len(arena))),
         slots' \in [SlotIndex -> SlotIn(Len(arena))]
  PROVE  DataOK' /\ Len(arena) <= Len(arena')
<1>1. P' = P /\ SlotIndex' = SlotIndex
  BY SameProgram
<1>2. arena' = arena /\ mutableLists' = mutableLists
  BY DEF heap
<1>3. IteratorEntry(Len(arena))' = IteratorEntry(Len(arena))
  BY <1>1, <1>2 DEF IteratorEntry
<1>4. Len(arena) \in Nat
  BY DEF TypeOK, DataOK, ArenaOK
<1> QED BY <1>1, <1>2, <1>3, <1>4 DEF TypeOK, DataOK

\* An iterator over a container of the arena, with the slots of its loop.
LEMMA NewIteratorTyped ==
  ASSUME TypeOK, Running, Step.op = "kComprehensionInit",
         NEW v \in ValueIn(Len(arena)), IsContainer(v)
  PROVE  NewIterator(v) \in IteratorEntry(Len(arena))
<1>1. v.n \in 1 .. Len(arena)
  BY ContainerInArena DEF TypeOK, DataOK, ArenaOK
<1>2. P.slotCount \in Nat
  BY ProgramFacts DEF TypeOK, RequestOK
<1>3. SlotSpan(Step) = IF Step.v2 THEN 3 ELSE 2
  BY SlotSpanTable
<1>4. Step.slot \in Nat /\ Step.slot + (IF Step.v2 THEN 3 ELSE 2) <= P.slotCount
  BY <1>3, StepFacts
<1>5. /\ Step.slot \in SlotIndex /\ Step.slot + 1 \in SlotIndex /\ 0 \in SlotIndex
      /\ Step.v2 => Step.slot + 2 \in SlotIndex
  BY <1>2, <1>4 DEF SlotIndex
<1>6. (v.kind = "map") \in BOOLEAN /\ 0 \in Nat
  OBVIOUS
<1>7. /\ (IF Step.v2 THEN Step.slot + 1 ELSE 0) \in SlotIndex
      /\ (IF Step.v2 THEN Step.slot + 2 ELSE Step.slot + 1) \in SlotIndex
  BY <1>5, Zenon
<1> QED BY <1>1, <1>5, <1>6, <1>7, Zenon DEF NewIterator, IteratorEntry

\* ComprehensionInit.
LEMMA ComprehensionInitOK == ASSUME Certified, Inv, ComprehensionInit PROVE StepOK
<1>1. Running /\ program' = program /\ Step.op = "kComprehensionInit"
  BY AtFacts DEF ComprehensionInit, Inv
<1>2. Edge(pc, 0, D, I + 1) \in HereEdges /\ Edge(pc, Step.offset, D, I) \in HereEdges
  BY <1>1, EdgeTable DEF HereEdges
<1>3. /\ D \in Nat /\ I \in Nat /\ Len(valueStack) \in Nat /\ Len(iteratorStack) \in Nat
      /\ Len(arena) \in Nat
  BY <1>1, Heights, PositionFacts DEF Inv, TypeOK, DataOK, ArenaOK
<1>4. HasEnough(1) /\ 1 \in Nat
  BY <1>1, NeededTable, Heights
<1>5. UNCHANGED <<slots, heap, iterations, lookups>>
  BY <1>4 DEF ComprehensionInit
<1>6. ASSUME JumpToOrAbort(Step.offset), UNCHANGED iteratorStack,
             valueStack' \in Seq(ValueIn(Len(arena))), Len(valueStack') = Len(valueStack)
      PROVE  StepOK
  <2>1. D \in Int /\ Len(valueStack') = Len(valueStack) - D + D
    BY <1>3, <1>6
  <2> QED BY <1>1, <1>2, <1>5, <1>6, <2>1, DataStepOK
<1>7. CASE JumpToOrAbort(Step.offset) /\ UNCHANGED <<valueStack, iteratorStack>>
  BY <1>6, <1>7 DEF Inv, TypeOK, DataOK
<1>8. CASE /\ valueStack' = PopAndPush(1, ErrorValue(kNoMatchingOverload))
           /\ JumpToOrAbort(Step.offset)
           /\ UNCHANGED iteratorStack
  <2>1. ErrorValue(kNoMatchingOverload) \in ValueIn(Len(arena))
    BY <1>3, ConstructorsTyped DEF kNoMatchingOverload
  <2>2. /\ valueStack' \in Seq(ValueIn(Len(arena)))
        /\ Len(valueStack') = Len(valueStack) - 1 + 1
    BY <1>4, <1>8, <2>1, StackOps DEF Inv
  <2> QED BY <1>3, <1>6, <1>8, <2>2
<1>9. CASE /\ IsContainer(Top)
           /\ iteratorStack' = Append(iteratorStack, NewIterator(Top))
           /\ Continue
           /\ UNCHANGED valueStack
  <2>1. Top \in ValueIn(Len(arena))
    BY <1>4, StackOps DEF Inv
  <2>2. NewIterator(Top) \in IteratorEntry(Len(arena))
    BY <1>1, <1>9, <2>1, NewIteratorTyped DEF Inv
  <2>3. /\ iteratorStack' \in Seq(IteratorEntry(Len(arena)))
        /\ Len(iteratorStack') = Len(iteratorStack) + 1
    BY <1>9, <2>2, AppendProperties DEF Inv, TypeOK, DataOK
  <2>4. /\ Len(valueStack') = Len(valueStack) - D + D
        /\ Len(iteratorStack') = Len(iteratorStack) - I + (I + 1)
    BY <1>3, <1>9, <2>3
  <2>5. StepShape
    BY <1>1, <1>2, <1>9, <2>4, JumpFollows DEF Continue
  <2>6. DataOK' /\ Len(arena) <= Len(arena')
    BY <1>1, <1>5, <1>9, <2>3, LoopData DEF Inv, TypeOK, DataOK
  <2> QED BY <2>5, <2>6 DEF StepOK
<1>10. CASE Abort("iterator") /\ UNCHANGED <<valueStack, iteratorStack>>
  <2>1. AbortStep("iterator") /\ "iterator" \in Failures
    BY <1>5, <1>10 DEF AbortStep, Failures
  <2> QED BY <1>1, <2>1, AbortStepOK
<1> QED BY <1>4, <1>7, <1>8, <1>9, <1>10 DEF ComprehensionInit

\* The iterator on top of the stack, and the stack without it.
LEMMA IteratorFacts ==
  ASSUME TypeOK, 1 <= Len(iteratorStack)
  PROVE  /\ iteratorStack # <<>>
         /\ Iterator \in IteratorEntry(Len(arena))
         /\ Iterator.obj \in 1 .. Len(arena) /\ Iterator.pos \in Nat
         /\ Iterator.iter \in SlotIndex /\ Iterator.iter2 \in SlotIndex
         /\ Iterator.accu \in SlotIndex
         /\ PopIterator \in Seq(IteratorEntry(Len(arena)))
         /\ Len(PopIterator) = Len(iteratorStack) - 1
<1> DEFINE S == IteratorEntry(Len(arena))
           n == Len(iteratorStack)
<1>1. iteratorStack \in Seq(S) /\ n \in Nat /\ n \in 1 .. n
  BY DEF TypeOK, DataOK
<1>2. Iterator \in S
  BY <1>1, ElementOfSeq DEF Iterator
<1>3. /\ Iterator.obj \in 1 .. Len(arena) /\ Iterator.pos \in Nat
      /\ Iterator.iter \in SlotIndex /\ Iterator.iter2 \in SlotIndex
      /\ Iterator.accu \in SlotIndex
  BY <1>2 DEF IteratorEntry
<1> HIDE DEF S
<1>4. \A i \in 1 .. n - 1 : iteratorStack[i] \in S
  BY <1>1
<1>5. n - 1 \in Int /\ 1 \in Int
  BY <1>1
<1>6. /\ SubSeq(iteratorStack, 1, n - 1) \in Seq(S)
      /\ Len(SubSeq(iteratorStack, 1, n - 1)) = IF 1 <= n - 1 THEN n - 1 - 1 + 1 ELSE 0
  BY <1>4, <1>5, SubSeqProperties
<1>7. PopIterator \in Seq(S) /\ Len(PopIterator) = n - 1
  <2>1. PopIterator = SubSeq(iteratorStack, 1, n - 1)
    BY DEF PopIterator
  <2>2. n \in Nat /\ n >= 1
    BY <1>1
  <2> HIDE DEF n
  <2> QED BY <1>6, <2>1, <2>2
<1>8. iteratorStack # <<>>
  BY <1>1
<1> QED BY <1>2, <1>3, <1>7, <1>8 DEF S

\* ComprehensionFinish.
LEMMA ComprehensionFinishOK == ASSUME Certified, Inv, ComprehensionFinish PROVE StepOK
<1>1. Running /\ program' = program /\ Step.op = "kComprehensionFinish"
  BY AtFacts DEF ComprehensionFinish, Inv
<1>2. Edge(pc, 0, D - 1, I - 1) \in HereEdges
  BY <1>1, EdgeTable DEF HereEdges
<1>3. /\ D \in Nat /\ I \in Nat /\ Len(valueStack) \in Nat /\ Len(iteratorStack) \in Nat
      /\ Len(arena) \in Nat
  BY <1>1, Heights, PositionFacts DEF Inv, TypeOK, DataOK, ArenaOK
<1>4. HasEnough(2) /\ 2 \in Nat /\ 1 <= Len(iteratorStack)
  BY <1>1, NeededTable, Heights
<1>5. /\ valueStack' = PopAndPush(2, Top)
      /\ slots' = ClearSlots(slots, {Step.slot})
      /\ iteratorStack' = PopIterator
      /\ JumpToOrAbort(0)
      /\ UNCHANGED <<heap, iterations, lookups>>
  BY <1>4 DEF ComprehensionFinish, Continue
<1>6. Top \in ValueIn(Len(arena))
  BY <1>4, StackOps DEF Inv
<1>7. valueStack' \in Seq(ValueIn(Len(arena))) /\ Len(valueStack') = Len(valueStack) - 2 + 1
  BY <1>4, <1>5, <1>6, StackOps DEF Inv
<1>8. /\ iteratorStack' \in Seq(IteratorEntry(Len(arena)))
      /\ Len(iteratorStack') = Len(iteratorStack) - 1
  BY <1>4, <1>5, IteratorFacts DEF Inv
<1>9. slots' \in [SlotIndex -> SlotIn(Len(arena))]
  BY <1>3, <1>5, ClearedTyped DEF Inv, TypeOK, DataOK
<1>10. /\ Len(valueStack') = Len(valueStack) - D + (D - 1)
       /\ Len(iteratorStack') = Len(iteratorStack) - I + (I - 1)
  BY <1>3, <1>7, <1>8
<1>11. StepShape
  BY <1>1, <1>2, <1>5, <1>10, JumpFollows
<1>12. DataOK' /\ Len(arena) <= Len(arena')
  BY <1>1, <1>5, <1>7, <1>8, <1>9, LoopData DEF Inv, TypeOK, DataOK
<1> QED BY <1>11, <1>12 DEF StepOK

\* Positions written with the iteration variables and the accumulator.
LEMMA IterationSlotsTyped ==
  ASSUME TypeOK, HasEnough(1), NEW entry \in IteratorEntry(Len(arena)),
         entry.pos < Len(arena[entry.obj]), NEW two \in BOOLEAN
  PROVE  IterationSlots(entry, two) \in [SlotIndex -> SlotIn(Len(arena))]
<1> DEFINE it == arena[entry.obj][entry.pos + 1]
<1>1. Len(arena) \in Nat /\ ArenaOK(arena) /\ slots \in [SlotIndex -> SlotIn(Len(arena))]
  BY DEF TypeOK, DataOK, ArenaOK
<1>2. /\ entry.obj \in 1 .. Len(arena) /\ entry.pos \in Nat
      /\ entry.iter \in SlotIndex /\ entry.iter2 \in SlotIndex /\ entry.accu \in SlotIndex
      /\ entry.map \in BOOLEAN
  BY DEF IteratorEntry
<1>3. arena[entry.obj] \in Seq(EntryIn(Len(arena)))
  BY <1>1, <1>2, ElementsTyped
<1>4. it \in EntryIn(Len(arena))
  <2>1. entry.pos + 1 \in 1 .. Len(arena[entry.obj])
    BY <1>2, <1>3
  <2> QED BY <1>3, <2>1, ElementOfSeq
<1>5. it.key \in ValueIn(Len(arena)) /\ it.val \in ValueIn(Len(arena))
  BY <1>4 DEF EntryIn
<1>6. Top \in ValueIn(Len(arena))
  BY StackOps
<1>7. <<"iter", entry.iter>> \in Writers /\ <<"accu", entry.iter>> \in Writers
  <2>1. P.slotCount \in Nat
    BY ProgramFacts DEF TypeOK, RequestOK
  <2>2. entry.iter \in Nat
    BY <1>2, <2>1 DEF SlotIndex
  <2> QED BY <2>2 DEF Writers
<1> HIDE DEF it
<1>8. /\ Filled(it.key, <<"iter", entry.iter>>) \in SlotIn(Len(arena))
      /\ Filled(it.val, <<"iter", entry.iter>>) \in SlotIn(Len(arena))
      /\ Filled(Top, <<"accu", entry.iter>>) \in SlotIn(Len(arena))
      /\ Filled(IF entry.map THEN it.key ELSE it.val, <<"iter", entry.iter>>)
           \in SlotIn(Len(arena))
  BY <1>1, <1>2, <1>5, <1>6, <1>7, FilledTyped
<1>9. /\ [slots EXCEPT ![entry.iter] = Filled(it.key, <<"iter", entry.iter>>),
                       ![entry.iter2] = Filled(it.val, <<"iter", entry.iter>>),
                       ![entry.accu] = Filled(Top, <<"accu", entry.iter>>)]
            \in [SlotIndex -> SlotIn(Len(arena))]
      /\ [slots EXCEPT ![entry.iter] = Filled(IF entry.map THEN it.key ELSE it.val,
                                              <<"iter", entry.iter>>),
                       ![entry.accu] = Filled(Top, <<"accu", entry.iter>>)]
            \in [SlotIndex -> SlotIn(Len(arena))]
  BY <1>1, <1>8
<1> QED BY <1>9 DEF IterationSlots, it

\* The slots a failing iterator leaves.
LEMMA MarkedSlotsTyped ==
  ASSUME TypeOK, HasEnough(1), NEW entry \in IteratorEntry(Len(arena)), NEW two \in BOOLEAN
  PROVE  MarkedSlots(entry, two) \in [SlotIndex -> SlotIn(Len(arena))]
<1> DEFINE kept == [slots EXCEPT ![entry.accu] = Filled(Top, <<"accu", entry.iter>>)]
<1>1. Len(arena) \in Nat /\ slots \in [SlotIndex -> SlotIn(Len(arena))]
  BY DEF TypeOK, DataOK, ArenaOK
<1>2. Top \in ValueIn(Len(arena))
  BY StackOps
<1>3. <<"iter", entry.iter>> \in Writers /\ <<"accu", entry.iter>> \in Writers
  <2>1. P.slotCount \in Nat /\ entry.iter \in SlotIndex
    BY ProgramFacts DEF TypeOK, RequestOK, IteratorEntry
  <2>2. entry.iter \in Nat
    BY <2>1 DEF SlotIndex
  <2> QED BY <2>2 DEF Writers
<1>4. Filled(Top, <<"accu", entry.iter>>) \in SlotIn(Len(arena))
  BY <1>1, <1>2, <1>3, FilledTyped
<1>5. kept \in [SlotIndex -> SlotIn(Len(arena))]
  BY <1>1, <1>4
<1> HIDE DEF kept
<1>6. ASSUME NEW i \in SlotIndex
      PROVE  /\ kept[i] \in SlotIn(Len(arena))
             /\ Filled(kept[i].value, <<"iter", entry.iter>>) \in SlotIn(Len(arena))
  <2>1. kept[i] \in SlotIn(Len(arena))
    BY <1>5
  <2>2. kept[i].value \in ValueIn(Len(arena))
    BY <2>1 DEF SlotIn
  <2> QED BY <1>1, <1>3, <2>1, <2>2, FilledTyped
<1> QED BY <1>6 DEF MarkedSlots, kept

\* The iterator on top moves to its next element.
LEMMA IteratorMoves ==
  ASSUME TypeOK, 1 <= Len(iteratorStack),
         iteratorStack' = [iteratorStack EXCEPT ![Len(iteratorStack)].pos = @ + 1]
  PROVE  /\ iteratorStack' \in Seq(IteratorEntry(Len(arena)))
         /\ Len(iteratorStack') = Len(iteratorStack)
<1> DEFINE S == IteratorEntry(Len(arena))
           moved == [Iterator EXCEPT !.pos = Iterator.pos + 1]
<1>1. iteratorStack \in Seq(S) /\ Len(iteratorStack) \in Nat
  BY DEF TypeOK, DataOK
<1>2. Iterator \in S /\ Iterator.pos \in Nat
  BY IteratorFacts
<1>3. moved \in S
  BY <1>2 DEF IteratorEntry
<1>4. iteratorStack' = [iteratorStack EXCEPT ![Len(iteratorStack)] = moved]
  BY DEF Iterator
<1> HIDE DEF S, moved
<1>5. Len(iteratorStack) \in 1 .. Len(iteratorStack)
  BY <1>1
<1> QED BY <1>1, <1>3, <1>4, <1>5, ExceptSeq DEF S

\* ComprehensionNext1 and Next2: the end of the range, the next element, the
\* end of the iteration budget, or an iterator that fails.
LEMMA ComprehensionNextOK ==
  ASSUME Certified, Inv, NEW op \in {"kComprehensionNext", "kComprehensionNext2"},
         NEW two \in BOOLEAN, ComprehensionNext(op, two)
  PROVE  StepOK
<1>1. /\ Running /\ program' = program
      /\ Step.op \in {"kComprehensionNext", "kComprehensionNext2"}
  BY AtFacts DEF ComprehensionNext, Inv
<1>2. Edge(pc, 0, D - 1, I) \in HereEdges /\ Edge(pc, Step.offset, D - 1, I) \in HereEdges
  BY <1>1, EdgeTable DEF HereEdges
<1>3. /\ D \in Nat /\ I \in Nat /\ Len(valueStack) \in Nat /\ Len(iteratorStack) \in Nat
      /\ Len(arena) \in Nat
  BY <1>1, Heights, PositionFacts DEF Inv, TypeOK, DataOK, ArenaOK
<1>4. HasEnough(2) /\ 1 <= Len(iteratorStack)
  BY <1>1, NeededTable, Heights
<1>5. HasEnough(1) /\ 1 \in Nat
  BY <1>3, <1>4 DEF HasEnough
<1>6. iteratorStack # <<>> /\ valueStack' = Pop(1) /\ UNCHANGED <<heap, lookups>>
  BY <1>4, IteratorFacts DEF ComprehensionNext, Inv
<1>7. /\ valueStack' \in Seq(ValueIn(Len(arena))) /\ Len(valueStack') = Len(valueStack) - 1
      /\ Top \in ValueIn(Len(arena))
  BY <1>5, <1>6, StackOps DEF Inv
<1>8. ASSUME NEW offset, Edge(pc, offset, D - 1, I) \in HereEdges, JumpToOrAbort(offset),
             Len(iteratorStack') = Len(iteratorStack)
      PROVE  StepShape
  <2>1. /\ Len(valueStack') = Len(valueStack) - D + (D - 1)
        /\ Len(iteratorStack') = Len(iteratorStack) - I + I
    BY <1>3, <1>7, <1>8
  <2> QED BY <1>1, <1>8, <2>1, JumpFollows
<1>9. CASE /\ slots' = ClearSlots([slots EXCEPT ![Iterator.accu] =
                                     Filled(Top, <<"accu", Iterator.iter>>)],
                                  IF two THEN {Iterator.iter, Iterator.iter2}
                                         ELSE {Iterator.iter})
           /\ JumpToOrAbort(Step.offset)
           /\ UNCHANGED <<iteratorStack, iterations>>
  <2> DEFINE kept == [slots EXCEPT ![Iterator.accu] = Filled(Top, <<"accu", Iterator.iter>>)]
  <2>1. <<"accu", Iterator.iter>> \in Writers
    <3>1. P.slotCount \in Nat /\ Iterator.iter \in SlotIndex
      BY <1>4, ProgramFacts, IteratorFacts DEF Inv, TypeOK, RequestOK
    <3>2. Iterator.iter \in Nat
      BY <3>1 DEF SlotIndex
    <3> QED BY <3>2 DEF Writers
  <2>2. kept \in [SlotIndex -> SlotIn(Len(arena))]
    <3>1. Filled(Top, <<"accu", Iterator.iter>>) \in SlotIn(Len(arena))
      BY <1>3, <1>7, <2>1, FilledTyped
    <3> QED BY <3>1 DEF Inv, TypeOK, DataOK
  <2> HIDE DEF kept
  <2>3. \A dead : ClearSlots(kept, dead) \in [SlotIndex -> SlotIn(Len(arena))]
    BY <1>3, <2>2, ClearedTyped
  <2>4. slots' \in [SlotIndex -> SlotIn(Len(arena))]
    BY <1>9, <2>3 DEF kept
  <2>5. DataOK' /\ Len(arena) <= Len(arena')
    BY <1>1, <1>6, <1>7, <1>9, <2>4, LoopData DEF Inv, TypeOK, DataOK
  <2>6. StepShape
    BY <1>2, <1>8, <1>9
  <2> QED BY <2>5, <2>6 DEF StepOK
<1>10. ASSUME NEW status \in Failures, Abort(status), Len(iteratorStack') = Len(iteratorStack)
       PROVE  StepShape
  <2>1. /\ Len(valueStack) <= P.valueStackSize /\ Len(iteratorStack) <= P.iteratorStackSize
        /\ P.valueStackSize \in Nat
    BY ProgramFacts DEF Inv, TypeOK, RequestOK, StackInv, StacksWithinCapacity
  <2>2. Len(valueStack') <= P.valueStackSize /\ Len(iteratorStack') <= P.iteratorStackSize
    BY <1>3, <1>7, <1>10, <2>1
  <2>3. abortStatus = "ok"
    BY <1>1, Heights
  <2>4. CutShort
    BY <1>10, <2>2, <2>3 DEF Abort, CutShort
  <2> QED BY <2>4 DEF StepShape
<1>11. CASE /\ Iterator.pos < Len(arena[Iterator.obj])
            /\ slots' = IterationSlots(Iterator, two)
            /\ iteratorStack' = Advanced(two)
            /\ iterations' = IF P.maxIterations = 0 THEN iterations ELSE iterations + 1
            /\ \/ BudgetExceeded /\ Abort("budget")
               \/ ~BudgetExceeded /\ Continue
  <2>1. slots' \in [SlotIndex -> SlotIn(Len(arena))]
    BY <1>4, <1>5, <1>11, IteratorFacts, IterationSlotsTyped DEF Inv
  <2>2. /\ iteratorStack' \in Seq(IteratorEntry(Len(arena)))
        /\ Len(iteratorStack') = Len(iteratorStack)
    BY <1>4, <1>11, IteratorMoves DEF Inv, Advanced
  <2>3. iterations' \in Nat
    <3>1. iterations \in Nat
      BY DEF Inv, TypeOK, DataOK
    <3> QED BY <1>11, <3>1
  <2>4. DataOK' /\ Len(arena) <= Len(arena')
    BY <1>1, <1>6, <1>7, <2>1, <2>2, <2>3, LoopData DEF Inv
  <2>5. CASE Continue
    <3>1. StepShape
      BY <1>2, <1>8, <2>2, <2>5 DEF Continue
    <3> QED BY <2>4, <3>1 DEF StepOK
  <2>6. CASE Abort("budget")
    <3>1. StepShape
      BY <1>10, <2>2, <2>6 DEF Failures
    <3> QED BY <2>4, <3>1 DEF StepOK
  <2> QED BY <1>11, <2>5, <2>6
<1>12. CASE /\ slots' = MarkedSlots(Iterator, two)
            /\ Abort("iterator")
            /\ UNCHANGED <<iteratorStack, iterations>>
  <2>1. slots' \in [SlotIndex -> SlotIn(Len(arena))]
    BY <1>4, <1>5, <1>12, IteratorFacts, MarkedSlotsTyped DEF Inv
  <2>2. DataOK' /\ Len(arena) <= Len(arena')
    BY <1>1, <1>6, <1>7, <1>12, <2>1, LoopData DEF Inv, TypeOK, DataOK
  <2>3. StepShape
    BY <1>10, <1>12 DEF Failures
  <2> QED BY <2>2, <2>3 DEF StepOK
<1> QED BY <1>4, <1>6, <1>9, <1>11, <1>12 DEF ComprehensionNext

\* ComprehensionCond1 and Cond2: go on, leave the loop, or fail.
LEMMA ComprehensionCondOK ==
  ASSUME Certified, Inv, NEW op \in {"kComprehensionCond", "kComprehensionCond2"},
         NEW two \in BOOLEAN, ComprehensionCond(op, two)
  PROVE  StepOK
<1>1. /\ Running /\ program' = program
      /\ Step.op \in {"kComprehensionCond", "kComprehensionCond2"}
  BY AtFacts DEF ComprehensionCond, Inv
<1>2. /\ Edge(pc, 0, D - 1, I) \in HereEdges /\ Edge(pc, Step.offset, D - 1, I) \in HereEdges
      /\ Edge(pc, Step.offset2, D - 1, I - 1) \in HereEdges
  BY <1>1, EdgeTable DEF HereEdges
<1>3. /\ D \in Nat /\ I \in Nat /\ Len(valueStack) \in Nat /\ Len(iteratorStack) \in Nat
      /\ Len(arena) \in Nat
  BY <1>1, Heights, PositionFacts DEF Inv, TypeOK, DataOK, ArenaOK
<1>4. HasEnough(2) /\ 2 \in Nat /\ 1 <= Len(iteratorStack)
  BY <1>1, NeededTable, Heights
<1>5. HasEnough(1) /\ 1 \in Nat
  BY <1>3, <1>4 DEF HasEnough
<1>6. iteratorStack # <<>> /\ UNCHANGED <<heap, iterations, lookups>>
  BY <1>4, IteratorFacts DEF ComprehensionCond, Inv
<1>7. Top \in ValueIn(Len(arena)) /\ ErrorValue(kNoMatchingOverload) \in ValueIn(Len(arena))
  BY <1>3, <1>5, StackOps, ConstructorsTyped DEF Inv, kNoMatchingOverload
<1>8. ASSUME NEW v \in ValueIn(Len(arena)), CondFails(two, v) PROVE StepOK
  <2>1. /\ valueStack' = PopAndPush(2, v) /\ iteratorStack' = PopIterator
        /\ JumpToOrAbort(Step.offset2)
    BY <1>8 DEF CondFails
  <2>2. valueStack' \in Seq(ValueIn(Len(arena))) /\ Len(valueStack') = Len(valueStack) - 2 + 1
    BY <1>4, <1>8, <2>1, StackOps DEF Inv
  <2>3. /\ iteratorStack' \in Seq(IteratorEntry(Len(arena)))
        /\ Len(iteratorStack') = Len(iteratorStack) - 1
    BY <1>4, <2>1, IteratorFacts DEF Inv
  <2>4. slots' \in [SlotIndex -> SlotIn(Len(arena))]
    <3>1. \A dead : ClearSlots(slots, dead) \in [SlotIndex -> SlotIn(Len(arena))]
      BY <1>3, ClearedTyped DEF Inv, TypeOK, DataOK
    <3> QED BY <1>8, <3>1 DEF CondFails
  <2>5. /\ Len(valueStack') = Len(valueStack) - D + (D - 1)
        /\ Len(iteratorStack') = Len(iteratorStack) - I + (I - 1)
    BY <1>3, <2>2, <2>3
  <2>6. StepShape
    BY <1>1, <1>2, <2>1, <2>5, JumpFollows
  <2>7. DataOK' /\ Len(arena) <= Len(arena')
    BY <1>1, <1>6, <2>2, <2>3, <2>4, LoopData DEF Inv, TypeOK, DataOK
  <2> QED BY <2>6, <2>7 DEF StepOK
<1>9. ASSUME valueStack' = Pop(1), UNCHANGED <<slots, iteratorStack>>,
             NEW offset, Edge(pc, offset, D - 1, I) \in HereEdges, JumpToOrAbort(offset)
      PROVE  StepOK
  <2>1. valueStack' \in Seq(ValueIn(Len(arena))) /\ Len(valueStack') = Len(valueStack) - 1
    BY <1>5, <1>9, StackOps DEF Inv
  <2>2. D - 1 \in Int /\ Len(valueStack') = Len(valueStack) - D + (D - 1)
    BY <1>3, <2>1
  <2> QED BY <1>1, <1>6, <1>9, <2>1, <2>2, DataStepOK
<1>10. CASE CondFails(two, Top) \/ CondFails(two, ErrorValue(kNoMatchingOverload))
  BY <1>7, <1>8, <1>10
<1>11. CASE /\ valueStack' = Pop(1)
            /\ \/ IsFalse(Top) /\ P.shortCircuiting /\ JumpToOrAbort(Step.offset)
               \/ ~(IsFalse(Top) /\ P.shortCircuiting) /\ Continue
            /\ UNCHANGED <<slots, iteratorStack>>
  BY <1>2, <1>9, <1>11 DEF Continue
<1> QED BY <1>4, <1>6, <1>10, <1>11 DEF ComprehensionCond

-----------------------------------------------------------------------------
(***************************************************************************)
(* Functions and lists: the arena grows.                                    *)
(***************************************************************************)
\* What is typed in an arena is typed in a longer one.
LEMMA DataGrows ==
  ASSUME NEW m \in Nat, NEW n \in Nat, m <= n
  PROVE  /\ Seq(ValueIn(m)) \subseteq Seq(ValueIn(n))
         /\ Seq(IteratorEntry(m)) \subseteq Seq(IteratorEntry(n))
         /\ [SlotIndex -> SlotIn(m)] \subseteq [SlotIndex -> SlotIn(n)]
<1>1. ValueIn(m) \subseteq ValueIn(n)
  BY ValueInGrows
<1>2. IteratorEntry(m) \subseteq IteratorEntry(n)
  BY DEF IteratorEntry
<1>3. SlotIn(m) \subseteq SlotIn(n)
  BY <1>1 DEF SlotIn
<1> QED BY <1>1, <1>2, <1>3, SeqMonotonic

\* The typed data after a step that allocates and changes the value stack.
LEMMA GrownData ==
  ASSUME TypeOK, program' = program, ArenaOK(arena'), Len(arena) <= Len(arena'),
         mutableLists' \in SUBSET (1 .. Len(arena')),
         valueStack' \in Seq(ValueIn(Len(arena'))),
         UNCHANGED <<iteratorStack, slots, iterations, lookups>>
  PROVE  DataOK'
<1>1. P' = P /\ SlotIndex' = SlotIndex
  BY SameProgram
<1>2. Len(arena) \in Nat /\ Len(arena') \in Nat
  BY DEF TypeOK, DataOK, ArenaOK
<1>3. IteratorEntry(Len(arena))' = IteratorEntry(Len(arena'))
  BY <1>1 DEF IteratorEntry
<1>4. /\ iteratorStack \in Seq(IteratorEntry(Len(arena')))
      /\ slots \in [SlotIndex -> SlotIn(Len(arena'))]
  BY <1>2, DataGrows DEF TypeOK, DataOK
<1> QED BY <1>1, <1>3, <1>4 DEF TypeOK, DataOK

\* A step that goes on with a value in place of n arguments, in a grown arena.
LEMMA AllocatingStepOK ==
  ASSUME Certified, Inv, Running, program' = program, NEW n \in Nat, HasEnough(n),
         Edge(pc, 0, D - n + 1, I) \in HereEdges, Continue,
         ArenaOK(arena'), Len(arena) <= Len(arena'),
         mutableLists' \in SUBSET (1 .. Len(arena')),
         NEW v \in ValueIn(Len(arena')), valueStack' = PopAndPush(n, v),
         UNCHANGED <<iteratorStack, slots, iterations, lookups>>
  PROVE  StepOK
<1>1. Len(arena) \in Nat /\ Len(arena') \in Nat
  BY DEF Inv, TypeOK, DataOK, ArenaOK
<1>2. /\ Pop(n) \in Seq(ValueIn(Len(arena'))) /\ Len(Pop(n)) = Len(valueStack) - n
  BY <1>1, StackOps, DataGrows DEF Inv
<1>3. /\ valueStack' \in Seq(ValueIn(Len(arena')))
      /\ Len(valueStack') = Len(valueStack) - n + 1
  BY <1>2, AppendProperties DEF PopAndPush
<1>4. Len(valueStack) \in Nat /\ Len(iteratorStack) \in Nat /\ D \in Nat /\ I \in Nat
  BY Heights, PositionFacts DEF Inv
<1>5. /\ Len(valueStack') = Len(valueStack) - D + (D - n + 1)
      /\ Len(iteratorStack') = Len(iteratorStack) - I + I
  BY <1>3, <1>4
<1>6. StepShape
  BY <1>5, JumpFollows DEF Continue
<1> QED BY <1>3, <1>6, GrownData DEF StepOK, Inv

\* A function call whose candidates match the arguments.
LEMMA CallFunctionOK ==
  ASSUME Certified, Inv, Running, program' = program,
         Step.op \in {"kEagerFunction", "kLazyFunction"}, HasEnough(Step.argc),
         NEW resolved,
         \A o \in resolved : o \in Overload /\ ArgumentKindsMatch(o, Args(Step.argc)),
         CallFunction(resolved)
  PROVE  StepOK
<1>1. Step.argc \in Nat
  BY StepFacts DEF Inv
<1>2. Edge(pc, 0, D - Step.argc + 1, I) \in HereEdges
  <2>1. ValuesNeeded(Step) = Step.argc
    BY NeededTable
  <2> QED BY <2>1, EdgeTable DEF HereEdges
<1>3. Args(Step.argc) \in Seq(ValueIn(Len(arena))) /\ Len(arena) \in Nat /\ ArenaOK(arena)
  BY <1>1, StackOps DEF Inv, TypeOK, DataOK, ArenaOK
<1>4. CASE Replace(Step.argc, NoOverloadResult(Args(Step.argc), UnknownsEnabled))
  <2>1. NoOverloadResult(Args(Step.argc), UnknownsEnabled) \in ValueIn(Len(arena))
    BY <1>3, NoOverloadResultTyped
  <2> QED BY <1>1, <1>2, <1>4, <2>1, ReplaceOK
<1>5. ASSUME NEW o \in resolved, InvokeOverload(o) PROVE StepOK
  <2> DEFINE result == Invoke(o.impl, Args(Step.argc), arena, FunctionUnknowns)
  <2>1. CASE AbortStep("function")
    BY <2>1, AbortStepOK DEF Failures
  <2>2. CASE /\ valueStack' = PopAndPush(Step.argc, result.value)
             /\ arena' = arena \o result.alloc
             /\ Continue
             /\ UNCHANGED <<iteratorStack, slots, mutableLists, iterations, lookups>>
    <3>1. /\ ArenaOK(arena \o result.alloc)
          /\ Len(arena) <= Len(arena \o result.alloc)
          /\ result.value \in ValueIn(Len(arena \o result.alloc))
      BY <1>3, InvokeTyped
    <3> HIDE DEF result
    <3>2. /\ ArenaOK(arena') /\ Len(arena) <= Len(arena')
          /\ result.value \in ValueIn(Len(arena'))
      BY <2>2, <3>1
    <3>3. mutableLists' \in SUBSET (1 .. Len(arena'))
      <4>1. Len(arena') \in Nat
        BY <3>2 DEF ArenaOK
      <4>2. mutableLists \in SUBSET (1 .. Len(arena))
        BY DEF Inv, TypeOK, DataOK
      <4> QED BY <1>3, <2>2, <3>2, <4>1, <4>2
    <3> QED BY <1>1, <1>2, <2>2, <3>2, <3>3, AllocatingStepOK
  <2> QED BY <1>5, <2>1, <2>2 DEF InvokeOverload
<1> QED BY <1>4, <1>5 DEF CallFunction

\* Function calls resolved statically or from the activation.
LEMMA FunctionOK == ASSUME Certified, Inv, EagerFunction \/ LazyFunction PROVE StepOK
<1>1. Running /\ program' = program /\ Step.op \in {"kEagerFunction", "kLazyFunction"}
  BY AtFacts DEF EagerFunction, LazyFunction, Inv
<1>2. HasEnough(Step.argc)
  <2>1. ValuesNeeded(Step) = Step.argc
    BY <1>1, NeededTable
  <2> QED BY <1>1, <2>1, Heights
<1>3. ASSUME NEW i \in Matches(Step.overloads, Args(Step.argc))
      PROVE  /\ Step.overloads[i] \in Overload
             /\ ArgumentKindsMatch(Step.overloads[i], Args(Step.argc))
  <2>1. Step.overloads \in Seq(Overload)
    BY <1>1, StepFacts DEF Inv, StepRecord
  <2>2. i \in DOMAIN Step.overloads
    BY <1>3 DEF Matches
  <2> QED BY <1>3, <2>1, <2>2 DEF Matches
<1>4. CASE EagerFunction
  <2>1. \A o \in ResolveStatic(Step.overloads, Args(Step.argc)) :
          o \in Overload /\ ArgumentKindsMatch(o, Args(Step.argc))
    BY <1>3 DEF ResolveStatic
  <2> QED BY <1>1, <1>2, <1>4, <2>1, CallFunctionOK DEF EagerFunction
<1>5. CASE LazyFunction
  <2> DEFINE found == LazyMatches(Step.overloads, Args(Step.argc), activation.functions)
  <2>1. CASE AbortStep("overloads")
    BY <1>1, <2>1, AbortStepOK DEF Failures
  <2>2. CASE CallFunction({Step.overloads[i] : i \in found})
    <3>1. \A o \in {Step.overloads[i] : i \in found} :
            o \in Overload /\ ArgumentKindsMatch(o, Args(Step.argc))
      BY <1>3 DEF LazyMatches
    <3> QED BY <1>1, <1>2, <2>2, <3>1, CallFunctionOK
  <2> QED BY <1>2, <1>5, <2>1, <2>2 DEF LazyFunction
<1> QED BY <1>4, <1>5

\* A new container in place of n arguments.
LEMMA ContainerOK ==
  ASSUME Certified, Inv, Running, program' = program, NEW n \in Nat, HasEnough(n),
         Edge(pc, 0, D - n + 1, I) \in HereEdges,
         NEW entries \in Seq(EntryIn(Len(arena) + 1)), ReplaceByContainer(n, entries),
         mutableLists' \in SUBSET (1 .. Len(arena) + 1)
  PROVE  StepOK
<1>1. Len(arena) \in Nat /\ ArenaOK(arena)
  BY DEF Inv, TypeOK, DataOK, ArenaOK
<1>2. arena' = Append(arena, entries) /\ valueStack' = PopAndPush(n, ListValue(Len(arena) + 1))
  BY DEF ReplaceByContainer
<1>3. ArenaOK(arena') /\ Len(arena') = Len(arena) + 1
  BY <1>1, <1>2, ArenaAppend
<1>4. ListValue(Len(arena) + 1) \in ValueIn(Len(arena'))
  BY <1>1, <1>3, ConstructorsTyped
<1>5. Len(arena) <= Len(arena') /\ mutableLists' \in SUBSET (1 .. Len(arena'))
  BY <1>1, <1>3
<1> QED BY <1>2, <1>3, <1>4, <1>5, AllocatingStepOK DEF ReplaceByContainer

\* NewMutableList.
LEMMA NewMutableListOK == ASSUME Certified, Inv, NewMutableList PROVE StepOK
<1>1. Running /\ program' = program /\ Step.op = "kNewMutableList"
  BY AtFacts DEF NewMutableList, Inv
<1>2. Edge(pc, 0, D - 0 + 1, I) \in HereEdges
  <2>1. Edge(pc, 0, D + 1, I) \in HereEdges
    BY <1>1, EdgeTable DEF HereEdges
  <2>2. D - 0 + 1 = D + 1
    BY <1>1, PositionFacts DEF Inv
  <2> QED BY <2>1, <2>2
<1>3. 0 \in Nat /\ HasEnough(0)
  BY <1>1, Heights DEF HasEnough
<1>4. <<>> \in Seq(EntryIn(Len(arena) + 1))
  OBVIOUS
<1>5. mutableLists' \in SUBSET (1 .. Len(arena) + 1)
  <2>1. mutableLists \in SUBSET (1 .. Len(arena)) /\ Len(arena) \in Nat
    BY DEF Inv, TypeOK, DataOK, ArenaOK
  <2>2. mutableLists' = mutableLists \cup {Len(arena) + 1}
    BY DEF NewMutableList
  <2>3. ASSUME NEW x \in mutableLists' PROVE x \in 1 .. Len(arena) + 1
    BY <2>1, <2>2
  <2> QED BY <2>3
<1> QED BY <1>1, <1>2, <1>3, <1>4, <1>5, ContainerOK DEF NewMutableList

\* CreateListStep.
LEMMA CreateListOK == ASSUME Certified, Inv, CreateList PROVE StepOK
<1>1. Running /\ program' = program /\ Step.op = "kCreateList"
  BY AtFacts DEF CreateList, Inv
<1>2. Step.argc \in Nat
  BY <1>1, StepFacts DEF Inv
<1>3. ValuesNeeded(Step) = Step.argc
  BY <1>1, NeededTable
<1>4. Edge(pc, 0, D - Step.argc + 1, I) \in HereEdges /\ HasEnough(Step.argc)
  BY <1>1, <1>3, EdgeTable, Heights DEF HereEdges
<1> DEFINE args == Args(Step.argc)
<1>5. args \in Seq(ValueIn(Len(arena))) /\ Len(arena) \in Nat
  BY <1>2, <1>4, StackOps DEF Inv, TypeOK, DataOK, ArenaOK
<1>6. CASE Replace(Step.argc, Propagated(args))
  <2>1. Propagated(args) \in ValueIn(Len(arena))
    BY <1>5, PropagatedTyped
  <2> QED BY <1>1, <1>2, <1>4, <1>6, <2>1, ReplaceOK
<1>7. CASE AbortStep("append")
  BY <1>1, <1>7, AbortStepOK DEF Failures
<1>8. CASE ReplaceByContainer(Step.argc, ListEntries(args)) /\ UNCHANGED mutableLists
  <2>1. ListEntries(args) \in Seq(EntryIn(Len(arena)))
    BY <1>5, ListEntriesTyped
  <2>2. ListEntries(args) \in Seq(EntryIn(Len(arena) + 1))
    BY <1>5, <2>1, EntriesGrow
  <2>3. mutableLists' \in SUBSET (1 .. Len(arena) + 1)
    BY <1>5, <1>8 DEF Inv, TypeOK, DataOK
  <2> QED BY <1>1, <1>2, <1>4, <1>8, <2>2, <2>3, ContainerOK
<1> QED BY <1>4, <1>6, <1>7, <1>8 DEF CreateList

\* A container of the arena is extended in place.
LEMMA ArenaExtended ==
  ASSUME NEW a, ArenaOK(a), NEW k \in 1 .. Len(a), NEW v \in ValueIn(Len(a)),
         NEW b, b = [a EXCEPT ![k] = Append(@, [key |-> IntValue(Len(@)), val |-> v])]
  PROVE  ArenaOK(b) /\ Len(b) = Len(a)
<1> DEFINE longer == Append(a[k], [key |-> IntValue(Len(a[k])), val |-> v])
<1>1. a \in Seq(Seq(EntryIn(Len(a)))) /\ Len(a) \in Nat
  BY DEF ArenaOK
<1>2. a[k] \in Seq(EntryIn(Len(a)))
  BY <1>1, ElementOfSeq
<1>3. [key |-> IntValue(Len(a[k])), val |-> v] \in EntryIn(Len(a))
  BY <1>1, <1>2, ConstructorsTyped DEF EntryIn
<1>4. longer \in Seq(EntryIn(Len(a)))
  BY <1>2, <1>3, AppendProperties
<1>5. b = [a EXCEPT ![k] = longer]
  OBVIOUS
<1> HIDE DEF longer
<1>6. b \in Seq(Seq(EntryIn(Len(a)))) /\ Len(b) = Len(a)
  BY <1>1, <1>4, <1>5, ExceptSeq
<1> QED BY <1>6 DEF ArenaOK

\* MutableListAppend.
LEMMA MutableListAppendOK == ASSUME Certified, Inv, MutableListAppend PROVE StepOK
<1>1. Running /\ program' = program /\ Step.op = "kMutableListAppend"
  BY AtFacts DEF MutableListAppend, Inv
<1>2. ValuesNeeded(Step) = 2
  BY <1>1, NeededTable
<1>3. Edge(pc, 0, D - 2 + 1, I) \in HereEdges /\ HasEnough(2) /\ 2 \in Nat
  BY <1>1, <1>2, EdgeTable, Heights DEF HereEdges
<1> DEFINE args == Args(2)
<1>4. args \in Seq(ValueIn(Len(arena))) /\ Len(args) = 2 /\ Len(arena) \in Nat
  <2>1. Len(arena) \in Nat
    BY DEF Inv, TypeOK, DataOK, ArenaOK
  <2> QED BY <1>3, <2>1, StackOps DEF Inv
<1>5. CASE Replace(2, Propagated(args))
  <2>1. Propagated(args) \in ValueIn(Len(arena))
    BY <1>4, PropagatedTyped
  <2> QED BY <1>1, <1>3, <1>5, <2>1, ReplaceOK
<1>6. CASE AbortStep("append")
  BY <1>1, <1>6, AbortStepOK DEF Failures
<1>7. CASE /\ IsMutableList(args[1])
           /\ arena' = [arena EXCEPT ![args[1].n] =
                          Append(@, [key |-> IntValue(Len(@)), val |-> args[2]])]
           /\ valueStack' = Pop(1)
           /\ Continue
           /\ UNCHANGED <<iteratorStack, slots, mutableLists, iterations, lookups>>
  <2> HIDE DEF args
  <2>1. args[2] \in ValueIn(Len(arena))
    BY <1>4, ElementOfSeq
  <2>2. args[1].n \in 1 .. Len(arena)
    BY <1>7 DEF IsMutableList, Inv, TypeOK, DataOK
  <2>3. ArenaOK(arena') /\ Len(arena') = Len(arena)
    <3>1. ArenaOK(arena)
      BY DEF Inv, TypeOK, DataOK
    <3>2. PICK k, v : k = args[1].n /\ v = args[2]
      OBVIOUS
    <3>3. arena' = [arena EXCEPT ![k] = Append(@, [key |-> IntValue(Len(@)), val |-> v])]
      BY <1>7, <3>2
    <3>4. k \in 1 .. Len(arena) /\ v \in ValueIn(Len(arena))
      BY <2>1, <2>2, <3>2
    <3> QED BY <3>1, <3>3, <3>4, ArenaExtended, Zenon
  <2>4. /\ D \in Nat /\ I \in Nat /\ Len(valueStack) \in Nat /\ Len(iteratorStack) \in Nat
    BY <1>1, Heights, PositionFacts DEF Inv
  <2>5. HasEnough(1) /\ 1 \in Nat
    BY <1>3, <2>4 DEF HasEnough
  <2>6. valueStack' \in Seq(ValueIn(Len(arena'))) /\ Len(valueStack') = Len(valueStack) - 1
    BY <1>7, <2>3, <2>5, StackOps DEF Inv
  <2>7. /\ Len(valueStack') = Len(valueStack) - D + (D - 2 + 1)
        /\ Len(iteratorStack') = Len(iteratorStack) - I + I
    BY <1>7, <2>4, <2>6
  <2>8. StepShape
    BY <1>1, <1>3, <1>7, <2>7, JumpFollows DEF Continue
  <2>9. mutableLists' \in SUBSET (1 .. Len(arena')) /\ Len(arena) <= Len(arena')
    BY <1>4, <1>7, <2>3 DEF Inv, TypeOK, DataOK
  <2>10. DataOK'
    BY <1>1, <1>7, <2>3, <2>6, <2>9, GrownData DEF Inv
  <2> QED BY <2>8, <2>9, <2>10 DEF StepOK
<1> QED BY <1>3, <1>5, <1>6, <1>7 DEF MutableListAppend

-----------------------------------------------------------------------------
(***************************************************************************)
(* The invariant.                                                           *)
(***************************************************************************)
\* A step of EvaluateStep, whatever its kind, has one of the three forms, and so
\* preserves the invariant.
LEMMA EvaluateStepShape == ASSUME Certified, Inv, EvaluateStep PROVE StepOK
<1>1. CASE Constant \/ Identifier \/ ReadSlot \/ LazyInit
  BY <1>1, ConstantOK, IdentifierOK, ReadSlotOK, LazyInitOK
<1>2. CASE AssignSlotAndPop \/ ClearSlotsStep
  BY <1>2, AssignSlotAndPopOK, ClearSlotsOK
<1>3. CASE BoolJump("kBooleanOrJump", TRUE) \/ BoolJump("kBooleanAndJump", FALSE)
  BY <1>3, BoolJumpOK
<1>4. CASE TernaryJump \/ FixedJump
  BY <1>4, TernaryJumpOK, FixedJumpOK
<1>5. CASE BooleanNot \/ NotStrictlyFalse
  BY <1>5, UnaryOK
<1>6. CASE BooleanOr \/ BooleanAnd \/ Ternary \/ FastEqual \/ FastNotEqual \/ FastIn
  BY <1>6, OperatorOK
<1>7. CASE ComprehensionInit \/ ComprehensionFinish
  BY <1>7, ComprehensionInitOK, ComprehensionFinishOK
<1>8. CASE ComprehensionNext1 \/ ComprehensionNext2
  BY <1>8, ComprehensionNextOK DEF ComprehensionNext1, ComprehensionNext2
<1>9. CASE ComprehensionCond1 \/ ComprehensionCond2
  BY <1>9, ComprehensionCondOK DEF ComprehensionCond1, ComprehensionCond2
<1>10. CASE EagerFunction \/ LazyFunction
  BY <1>10, FunctionOK
<1>11. CASE NewMutableList \/ CreateList \/ MutableListAppend
  BY <1>11, NewMutableListOK, CreateListOK, MutableListAppendOK
<1> QED BY <1>1, <1>2, <1>3, <1>4, <1>5, <1>6, <1>7, <1>8, <1>9, <1>10, <1>11
        DEF EvaluateStep

LEMMA EvaluateStepOK == ASSUME Certified, Inv, EvaluateStep PROVE Inv'
<1>1. \E op : At(op)
  BY DEF EvaluateStep, Constant, Identifier, ReadSlot, LazyInit, AssignSlotAndPop,
         ClearSlotsStep, BoolJump, TernaryJump, FixedJump, BooleanNot, NotStrictlyFalse,
         BooleanOr, BooleanAnd, Ternary, Strict, ComprehensionInit, ComprehensionNext1,
         ComprehensionNext2, ComprehensionNext, ComprehensionCond1, ComprehensionCond2,
         ComprehensionCond, ComprehensionFinish, EagerFunction, LazyFunction, FastEqual,
         FastNotEqual, FastIn, NewMutableList, CreateList, MutableListAppend
<1>2. Running /\ UNCHANGED request /\ phase' \in {"run", "callback"} /\ reported' \in BOOLEAN
  BY <1>1, AtFacts DEF Inv
<1> QED BY <1>2, EvaluateStepShape, StepOKPreserves

\* NextSlow: the caller finds the value of the subexpression on its stack,
\* at the height it expects.
LEMMA ReturnOK == ASSUME Certified, Inv, Return PROVE Inv'
<1>0. PICK n \in Nat, f \in {callStack[Len(callStack)]} : n = Len(callStack) /\ f = callStack[n]
  BY DEF Inv, TypeOK, ControlOK
<1>1. program' = program /\ P' = P /\ C' = C /\ SlotIndex' = SlotIndex /\ Frame' = Frame
  BY SameProgram DEF Return, request
<1>2. /\ phase = "run" /\ pc = Len(Code) /\ callStack # <<>>
      /\ pc' = f.pc /\ path' = f.path
      /\ slots' = [slots EXCEPT ![f.slot] = Filled(Top, <<"lazy", path>>)]
      /\ callStack' = SubSeq(callStack, 1, n - 1)
      /\ UNCHANGED <<request, phase, reported, abortStatus, iterations, valueStack,
                     iteratorStack, heap, lookups>>
  BY <1>0 DEF Return
<1>3. callStack \in Seq(Frame) /\ n >= 1 /\ n \in 1 .. n /\ f \in Frame
  <2>1. callStack \in Seq(Frame)
    BY DEF Inv, TypeOK, ControlOK
  <2>2. n >= 1
    BY <1>0, <1>2, <2>1
  <2> QED BY <1>0, <2>1, <2>2, ElementOfSeq
<1>4. /\ f.pc \in Nat /\ f.path \in DOMAIN P.paths /\ f.slot \in SlotIndex
      /\ f.expected \in Nat /\ f.iters \in Nat
  BY <1>3 DEF Frame
<1>5. abortStatus = "ok" /\ AtCertifiedHeights
  BY <1>2 DEF Inv, StackInv, AbortedAtEnd
<1>6. \A j \in 0 .. n : Base(j) \in Nat /\ IBase(j) \in Nat
  BY <1>0, <1>5, BaseFacts DEF Inv
<1>7. CallerOK(n) /\ \A j \in 1 .. n - 1 : CallerOK(j)
  BY <1>0, <1>3, <1>5 DEF AtCertifiedHeights
<1>8. /\ f.pc \in 0 .. Len(P.paths[f.path])
      /\ f.expected = Base(n - 1) + C.depth[f.path][f.pc]
      /\ f.iters = IBase(n - 1) + C.iters[f.path][f.pc]
      /\ f.expected > 0
      /\ Room(n - 1, f.path)
  BY <1>0, <1>7 DEF CallerOK
<1>9. Len(valueStack) = f.expected /\ Len(iteratorStack) = f.iters
  <2>1. /\ Len(valueStack) = Base(n) + C.depth[path][pc]
        /\ Len(iteratorStack) = IBase(n) + C.iters[path][pc]
    BY <1>0, <1>5 DEF AtCertifiedHeights
  <2>2. path \in DOMAIN P.paths /\ pc = Len(P.paths[path])
    BY <1>2 DEF Inv, TypeOK, ControlOK, Code
  <2>3. C.depth[path][pc] = 1 /\ C.iters[path][pc] = 0
    BY <2>2, CertificateFacts DEF Inv
  <2>4. Base(n) = f.expected - 1 /\ IBase(n) = f.iters
    BY <1>0, <1>3 DEF Base, IBase
  <2> QED BY <1>4, <2>1, <2>3, <2>4
<1>10. /\ callStack' \in Seq(Frame) /\ Len(callStack') = n - 1
       /\ \A j \in 1 .. n - 1 : callStack'[j] = callStack[j]
  <2>1. n - 1 \in Int /\ 1 \in Int
    BY <1>3
  <2>2. \A i \in 1 .. n - 1 : callStack[i] \in Frame
    BY <1>0, <1>3, ElementOfSeq
  <2>3. /\ SubSeq(callStack, 1, n - 1) \in Seq(Frame)
        /\ Len(SubSeq(callStack, 1, n - 1)) = IF 1 <= n - 1 THEN n - 1 - 1 + 1 ELSE 0
        /\ \A i \in 1 .. n - 1 - 1 + 1 : SubSeq(callStack, 1, n - 1)[i] = callStack[1 + i - 1]
    BY <2>1, <2>2, SubSeqProperties
  <2>4. IF 1 <= n - 1 THEN n - 1 - 1 + 1 = n - 1 ELSE 0 = n - 1
    BY <1>3
  <2>5. ASSUME NEW j \in 1 .. n - 1 PROVE SubSeq(callStack, 1, n - 1)[j] = callStack[j]
    <3>1. j \in 1 .. n - 1 - 1 + 1 /\ 1 + j - 1 = j
      BY <1>3
    <3> QED BY <2>3, <3>1
  <2> QED BY <1>2, <2>3, <2>4, <2>5
<1>11. ControlOK'
  BY <1>1, <1>2, <1>4, <1>8, <1>10 DEF Inv, TypeOK, ControlOK, Code
<1>12. DataOK' /\ Len(arena) <= Len(arena')
  <2>1. Len(arena) \in Nat /\ HasEnough(1)
    BY <1>4, <1>8, <1>9 DEF HasEnough, Inv, TypeOK, DataOK, ArenaOK
  <2>2. Top \in ValueIn(Len(arena))
    BY <2>1, StackOps DEF Inv
  <2>3. <<"lazy", path>> \in Writers
    <3>1. path \in Nat
      BY ProgramFacts DEF Inv, TypeOK, RequestOK, ControlOK
    <3> QED BY <3>1 DEF Writers
  <2>4. Filled(Top, <<"lazy", path>>) \in SlotIn(Len(arena))
    BY <2>1, <2>2, <2>3, FilledTyped
  <2>5. slots' \in [SlotIndex -> SlotIn(Len(arena))]
    BY <1>2, <1>4, <2>4 DEF Inv, TypeOK, DataOK
  <2> QED BY <1>1, <1>2, <2>5, SlotData DEF Inv, TypeOK, DataOK
<1>13. RequestOK'
  <2>1. reported' \in BOOLEAN
    BY <1>2 DEF Inv, TypeOK, RequestOK
  <2> QED BY <1>2, <1>12, <2>1, RequestPreserved DEF Inv
<1>14. \A j \in 0 .. n - 1 : Base(j)' = Base(j) /\ IBase(j)' = IBase(j)
  BY <1>10 DEF Base, IBase
<1>15. n - 1 \in 0 .. n - 1 /\ n - 1 \in 0 .. n
  BY <1>3
<1>16. AtCertifiedHeights'
  <2>1. /\ (Len(valueStack) = Base(n - 1) + C.depth[path][pc])'
        /\ (Len(iteratorStack) = IBase(n - 1) + C.iters[path][pc])'
    BY <1>1, <1>2, <1>8, <1>9, <1>14, <1>15
  <2>2. Room(n - 1, f.path)'
    BY <1>1, <1>8, <1>14, <1>15 DEF Room
  <2>3. ASSUME NEW j \in 1 .. n - 1 PROVE CallerOK(j)'
    <3>1. CallerOK(j)
      BY <1>7
    <3>2. j - 1 \in 0 .. n - 1
      BY <1>3
    <3>3. Base(j - 1)' = Base(j - 1) /\ IBase(j - 1)' = IBase(j - 1) /\ callStack'[j] = callStack[j]
      BY <1>10, <1>14, <3>2
    <3> QED BY <1>1, <3>1, <3>3 DEF CallerOK, Room
  <2> QED BY <1>2, <1>10, <2>1, <2>2, <2>3 DEF AtCertifiedHeights
<1>17. NoStackFault'
  <2>1. abortStatus' \notin {"underflow", "jump", "stack"} /\ outcome'.status # "stack"
    BY <1>2 DEF Inv, StackInv, NoStackFault, request
  <2>2. ASSUME pc' = Len(Code'), callStack' # <<>>
        PROVE  Len(valueStack') = callStack'[Len(callStack')].expected
    <3>1. n - 1 # 0 /\ n - 1 \in 1 .. n - 1
      BY <1>3, <1>10, <2>2
    <3>2. C.depth[f.path][f.pc] = 1
      <4>1. f.pc = Len(P.paths[f.path])
        BY <1>1, <1>2, <2>2 DEF Code
      <4> QED BY <1>4, <4>1, CertificateFacts DEF Inv
    <3>3. callStack[n - 1].expected \in Nat
      <4>1. callStack'[n - 1] \in Frame
        BY <1>10, <3>1, ElementOfSeq
      <4> QED BY <1>10, <3>1, <4>1 DEF Frame
    <3>4. Base(n - 1) = callStack[n - 1].expected - 1
      BY <3>1 DEF Base
    <3>5. Len(valueStack) = callStack[n - 1].expected
      BY <1>8, <1>9, <3>2, <3>3, <3>4
    <3> QED BY <1>2, <1>10, <3>1, <3>5
  <2> QED BY <2>1, <2>2 DEF NoStackFault
<1>18. StacksWithinCapacity' /\ AbortedAtEnd'
  BY <1>1, <1>2, <1>5 DEF Inv, StackInv, StacksWithinCapacity, AbortedAtEnd
<1>19. (phase # "idle" => initialStackSize = 0)' /\ (~dirty => phase = "idle" /\ Pristine)'
  BY <1>2 DEF Inv, StackInv, request
<1> QED BY <1>11, <1>12, <1>13, <1>16, <1>17, <1>18, <1>19 DEF Inv, TypeOK, StackInv

\* The tail of the loop of InterpretWithCallback.
LEMMA ListenerOK == ASSUME Certified, Inv, ListenerContinues \/ ListenerFails PROVE Inv'
<1>1. /\ phase = "callback" /\ phase' = "run"
      /\ UNCHANGED <<request, reported, iterations, valueStack, iteratorStack, slots,
                     heap, lookups>>
  BY DEF ListenerContinues, ListenerFails, ListenerUnchanged
<1>2. program' = program /\ P' = P /\ C' = C /\ SlotIndex' = SlotIndex /\ Frame' = Frame
  BY <1>1, SameProgram DEF request
<1>3. DataOK' /\ Len(arena) <= Len(arena')
  <2>1. valueStack' \in Seq(ValueIn(Len(arena)))
    BY <1>1 DEF Inv, TypeOK, DataOK
  <2> QED BY <1>1, <1>2, <2>1, SameData DEF Inv
<1>4. RequestOK'
  <2>1. reported' \in BOOLEAN
    BY <1>1 DEF Inv, TypeOK, RequestOK
  <2> QED BY <1>1, <1>3, <2>1, RequestPreserved DEF Inv
<1>5. StacksWithinCapacity'
  BY <1>1, <1>2 DEF Inv, StackInv, StacksWithinCapacity
<1>6. (phase # "idle" => initialStackSize = 0)' /\ (~dirty => phase = "idle" /\ Pristine)'
  BY <1>1 DEF Inv, StackInv, request
<1>7. CASE ListenerContinues
  <2>1. UNCHANGED control
    BY <1>7 DEF ListenerContinues
  <2>2. pc' = pc /\ path' = path /\ callStack' = callStack /\ abortStatus' = abortStatus
    BY <2>1 DEF control
  <2>3. Code' = Code
    BY <1>2, <2>2 DEF Code
  <2>4. ControlOK'
    BY <1>2, <2>2, <2>3 DEF Inv, TypeOK, ControlOK
  <2>5. AbortedAtEnd'
    BY <1>1, <1>2, <2>2 DEF Inv, StackInv, AbortedAtEnd
  <2>6. abortStatus = "ok" => AtCertifiedHeights /\ AtCertifiedHeights'
    <3>1. abortStatus = "ok" => AtCertifiedHeights
      BY <1>1 DEF Inv, StackInv
    <3> QED BY <1>1, <1>2, <2>2, <3>1 DEF AtCertifiedHeights, CallerOK, Room, Base, IBase
  <2>7. NoStackFault'
    <3>1. ASSUME pc = Len(Code), callStack # <<>>
          PROVE  Len(valueStack) = callStack[Len(callStack)].expected
      <4>1. AtCertifiedHeights
        BY <1>1, <2>6, <3>1 DEF Inv, StackInv, AbortedAtEnd
      <4>2. path \in DOMAIN P.paths /\ pc = Len(P.paths[path])
        BY <3>1 DEF Inv, TypeOK, ControlOK, Code
      <4>3. Len(valueStack) = Base(Len(callStack)) + 1
        BY <4>1, <4>2, CertificateFacts DEF Inv, AtCertifiedHeights
      <4>4. Len(callStack) # 0 /\ Len(callStack) \in 1 .. Len(callStack)
        BY <3>1 DEF Inv, TypeOK, ControlOK
      <4>5. callStack[Len(callStack)].expected \in Nat
        <5>1. callStack[Len(callStack)] \in Frame
          BY <4>4, ElementOfSeq DEF Inv, TypeOK, ControlOK
        <5> QED BY <5>1 DEF Frame
      <4>6. Base(Len(callStack)) = callStack[Len(callStack)].expected - 1
        BY <4>4 DEF Base
      <4> QED BY <4>3, <4>5, <4>6
    <3> QED BY <1>1, <2>2, <2>3, <3>1 DEF Inv, StackInv, NoStackFault, request
  <2> QED BY <1>3, <1>4, <1>5, <1>6, <2>2, <2>4, <2>5, <2>6, <2>7 DEF Inv, TypeOK, StackInv
<1>8. CASE ListenerFails
  <2>1. /\ abortStatus' = "listener" /\ callStack' = <<>> /\ path' = 1
        /\ pc' = Len(P.paths[1])
    BY <1>8 DEF ListenerFails, ListenerIsCalled, Abort
  <2>2. 1 \in DOMAIN P.paths /\ Len(P.paths[1]) \in Nat
    BY ProgramFacts DEF Inv, TypeOK, RequestOK
  <2>3. ControlOK' /\ AbortedAtEnd'
    BY <1>2, <2>1, <2>2 DEF ControlOK, Code, AbortStatuses, AbortedAtEnd
  <2>4. NoStackFault'
    BY <1>1, <2>1 DEF Inv, StackInv, NoStackFault, request
  <2> QED BY <1>3, <1>4, <1>5, <1>6, <2>1, <2>3, <2>4 DEF Inv, TypeOK, StackInv
<1> QED BY <1>7, <1>8

\* Evaluate finds exactly one value on the stack, or reports the failure.
LEMMA EndEvaluateOK == ASSUME Certified, Inv, EndEvaluate PROVE Inv'
<1>1. /\ phase = "run" /\ pc = Len(Code) /\ callStack = <<>> /\ phase' = "idle"
      /\ UNCHANGED <<program, activation, listening, dirty, initialStackSize, evaluations,
                     reported, control, iterations, iteratorStack, slots, heap, lookups>>
  BY DEF EndEvaluate
<1>2. P' = P /\ C' = C /\ SlotIndex' = SlotIndex /\ Frame' = Frame
  BY <1>1, SameProgram
<1>3. /\ pc' = pc /\ path' = path /\ callStack' = callStack /\ abortStatus' = abortStatus
      /\ arena' = arena
  BY <1>1 DEF control, heap
<1>4. ControlOK'
  BY <1>2, <1>3 DEF Inv, TypeOK, ControlOK, Code
<1>5. Len(arena) \in Nat /\ Len(valueStack) \in Nat /\ P.valueStackSize \in Nat
  BY ProgramFacts DEF Inv, TypeOK, RequestOK, DataOK, ArenaOK
<1>6. abortStatus = "ok" => Len(valueStack) = 1
  <2>1. ASSUME abortStatus = "ok" PROVE Len(valueStack) = 1
    <3>1. AtCertifiedHeights
      BY <1>1, <2>1 DEF Inv, StackInv
    <3>2. path \in DOMAIN P.paths /\ pc = Len(P.paths[path])
      BY <1>1 DEF Inv, TypeOK, ControlOK, Code
    <3>3. Len(callStack) = 0
      BY <1>1
    <3>4. Len(valueStack) = 0 + 1
      BY <3>1, <3>2, <3>3, CertificateFacts DEF Inv, AtCertifiedHeights, Base
    <3> QED BY <3>4
  <2> QED BY <2>1
<1>7. /\ outcome' \in [status : AbortStatuses \cup {"none", "running"},
                       value : ValueIn(Len(arena))]
      /\ outcome'.status # "stack"
      /\ valueStack' \in Seq(ValueIn(Len(arena)))
      /\ Len(valueStack') <= P.valueStackSize
  <2>1. /\ valueStack \in Seq(ValueIn(Len(arena))) /\ Len(valueStack) <= P.valueStackSize
        /\ abortStatus \in AbortStatuses /\ abortStatus # "stack"
        /\ initialStackSize = 0
    BY <1>1 DEF Inv, TypeOK, DataOK, ControlOK, StackInv, StacksWithinCapacity, NoStackFault
  <2>2. NullValue \in ValueIn(Len(arena))
    BY <1>5, ConstructorsTyped
  <2>3. CASE abortStatus # "ok"
    <3>1. outcome' = [status |-> abortStatus, value |-> NullValue] /\ valueStack' = valueStack
      BY <2>3 DEF EndEvaluate
    <3> QED BY <2>1, <2>2, <3>1
  <2>4. CASE abortStatus = "ok"
    <3>1. Len(valueStack) = initialStackSize + 1 /\ HasEnough(1)
      BY <1>6, <2>1, <2>4 DEF HasEnough
    <3>2. outcome' = [status |-> "ok", value |-> Top] /\ valueStack' = Pop(1)
      BY <2>4, <3>1 DEF EndEvaluate
    <3>3. /\ Top \in ValueIn(Len(arena)) /\ Pop(1) \in Seq(ValueIn(Len(arena)))
          /\ Len(Pop(1)) = Len(valueStack) - 1
      BY <3>1, StackOps DEF Inv
    <3> QED BY <1>5, <2>1, <3>2, <3>3 DEF AbortStatuses
  <2> QED BY <2>3, <2>4
<1>8. DataOK'
  BY <1>1, <1>7, SameData DEF Inv
<1>9. RequestOK'
  BY <1>1, <1>3, <1>7 DEF Inv, TypeOK, RequestOK
<1>10. StacksWithinCapacity'
  BY <1>1, <1>2, <1>7 DEF Inv, StackInv, StacksWithinCapacity
<1>11. NoStackFault'
  BY <1>1, <1>3, <1>7 DEF Inv, StackInv, NoStackFault
<1>12. AbortedAtEnd' /\ (~dirty => phase = "idle" /\ Pristine)'
  BY <1>1 DEF Inv, StackInv, AbortedAtEnd
<1> QED BY <1>1, <1>4, <1>8, <1>9, <1>10, <1>11, <1>12 DEF Inv, TypeOK, StackInv

\* A new evaluation starts on empty stacks and slots, whatever the last one
\* left behind.
LEMMA StartEvaluateOK ==
  ASSUME Certified, Inv, NEW a \in Activations, NEW withListener \in ListenerChoices,
         StartEvaluate(a, withListener)
  PROVE  Inv'
<1>1. /\ program' = program /\ dirty' = TRUE /\ activation' = a /\ arena' = a.arena
      /\ mutableLists' = {} /\ listening' = withListener /\ evaluations' = evaluations + 1
      /\ phase' = "run" /\ reported' = FALSE /\ pc' = 0 /\ path' = 1 /\ callStack' = <<>>
      /\ abortStatus' = "ok" /\ iterations' = 0 /\ initialStackSize' = Len(valueStack')
      /\ outcome' = [status |-> "running", value |-> NullValue]
      /\ lookups' = [x \in Identifiers |-> 0]
      /\ evaluations < MaxEvaluations
  BY DEF StartEvaluate
<1>2. P' = P /\ C' = C /\ SlotIndex' = SlotIndex /\ Frame' = Frame
  BY <1>1, SameProgram
<1>3. /\ valueStack' = <<>> /\ iteratorStack' = <<>>
      /\ slots' = [i \in SlotIndex |-> EmptySlot]
  <2>1. Reset /\ (~dirty => Pristine)
    BY DEF StartEvaluate, Inv, StackInv
  <2>2. CASE dirty
    BY <2>1, <2>2 DEF Reset
  <2>3. CASE ~dirty
    BY <2>1, <2>3 DEF Reset, Pristine
  <2> QED BY <2>2, <2>3
<1>4. ArenaOK(a.arena) /\ Len(a.arena) \in Nat
  BY ActivationsAssumption DEF ActivationOK, ArenaOK
<1>5. NullValue \in ValueIn(Len(arena')) /\ EmptySlot \in SlotIn(Len(arena'))
  <2>1. NullValue \in ValueIn(Len(arena'))
    BY <1>1, <1>4, ConstructorsTyped
  <2> QED BY <2>1 DEF EmptySlot, SlotIn, NoWriter, Writers
<1>6. 1 \in DOMAIN P.paths /\ Len(P.paths[1]) \in Nat
  BY ProgramFacts DEF Inv, TypeOK, RequestOK
<1>7. DataOK'
  <2>1. slots' \in [SlotIndex' -> SlotIn(Len(arena'))]
    BY <1>2, <1>3, <1>5
  <2>2. /\ ArenaOK(arena') /\ mutableLists' \in SUBSET (1 .. Len(arena'))
        /\ iterations' \in Nat /\ valueStack' \in Seq(ValueIn(Len(arena')))
        /\ lookups' \in [Identifiers -> Nat]
    BY <1>1, <1>3, <1>4
  <2>3. (iteratorStack \in Seq(IteratorEntry(Len(arena))))'
    BY <1>3
  <2> QED BY <2>1, <2>2, <2>3 DEF DataOK
<1>8. ControlOK'
  BY <1>1, <1>2, <1>6 DEF ControlOK, Code, AbortStatuses
<1>9. RequestOK'
  <2>1. evaluations' \in 0 .. MaxEvaluations /\ listening' \in BOOLEAN
    BY <1>1, MaxEvaluationsAssumption DEF Inv, TypeOK, RequestOK
  <2>2. outcome' \in [status : AbortStatuses \cup {"none", "running"},
                      value : ValueIn(Len(arena'))]
    BY <1>1, <1>5
  <2>3. Len(activation'.arena) <= Len(arena') /\ initialStackSize' \in Nat
    BY <1>1, <1>3, <1>4
  <2> QED BY <1>1, <2>1, <2>2, <2>3 DEF Inv, TypeOK, RequestOK
<1>10. /\ Len(valueStack') = 0 /\ Len(iteratorStack') = 0 /\ Len(callStack') = 0
       /\ P.valueStackSize \in Nat /\ P.iteratorStackSize \in Nat
  BY <1>1, <1>3, ProgramFacts DEF Inv, TypeOK, RequestOK
<1>11. /\ C.depth[1][0] = 0 /\ C.iters[1][0] = 0 /\ C.depth[1][Len(P.paths[1])] = 1
       /\ C.cap[1] \in Nat /\ C.icap[1] \in Nat
       /\ C.cap[1] <= P.valueStackSize /\ C.icap[1] <= P.iteratorStackSize
  BY <1>6, CertificateFacts DEF Inv
<1>12. AtCertifiedHeights'
  BY <1>1, <1>2, <1>10, <1>11 DEF AtCertifiedHeights, Base, IBase, Room
<1>13. StacksWithinCapacity' /\ NoStackFault' /\ AbortedAtEnd'
  BY <1>1, <1>2, <1>10 DEF StacksWithinCapacity, NoStackFault, AbortedAtEnd
<1> QED BY <1>1, <1>7, <1>8, <1>9, <1>10, <1>12, <1>13 DEF Inv, TypeOK, StackInv

\* A fresh evaluator state.
LEMMA InitOK == ASSUME Init PROVE Inv
<1>1. program \in DOMAIN ExpressionTable /\ activation \in Activations
  <2>1. \E a \in Activations : TRUE
    BY ActivationsAssumption
  <2> QED BY <2>1 DEF Init
<1>2. ArenaOK(arena) /\ Len(arena) \in Nat /\ arena = activation.arena
  BY <1>1, ActivationsAssumption DEF Init, ActivationOK, ArenaOK
<1>3. NullValue \in ValueIn(Len(arena))
  BY <1>2, ConstructorsTyped
<1>4. EmptySlot \in SlotIn(Len(arena))
  BY <1>3 DEF EmptySlot, SlotIn, NoWriter, Writers
<1>5. /\ 1 \in DOMAIN P.paths /\ Len(P.paths[1]) \in Nat
      /\ P.valueStackSize \in Nat /\ P.iteratorStackSize \in Nat
  BY <1>1, ProgramFacts
<1>6. DataOK
  <2>1. slots \in [SlotIndex -> SlotIn(Len(arena))]
    BY <1>4 DEF Init
  <2>2. /\ mutableLists = {} /\ iterations = 0 /\ valueStack = <<>> /\ iteratorStack = <<>>
        /\ lookups = [x \in Identifiers |-> 0]
    BY DEF Init
  <2> QED BY <1>2, <2>1, <2>2 DEF DataOK
<1>7. ControlOK
  BY <1>5 DEF Init, ControlOK, Code, AbortStatuses
<1>8. RequestOK
  <2>1. /\ listening = FALSE /\ reported = FALSE /\ dirty = FALSE /\ phase = "idle"
        /\ initialStackSize = 0 /\ evaluations = 0
        /\ outcome = [status |-> "none", value |-> NullValue]
    BY DEF Init
  <2>2. outcome \in [status : AbortStatuses \cup {"none", "running"},
                     value : ValueIn(Len(arena))]
    BY <1>3, <2>1
  <2>3. Len(activation.arena) <= Len(arena) /\ evaluations \in 0 .. MaxEvaluations
    BY <1>2, <2>1, MaxEvaluationsAssumption
  <2> QED BY <1>1, <2>1, <2>2, <2>3 DEF RequestOK
<1>9. StackInv
  BY <1>5 DEF Init, StackInv, StacksWithinCapacity, NoStackFault, AbortedAtEnd, Pristine
<1> QED BY <1>6, <1>7, <1>8, <1>9 DEF Inv, TypeOK

\* A step that changes nothing keeps the invariant.
LEMMA StutterOK == ASSUME Inv, UNCHANGED vars PROVE Inv'
<1>1. /\ UNCHANGED <<request, phase, reported, control, iterations, valueStack, iteratorStack,
                     slots, heap, lookups>>
      /\ program' = program
  BY DEF vars, request
<1>2. P' = P /\ C' = C /\ SlotIndex' = SlotIndex /\ Frame' = Frame
  BY <1>1, SameProgram
<1>3. Code' = Code /\ IteratorEntry(Len(arena))' = IteratorEntry(Len(arena))
  BY <1>1, <1>2 DEF Code, IteratorEntry, control, heap
<1>4. RequestOK' /\ ControlOK'
  BY <1>1, <1>2, <1>3 DEF Inv, TypeOK, RequestOK, ControlOK, request, control, heap
<1>5. DataOK'
  BY <1>1, <1>2, <1>3 DEF Inv, TypeOK, DataOK, heap
<1>6. AtCertifiedHeights' = AtCertifiedHeights
  BY <1>1, <1>2 DEF AtCertifiedHeights, CallerOK, Room, Base, IBase, control
<1>7. StackInv'
  BY <1>1, <1>2, <1>3, <1>6
     DEF Inv, StackInv, StacksWithinCapacity, NoStackFault, AbortedAtEnd, Pristine, request, control
<1> QED BY <1>4, <1>5, <1>7 DEF Inv, TypeOK

\* The invariant is inductive for a table of certified programs.
THEOREM Inductive == ASSUME Certified PROVE Spec => []Inv
<1>1. Init => Inv
  BY InitOK
<1>2. Inv /\ [Next]_vars => Inv'
  <2> SUFFICES ASSUME Inv, [Next]_vars PROVE Inv'
    OBVIOUS
  <2>1. ASSUME NEW a \in Activations, NEW withListener \in ListenerChoices,
               StartEvaluate(a, withListener)
        PROVE  Inv'
    BY <2>1, StartEvaluateOK
  <2>2. CASE EvaluateStep
    BY <2>2, EvaluateStepOK
  <2>3. CASE Return
    BY <2>3, ReturnOK
  <2>4. CASE ListenerContinues \/ ListenerFails
    BY <2>4, ListenerOK
  <2>5. CASE EndEvaluate
    BY <2>5, EndEvaluateOK
  <2>6. CASE Terminated \/ UNCHANGED vars
    BY <2>6, StutterOK DEF Terminated
  <2> QED BY <2>1, <2>2, <2>3, <2>4, <2>5, <2>6 DEF Next, Interpret
<1> QED BY <1>1, <1>2, PTL DEF Spec

\* Every variable keeps its type and no value on the stacks, in the slots or
\* in the arena refers to a container the evaluation did not allocate: the
\* steps of EvaluateStep and the reuse of the evaluator state in Evaluate.
THEOREM TypeCorrect == ASSUME Certified PROVE Spec => []TypeOK
<1>1. Inv => TypeOK
  BY DEF Inv
<1> QED BY <1>1, Inductive, PTL
=============================================================================
