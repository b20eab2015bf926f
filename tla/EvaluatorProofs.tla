--------------------------- MODULE EvaluatorProofs --------------------------
(***************************************************************************)
(* An aborted evaluation does nothing more, for every program, planned or   *)
(* not, every activation and every listener.  AbortIsFinal is about steps   *)
(* from an aborted state; the invariant it needs is that Abort leaves the   *)
(* frame where no step, return or listener call is enabled.                 *)
(*                                                                         *)
(* The facts about values, arenas and function dispatch are those the       *)
(* proofs about the machine's stacks rest on: what an operator returns      *)
(* refers to no container outside the arena.                                *)
(***************************************************************************)
EXTENDS EvaluatorCore, SequenceTheorems, WellFoundedInduction, TLAPS

AbortInv == program \in DOMAIN ExpressionTable /\ AbortedAtEnd

\* The frame goes on without failure, or is where Abort leaves it.
GoesOnOrAborts ==
  \/ UNCHANGED abortStatus
  \/ callStack' = <<>> /\ path' = 1 /\ pc' = Len(P.paths[1])

\* What every step has in common.
StepTaken ==
  /\ phase = "run" /\ pc < Len(Code)
  /\ program' = program
  /\ GoesOnOrAborts

\* The main expression of a program is a path.
LEMMA MainPathLength ==
  ASSUME NEW n \in DOMAIN ExpressionTable
  PROVE  Len(ExpressionTable[n].paths[1]) \in Nat
<1>1. ExpressionTable[n] \in FlatExpression /\ ExpressionTable[n].paths # <<>>
  BY ProgramsAssumption DEF OperandsInRange
<1>2. ExpressionTable[n].paths \in Seq(Seq(StepRecord))
  BY <1>1 DEF FlatExpression
<1> QED BY <1>1, <1>2

\* What At says of the position of the frame.
LEMMA AtControl ==
  ASSUME NEW op, At(op)
  PROVE  phase = "run" /\ pc < Len(Code) /\ program' = program
BY DEF At, request

\* Abort leaves the frame at the end of the main expression.
LEMMA AbortControl ==
  ASSUME NEW status, Abort(status)
  PROVE  GoesOnOrAborts
BY DEF Abort, GoesOnOrAborts

\* A jump fails only by way of Abort.
LEMMA JumpControl ==
  ASSUME NEW offset, JumpToOrAbort(offset)
  PROVE  GoesOnOrAborts
BY AbortControl DEF JumpToOrAbort, GoesOnOrAborts

\* So does going on with the next step.
LEMMA ContinueControl == ASSUME Continue PROVE GoesOnOrAborts
BY JumpControl DEF Continue

\* The steps that only push a value go on.
LEMMA ReplaceControl ==
  ASSUME NEW n, NEW v, Replace(n, v)
  PROVE  GoesOnOrAborts
BY ContinueControl DEF Replace

\* The steps that fail abort.
LEMMA AbortStepControl ==
  ASSUME NEW status, AbortStep(status)
  PROVE  GoesOnOrAborts
BY AbortControl DEF AbortStep

\* The steps that check their arguments do one or the other.
LEMMA StrictControl ==
  ASSUME NEW op, NEW n, NEW v, Strict(op, n, v)
  PROVE  StepTaken
BY AtControl, ReplaceControl, AbortStepControl DEF Strict, StepTaken

\* Function calls do one or the other, whichever overload is resolved.
LEMMA CallFunctionControl ==
  ASSUME NEW resolved, CallFunction(resolved)
  PROVE  GoesOnOrAborts
<1>1. ASSUME NEW o, InvokeOverload(o) PROVE GoesOnOrAborts
  BY <1>1, ContinueControl, AbortStepControl DEF InvokeOverload
<1> QED BY <1>1, ReplaceControl DEF CallFunction

\* Every step either goes on or leaves the frame where Abort does.
LEMMA EvaluateStepControl == ASSUME EvaluateStep PROVE StepTaken
<1>1. CASE Constant
  BY <1>1, AtControl, ReplaceControl DEF Constant, StepTaken
<1>2. CASE Identifier
  <2>1. ASSUME NEW v, PushIdentifier(v) PROVE GoesOnOrAborts
    BY <2>1, ContinueControl DEF PushIdentifier
  <2>2. ASSUME LookupIdent PROVE GoesOnOrAborts
    BY <2>1, <2>2, AbortControl DEF LookupIdent
  <2> QED BY <1>2, <2>2, AtControl, ReplaceControl DEF Identifier, StepTaken
<1>3. CASE ReadSlot
  BY <1>3, AtControl, ReplaceControl, AbortStepControl DEF ReadSlot, StepTaken
<1>4. CASE LazyInit
  BY <1>4, AtControl, ReplaceControl DEF LazyInit, Call, StepTaken, GoesOnOrAborts
<1>5. CASE AssignSlotAndPop
  BY <1>5, AtControl, ContinueControl, AbortStepControl DEF AssignSlotAndPop, StepTaken
<1>6. CASE ClearSlotsStep
  BY <1>6, AtControl, ContinueControl DEF ClearSlotsStep, StepTaken
<1>7. ASSUME NEW op, NEW target, BoolJump(op, target) PROVE StepTaken
  BY <1>7, AtControl, AbortStepControl, JumpControl, ContinueControl DEF BoolJump, StepTaken
<1>8. CASE TernaryJump
  BY <1>8, AtControl, AbortStepControl, JumpControl, ContinueControl DEF TernaryJump, StepTaken
<1>9. CASE FixedJump
  BY <1>9, AtControl, JumpControl DEF FixedJump, StepTaken
<1>10. CASE ComprehensionInit
  BY <1>10, AtControl, AbortStepControl, AbortControl, JumpControl, ContinueControl
     DEF ComprehensionInit, StepTaken
<1>11. ASSUME NEW op, NEW two, ComprehensionNext(op, two) PROVE StepTaken
  BY <1>11, AtControl, AbortStepControl, AbortControl, JumpControl, ContinueControl
     DEF ComprehensionNext, StepTaken
<1>12. ASSUME NEW op, NEW two, ComprehensionCond(op, two) PROVE StepTaken
  <2>1. ASSUME NEW v, CondFails(two, v) PROVE GoesOnOrAborts
    BY <2>1, JumpControl DEF CondFails
  <2> QED BY <1>12, <2>1, AtControl, AbortStepControl, JumpControl, ContinueControl
          DEF ComprehensionCond, StepTaken
<1>13. CASE ComprehensionFinish
  BY <1>13, AtControl, AbortStepControl, ContinueControl DEF ComprehensionFinish, StepTaken
<1>14. CASE EagerFunction
  BY <1>14, AtControl, AbortStepControl, CallFunctionControl DEF EagerFunction, StepTaken
<1>15. CASE LazyFunction
  BY <1>15, AtControl, AbortStepControl, CallFunctionControl DEF LazyFunction, StepTaken
<1>16. CASE NewMutableList
  BY <1>16, AtControl, ContinueControl DEF NewMutableList, ReplaceByContainer, StepTaken
<1>17. CASE CreateList
  BY <1>17, AtControl, AbortStepControl, ReplaceControl, ContinueControl
     DEF CreateList, ReplaceByContainer, StepTaken
<1>18. CASE MutableListAppend
  BY <1>18, AtControl, AbortStepControl, ReplaceControl, ContinueControl
     DEF MutableListAppend, StepTaken
<1>19. CASE \/ BooleanNot \/ NotStrictlyFalse \/ BooleanOr \/ BooleanAnd \/ Ternary
            \/ FastEqual \/ FastNotEqual \/ FastIn
  BY <1>19, StrictControl DEF BooleanNot, NotStrictlyFalse, BooleanOr, BooleanAnd, Ternary,
                              FastEqual, FastNotEqual, FastIn
<1> QED
  BY <1>1, <1>2, <1>3, <1>4, <1>5, <1>6, <1>7, <1>8, <1>9, <1>10, <1>11, <1>12, <1>13,
     <1>14, <1>15, <1>16, <1>17, <1>18, <1>19
  DEF EvaluateStep, ComprehensionNext1, ComprehensionNext2, ComprehensionCond1,
      ComprehensionCond2

\* An aborted frame has no step left.
LEMMA AbortedHasNoStep ==
  ASSUME AbortInv, phase = "run", abortStatus # "ok"
  PROVE  ~(pc < Len(Code)) /\ callStack = <<>>
<1>1. path = 1 /\ pc = Len(P.paths[1]) /\ callStack = <<>>
  BY DEF AbortInv, AbortedAtEnd
<1>2. Len(P.paths[1]) \in Nat
  BY MainPathLength DEF AbortInv, P
<1> QED BY <1>1, <1>2 DEF Code

\* Every step of the machine keeps the frame of an aborted evaluation at its end.
LEMMA AbortInvStep == ASSUME AbortInv, [Next]_vars PROVE AbortInv'
<1> USE DEF AbortInv
<1>1. CASE EvaluateStep
  <2>1. StepTaken
    BY <1>1, EvaluateStepControl
  <2>2. abortStatus = "ok"
    BY <2>1, AbortedHasNoStep DEF StepTaken
  <2>3. P' = P
    BY <2>1 DEF StepTaken, P
  <2> QED BY <2>1, <2>2, <2>3 DEF StepTaken, GoesOnOrAborts, AbortedAtEnd
<1>2. CASE Return
  <2>1. abortStatus = "ok"
    BY <1>2, AbortedHasNoStep DEF Return
  <2> QED BY <1>2, <2>1 DEF Return, AbortedAtEnd, request
<1>3. CASE ListenerContinues
  BY <1>3 DEF ListenerContinues, ListenerUnchanged, AbortedAtEnd, control, request, P
<1>4. CASE ListenerFails
  BY <1>4 DEF ListenerFails, ListenerUnchanged, Abort, AbortedAtEnd, request, P
<1>5. CASE EndEvaluate
  BY <1>5 DEF EndEvaluate, AbortedAtEnd
<1>6. CASE \E a \in Activations, withListener \in ListenerChoices : StartEvaluate(a, withListener)
  BY <1>6 DEF StartEvaluate, AbortedAtEnd
<1>7. CASE Terminated \/ UNCHANGED vars
  BY <1>7 DEF Terminated, vars, request, control, AbortedAtEnd, P
<1> QED BY <1>1, <1>2, <1>3, <1>4, <1>5, <1>6, <1>7 DEF Next, Interpret

\* From an aborted state only the listener's loop or the end of the evaluation
\* is left, and neither touches the data.
LEMMA AbortedStep ==
  ASSUME AbortInv, [Next]_vars, phase # "idle", abortStatus # "ok"
  PROVE  /\ UNCHANGED <<abortStatus, iterations, valueStack, iteratorStack, slots, heap,
                        lookups>>
         /\ phase' = "idle" => outcome'.status = abortStatus
<1>1. CASE EvaluateStep
  BY <1>1, EvaluateStepControl, AbortedHasNoStep DEF StepTaken
<1>2. CASE Return
  BY <1>2, AbortedHasNoStep DEF Return
<1>3. CASE ListenerContinues
  BY <1>3 DEF ListenerContinues, ListenerUnchanged, control
<1>4. CASE ListenerFails
  BY <1>4 DEF ListenerFails, ListenerIsCalled
<1>5. CASE EndEvaluate
  BY <1>5 DEF EndEvaluate, control
<1>6. CASE \E a \in Activations, withListener \in ListenerChoices : StartEvaluate(a, withListener)
  BY <1>6 DEF StartEvaluate
<1>7. CASE Terminated \/ UNCHANGED vars
  BY <1>7 DEF Terminated, vars, control
<1> QED BY <1>1, <1>2, <1>3, <1>4, <1>5, <1>6, <1>7 DEF Next, Interpret

\* Once an evaluation has aborted, nothing more is evaluated, looked up or
\* written, and its caller is told the first failure (Abort, NextSlow,
\* InterpretWithCallback and Evaluate), whatever the program is.
THEOREM AbortFinality == Spec => AbortIsFinal
<1>1. Init => AbortInv
  BY DEF Init, AbortInv, AbortedAtEnd
<1>2. AbortInv /\ [Next]_vars => AbortInv'
  BY AbortInvStep
<1>3. AbortInv /\ [Next]_vars =>
        [(phase # "idle" /\ abortStatus # "ok") =>
           /\ UNCHANGED <<abortStatus, iterations, valueStack, iteratorStack, slots, heap,
                          lookups>>
           /\ phase' = "idle" => outcome'.status = abortStatus]_vars
  BY AbortedStep
<1> QED BY <1>1, <1>2, <1>3, PTL DEF Spec, AbortIsFinal

-----------------------------------------------------------------------------
(* Values, arenas and function dispatch.                                   *)

\* A non-empty set of numbers has a least one: what FirstError and the search
\* for the first overload choose exists.
LEMMA LeastExists ==
  ASSUME NEW S \in SUBSET Nat, S # {}
  PROVE  \E i \in S : \A j \in S : i <= j
<1> DEFINE R == {ss \in Nat \X Nat : ss[1] < ss[2]}
<1>1. OpToRel(<, Nat) = R
  BY Zenon DEF OpToRel
<1>2. IsWellFoundedOn(R, Nat)
  BY <1>1, NatLessThanWellFounded, Zenon
<1>3. PICK i \in S : \A j \in S : ~(<<j, i>> \in R)
  BY <1>2, WFMin
<1>4. ASSUME NEW j \in S PROVE i <= j
  <2>1. ~(<<j, i>> \in R)
    BY <1>3
  <2>2. i \in Nat /\ j \in Nat
    OBVIOUS
  <2>3. ~(j < i)
    BY <2>1, <2>2
  <2> QED BY <2>2, <2>3
<1> QED BY <1>4

\* The constructors of CelValues make values of any arena.
LEMMA ConstructorsTyped ==
  ASSUME NEW m \in Nat
  PROVE  /\ \A b : BoolValue(b) \in ValueIn(m)
         /\ \A i \in Int : IntValue(i) \in ValueIn(m)
         /\ \A e \in Int : ErrorValue(e) \in ValueIn(m)
         /\ NullValue \in ValueIn(m)
         /\ \A u \in SUBSET Attributes : UnknownValue(u) \in ValueIn(m)
         /\ \A a \in 1 .. m : ListValue(a) \in ValueIn(m)
BY DEF BoolValue, IntValue, ErrorValue, NullValue, UnknownValue, ListValue,
       ValueIn, Value, Kinds, IsContainer

\* A value of an arena is one of every longer arena.
LEMMA ValueInGrows ==
  ASSUME NEW m \in Nat, NEW n \in Nat, m <= n
  PROVE  ValueIn(m) \subseteq ValueIn(n)
BY DEF ValueIn

\* A list or map value of an arena refers to one of its containers.
LEMMA ContainerInArena ==
  ASSUME NEW m \in Nat, NEW v \in ValueIn(m), IsContainer(v)
  PROVE  v.n \in 1 .. m
BY DEF ValueIn

\* The fields of a value of an arena are typed.
LEMMA ValueFields ==
  ASSUME NEW m \in Nat, NEW v \in ValueIn(m)
  PROVE  v \in Value /\ v.kind \in Kinds /\ v.n \in Int /\ v.unknowns \in SUBSET Attributes
BY DEF ValueIn, Value

\* UnknownAccumulator and FirstError: what they report is a value.
LEMMA MergeUnknownsTyped ==
  ASSUME NEW m \in Nat, NEW args \in Seq(ValueIn(m))
  PROVE  MergeUnknowns(args) \in ValueIn(m)
<1> DEFINE u == UNION {args[i].unknowns : i \in {j \in DOMAIN args : IsUnknown(args[j])}}
<1>1. \A i \in DOMAIN args : args[i].unknowns \in SUBSET Attributes
  BY ValueFields
<1>2. u \in SUBSET Attributes
  BY <1>1
<1> HIDE DEF u
<1>3. UnknownValue(u) \in ValueIn(m)
  BY <1>2, ConstructorsTyped
<1> QED BY <1>3 DEF MergeUnknowns, u

\* The error that takes precedence is one of the arguments.
LEMMA FirstErrorTyped ==
  ASSUME NEW m \in Nat, NEW args \in Seq(ValueIn(m)), AnyError(args)
  PROVE  FirstError(args) \in ValueIn(m)
<1> DEFINE S == {i \in DOMAIN args : IsError(args[i])}
<1>1. S \in SUBSET Nat /\ S # {}
  BY DEF AnyError
<1>2. PICK i \in S : \A j \in S : i <= j
  BY <1>1, LeastExists
<1>3. /\ i \in DOMAIN args
      /\ IsError(args[i])
      /\ \A j \in DOMAIN args : j < i => ~IsError(args[j])
  BY <1>2
<1> DEFINE c == CHOOSE k \in DOMAIN args :
                  /\ IsError(args[k])
                  /\ \A j \in DOMAIN args : j < k => ~IsError(args[j])
<1>4. c \in DOMAIN args
  BY <1>3
<1> HIDE DEF c
<1>5. args[c] \in ValueIn(m)
  BY <1>4
<1> QED BY <1>5 DEF FirstError, c

\* The int64 addition never leaves the range of int.
LEMMA CheckedAddTyped ==
  ASSUME NEW m \in Nat, NEW x \in Int, NEW y \in Int
  PROVE  CheckedAdd(x, y) \in ValueIn(m)
BY ConstructorsTyped DEF CheckedAdd, kOverflow

\* NoOverloadResult: what a call without a matching overload yields.
LEMMA NoOverloadResultTyped ==
  ASSUME NEW m \in Nat, NEW args \in Seq(ValueIn(m)), NEW u
  PROVE  NoOverloadResult(args, u) \in ValueIn(m)
<1>1. CASE AnyError(args)
  BY <1>1, FirstErrorTyped DEF NoOverloadResult
<1>2. CASE ~AnyError(args)
  <2>1. ErrorValue(kNoMatchingOverload) \in ValueIn(m)
    BY ConstructorsTyped DEF kNoMatchingOverload
  <2> QED BY <1>2, <2>1, MergeUnknownsTyped DEF NoOverloadResult
<1> QED BY <1>1, <1>2

-----------------------------------------------------------------------------
(***************************************************************************)
(* Arenas only grow, and what they held stays well-formed.                  *)
(***************************************************************************)
\* An entry of an arena is one of every longer arena.
LEMMA EntriesGrow ==
  ASSUME NEW m \in Nat, NEW n \in Nat, m <= n
  PROVE  /\ EntryIn(m) \subseteq EntryIn(n)
         /\ Seq(EntryIn(m)) \subseteq Seq(EntryIn(n))
<1>1. EntryIn(m) \subseteq EntryIn(n)
  BY ValueInGrows DEF EntryIn
<1> QED BY <1>1, SeqMonotonic

\* The entries of a list of values are entries of the same arena.
LEMMA ListEntriesTyped ==
  ASSUME NEW m \in Nat, NEW elements \in Seq(ValueIn(m))
  PROVE  ListEntries(elements) \in Seq(EntryIn(m))
<1>1. \A i \in 1 .. Len(elements) :
        [key |-> IntValue(i - 1), val |-> elements[i]] \in EntryIn(m)
  BY ConstructorsTyped DEF EntryIn
<1> QED BY <1>1 DEF ListEntries

\* A new container may refer to itself and to all older ones.
LEMMA ArenaAppend ==
  ASSUME NEW cells, ArenaOK(cells),
         NEW entries \in Seq(EntryIn(Len(cells) + 1))
  PROVE  /\ Len(Append(cells, entries)) = Len(cells) + 1
         /\ ArenaOK(Append(cells, entries))
<1> DEFINE m == Len(cells)
<1>1. m \in Nat
  BY DEF ArenaOK
<1>2. cells \in Seq(Seq(EntryIn(m + 1)))
  BY <1>1, EntriesGrow, SeqMonotonic DEF ArenaOK
<1>3. /\ Append(cells, entries) \in Seq(Seq(EntryIn(m + 1)))
      /\ Len(Append(cells, entries)) = m + 1
  BY <1>2, AppendProperties
<1> QED BY <1>3 DEF ArenaOK

\* The elements of a container of the arena are values of the arena.
LEMMA ElementsTyped ==
  ASSUME NEW cells, ArenaOK(cells), NEW a \in 1 .. Len(cells)
  PROVE  /\ cells[a] \in Seq(EntryIn(Len(cells)))
         /\ [i \in 1 .. Len(cells[a]) |-> cells[a][i].val] \in Seq(ValueIn(Len(cells)))
<1>1. cells[a] \in Seq(EntryIn(Len(cells)))
  BY DEF ArenaOK
<1>2. ASSUME NEW i \in 1 .. Len(cells[a]) PROVE cells[a][i].val \in ValueIn(Len(cells))
  <2>1. cells[a][i] \in EntryIn(Len(cells))
    BY <1>1, ElementOfSeq
  <2> QED BY <2>1 DEF EntryIn
<1> QED BY <1>1, <1>2

\* The same for the containers that a function call allocates.
LEMMA ArenaConcat ==
  ASSUME NEW cells, ArenaOK(cells),
         NEW entries \in Seq(EntryIn(Len(cells) + 1))
  PROVE  /\ Len(cells \o <<entries>>) = Len(cells) + 1
         /\ ArenaOK(cells \o <<entries>>)
         /\ cells \o <<>> = cells
<1> DEFINE m == Len(cells)
<1>1. m \in Nat
  BY DEF ArenaOK
<1>2. cells \in Seq(Seq(EntryIn(m + 1)))
  BY <1>1, EntriesGrow, SeqMonotonic DEF ArenaOK
<1>3. <<entries>> \in Seq(Seq(EntryIn(m + 1))) /\ Len(<<entries>>) = 1
  OBVIOUS
<1>4. /\ cells \o <<entries>> \in Seq(Seq(EntryIn(m + 1)))
      /\ Len(cells \o <<entries>>) = m + 1
  BY <1>2, <1>3, ConcatProperties
<1> QED BY <1>2, <1>4, ConcatEmptySeq DEF ArenaOK

-----------------------------------------------------------------------------
(***************************************************************************)
(* Dispatch: the overload that is invoked is one of the candidates, and its *)
(* parameter kinds are those of the arguments.                              *)
(***************************************************************************)
\* What the two typed implementations rely on when they read their arguments.
LEMMA MatchedKinds ==
  ASSUME NEW overload \in Overload, NEW args, ArgumentKindsMatch(overload, args),
         NEW m \in Nat, args \in Seq(ValueIn(m))
  PROVE  /\ overload.impl = "add" =>
              /\ args[1] \in ValueIn(m) /\ args[2] \in ValueIn(m)
         /\ overload.impl = "concat" =>
              /\ args[1].n \in 1 .. m /\ args[2].n \in 1 .. m
<1>1. ASSUME NEW i \in DOMAIN args PROVE args[i] \in ValueIn(m)
  OBVIOUS
<1>2. CASE overload.impl = "add"
  <2>1. overload.kinds = <<"int", "int">>
    BY <1>2 DEF Overload
  <2>2. Len(args) = 2
    BY <2>1 DEF ArgumentKindsMatch
  <2>3. 1 \in DOMAIN args /\ 2 \in DOMAIN args
    BY <2>2
  <2> QED BY <1>1, <1>2, <2>3
<1>3. CASE overload.impl = "concat"
  <2>1. overload.kinds = <<"list", "list">>
    BY <1>3 DEF Overload
  <2>2. Len(args) = 2
    BY <2>1 DEF ArgumentKindsMatch
  <2>3. 1 \in DOMAIN args /\ 2 \in DOMAIN args
    BY <2>2
  <2>4. args[1].kind = "list" /\ args[2].kind = "list"
    BY <2>1, <2>3 DEF ArgumentKindsMatch
  <2>5. IsContainer(args[1]) /\ IsContainer(args[2])
    BY <2>4 DEF IsContainer
  <2> QED BY <1>1, <1>3, <2>3, <2>5, ContainerInArena
<1> QED BY <1>2, <1>3

\* Invoke: the value refers to the arena it leaves behind, which is well-formed.
LEMMA InvokeTyped ==
  ASSUME NEW cells, ArenaOK(cells),
         NEW overload \in Overload, NEW args \in Seq(ValueIn(Len(cells))),
         ArgumentKindsMatch(overload, args), NEW u,
         NEW result, result = Invoke(overload.impl, args, cells, u)
  PROVE  /\ ArenaOK(cells \o result.alloc)
         /\ Len(cells) <= Len(cells \o result.alloc)
         /\ result.value \in ValueIn(Len(cells \o result.alloc))
<1> DEFINE m == Len(cells)
<1>1. m \in Nat
  BY DEF ArenaOK
<1>2. cells \o <<>> = cells
  BY ConcatEmptySeq DEF ArenaOK
<1>3. overload.impl \in Impls
  BY DEF Overload
<1>4. CASE overload.impl = "add"
  <2>1. result.alloc = <<>> /\ result.value = CheckedAdd(args[1].n, args[2].n)
    BY <1>4 DEF Invoke
  <2>2. args[1].n \in Int /\ args[2].n \in Int
    BY <1>1, <1>4, MatchedKinds, ValueFields
  <2> QED BY <1>1, <1>2, <2>1, <2>2, CheckedAddTyped
<1>5. CASE overload.impl = "concat"
  <2> DEFINE first  == [i \in 1 .. Len(cells[args[1].n]) |-> cells[args[1].n][i].val]
             second == [i \in 1 .. Len(cells[args[2].n]) |-> cells[args[2].n][i].val]
  <2>1. result.alloc = <<ListEntries(first \o second)>> /\ result.value = ListValue(m + 1)
    BY <1>5 DEF Invoke
  <2>2. args[1].n \in 1 .. m /\ args[2].n \in 1 .. m
    BY <1>1, <1>5, MatchedKinds
  <2>3. first \in Seq(ValueIn(m)) /\ second \in Seq(ValueIn(m))
    BY <2>2, ElementsTyped
  <2> HIDE DEF first, second
  <2>4. first \o second \in Seq(ValueIn(m))
    BY <2>3, ConcatProperties
  <2>5. ListEntries(first \o second) \in Seq(EntryIn(m))
    BY <1>1, <2>4, ListEntriesTyped
  <2>6. ListEntries(first \o second) \in Seq(EntryIn(m + 1))
    BY <1>1, <2>5, EntriesGrow
  <2>7. /\ Len(cells \o result.alloc) = m + 1
        /\ ArenaOK(cells \o result.alloc)
    BY <2>1, <2>6, ArenaConcat
  <2>8. ListValue(m + 1) \in ValueIn(m + 1)
    BY <1>1, ConstructorsTyped
  <2> QED BY <1>1, <2>1, <2>7, <2>8
<1>6. CASE overload.impl = "fail"
  <2>1. result.alloc = <<>> /\ result.value = NullValue
    BY <1>6 DEF Invoke
  <2> QED BY <1>1, <1>2, <2>1, ConstructorsTyped
<1>7. CASE overload.impl = "pending"
  <2>1. /\ result.alloc = <<>>
        /\ result.value = IF u THEN UnknownValue({"pending"} \cap Attributes)
                               ELSE ErrorValue(kUnavailable)
    BY <1>7 DEF Invoke
  <2>2. /\ UnknownValue({"pending"} \cap Attributes) \in ValueIn(m)
        /\ ErrorValue(kUnavailable) \in ValueIn(m)
    BY <1>1, ConstructorsTyped DEF kUnavailable
  <2> QED BY <1>1, <1>2, <2>1, <2>2
<1>8. CASE overload.impl = "is_err"
  <2>1. result.alloc = <<>> /\ result.value = BoolValue(AnyError(args))
    BY <1>8 DEF Invoke
  <2> QED BY <1>1, <1>2, <2>1, ConstructorsTyped
<1> QED BY <1>3, <1>4, <1>5, <1>6, <1>7, <1>8 DEF Impls
=============================================================================
