------------------------------ MODULE MCFaults -----------------------------
(***************************************************************************)
(* Programs put together by hand, as the unit tests of eval/eval do it, to  *)
(* drive the machine into every failure it reports: the planner makes none  *)
(* of them.  They run next to planned programs, twice each.                 *)
(***************************************************************************)
EXTENDS MCPlanned

Program(paths) ==
  [paths |-> paths, slotCount |-> 4, valueStackSize |-> 4, iteratorStackSize |-> 2,
   shortCircuiting |-> TRUE, maxIterations |-> 2, unknowns |-> "attribute"]

Push(v)      == [NodeStep("kConstant") EXCEPT !.value = v]
Load(x, s)   == [NodeStep("kIdentifier") EXCEPT !.name = x, !.slot = s]
Read(s)      == [NodeStep("kReadSlot") EXCEPT !.slot = s]
Lazy(s, sub) == [NodeStep("kLazyInit") EXCEPT !.slot = s, !.sub = sub]
Jump(op, offset)  == [NewStep(op) EXCEPT !.offset = offset, !.offset2 = offset, !.argc = 1]
FaultCall(op, argc, overloads) ==
  [NodeStep(op) EXCEPT !.argc = argc, !.overloads = overloads]
OverloadOf(kinds, impl) == [kinds |-> kinds, strict |-> TRUE, impl |-> impl]

One   == Push(IntValue(1))
True  == Push(BoolValue(TRUE))
False == Push(BoolValue(FALSE))
Wrong == Push(ErrorValue(kOverflow))
List  == Load("y", 3)

\* Every step that takes arguments, on an empty stack.
Underflows ==
  LET on(op) == Program(<<<<[NewStep(op) EXCEPT !.argc = 2]>>>>)
  IN  <<on("kAssignSlotAndPop"), on("kBooleanNot"), on("kNotStrictlyFalse"),
        on("kBooleanOr"), on("kBooleanAnd"), on("kBooleanOrJump"), on("kBooleanAndJump"),
        on("kTernaryJump"), on("kTernary"), on("kComprehensionInit"),
        on("kComprehensionNext"), on("kComprehensionNext2"), on("kComprehensionCond"),
        on("kComprehensionCond2"), on("kComprehensionFinish"), on("kEagerFunction"),
        on("kLazyFunction"), on("kFastEqual"), on("kFastNotEqual"), on("kFastIn"),
        on("kMutableListAppend"), on("kCreateList")>>

\* Jumps before the first and behind the last step of the path.
WildJumps ==
  <<Program(<<<<Jump("kFixedJump", 1)>>>>),
    Program(<<<<One, Jump("kFixedJump", -3)>>>>),
    Program(<<<<True, Jump("kBooleanOrJump", 2)>>>>),
    Program(<<<<False, Jump("kBooleanAndJump", 2)>>>>),
    Program(<<<<False, Jump("kTernaryJump", 2)>>>>),
    Program(<<<<Wrong, Jump("kTernaryJump", 2)>>>>),
    Program(<<<<One, Jump("kTernaryJump", 2)>>>>),
    Program(<<<<One, Jump("kComprehensionInit", 2)>>>>),
    Program(<<<<Wrong, Jump("kComprehensionInit", 2)>>>>)>>

\* Loops with a jump behind the end when they leave, and one without iterator.
WildLoops ==
  LET start == [NewStep("kComprehensionInit") EXCEPT !.v2 = TRUE] IN
  <<Program(<<<<One, One, NewStep("kComprehensionNext")>>>>),
    Program(<<<<List, start, One, NewStep("kComprehensionNext"),
                False, Jump("kComprehensionCond", 9)>>>>),
    Program(<<<<List, start, One, NewStep("kComprehensionNext2"),
                Wrong, Jump("kComprehensionCond2", 9)>>>>),
    Program(<<<<List, start, One, NewStep("kComprehensionNext2"), One,
                Jump("kFixedJump", -3)>>>>),
    Program(<<<<List, start, One, Jump("kComprehensionNext", 9), One,
                Jump("kFixedJump", -3)>>>>)>>

\* Failures under a call: the frame is left with loops and callers pending.
FailuresInSubexpressions ==
  LET fail == FaultCall("kEagerFunction", 0, <<OverloadOf(<<>>, "fail")>>)
      below(code) == Program(<<<<One, Lazy(0, 2), Lazy(0, 2)>>, <<True, Lazy(1, 3)>>, code>>)
  IN  <<below(<<fail>>), below(<<Read(2)>>), below(<<Load("x", 2)>>),
        below(<<One, One, NewStep("kMutableListAppend")>>),
        below(<<One, FaultCall("kLazyFunction", 1, <<OverloadOf(<<"any">>, "is_err"),
                                                    OverloadOf(<<"int">>, "is_err")>>)>>),
        below(<<List, NewStep("kComprehensionInit"), One, NewStep("kComprehensionNext"),
                fail>>),
        below(<<Jump("kFixedJump", 9)>>)>>

\* Programs that end well, or with more than their result on the stack.
Endings ==
  <<Program(<<<<One, One>>>>),
    Program(<<<<One, [NewStep("kAssignSlotAndPop") EXCEPT !.slot = 1], Read(1)>>>>),
    Program(<<<<One, [NewStep("kAssignSlotAndPop") EXCEPT !.slot = 1],
                [NewStep("kClearSlots") EXCEPT !.slot = 1, !.argc = 2], Read(1)>>>>),
    Program(<<<<Load("x", 2), Load("x", 2), NodeStep("kFastEqual")>>>>)>>

\* Unknowns that reach a list builder, where they are not enabled.
UnknownElements ==
  LET unaware(code) == [Program(<<code>>) EXCEPT !.unknowns = "disabled"]
      unknown == Push(UnknownValue({"x"}))
  IN  <<unaware(<<One, unknown, [NewStep("kCreateList") EXCEPT !.argc = 2]>>),
        unaware(<<NewStep("kNewMutableList"), unknown, NewStep("kMutableListAppend")>>)>>

FaultPrograms ==
  Underflows \o WildJumps \o WildLoops \o FailuresInSubexpressions \o Endings
    \o UnknownElements

\* A provider that fails or answers, and one that is asked for an unknown and
\* gives a list whose iterators may fail.
FaultActivations ==
  {[vars |-> Binding({BoolValue(TRUE), Failing}, {ListValue(1)}, {ListValue(1)}),
    unknown |-> {}, functions |-> {"is_err"}, arena |-> <<OneTwo>>,
    broken |-> {}],
   [vars |-> Binding({Unbound}, {ListValue(1)}, {ListValue(1)}),
    unknown |-> {"x"}, functions |-> {}, arena |-> <<ListEntries(<<IntValue(1)>>)>>,
    broken |-> {1}]}

ReuseActivations == TwoActivations \cup FaultActivations

PlannedAndFaultPrograms ==
  LET planned == PlannedPrograms
      count   == Len(Cases)
  IN  [i \in 1 .. count + Len(FaultPrograms) |->
         IF i =< count THEN planned[i] ELSE FaultPrograms[i - count]]

\* Only the planned programs have certificates.
PlannedCertificates ==
  LET programs == PlannedPrograms IN [i \in DOMAIN programs |-> Certificate(programs[i])]
=============================================================================
