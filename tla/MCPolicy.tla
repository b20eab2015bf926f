------------------------------ MODULE MCPolicy ------------------------------
(* Rules of one level, and rules around them.                               *)
EXTENDS PolicySemantics

MCEnvTypes == <<>>

C(name) == <<Atom(name, BoolType)>>
X       == <<VariableRef("x")>>
Always  == <<BoolLiteral(TRUE)>>
Never   == <<BoolLiteral(FALSE)>>
Out(name)      == <<Atom(name, IntType)>>
OutList(name)  == <<Atom(name, ListType(IntType))>>
OutX(name)     == <<Apply(name, IntType, <<Apply("f", IntType, X)>>)>>
OutLoop(name)  == <<Loop(name, IntType, <<Atom("range", IntType), VariableRef("x")>>)>>
NotX           == <<Apply("!_", BoolType, X)>>
High(name)     == <<Apply("!_", BoolType, <<Apply("!_", BoolType, C(name))>>)>>

Output(condition, output) == PolicyMatch(condition, output, <<>>)
XIs(expression)           == <<PolicyVariable("x", expression[1])>>

First(matches)   == PolicyRule(FALSE, <<>>, matches)
Aggregate(matches) == PolicyRule(TRUE, <<>>, matches)

Firsts  == {Output(c, Out("o1")) : c \in {<<>>, C("c1"), Always, Never}}
Seconds == {Output(c, o) : c \in {<<>>, High("c2")}, o \in {Out("o2"), OutX("o2")}}
             \cup {Output(X, OutX("o2")), Output(<<>>, OutLoop("o2"))}

MCRules ==
    {PolicyRule(a, v, ms) :
        a \in BOOLEAN, v \in {<<>>, XIs(C("x1"))},
        ms \in {<<m>> : m \in Seconds} \cup {<<m, n>> : m \in Firsts, n \in Seconds}}
    \cup {First(<<>>), Aggregate(<<Output(Out("o1"), Out("o2"))>>),
          First(<<PolicyMatch(C("c1"), <<>>, <<>>)>>),
          First(<<Output(C("c1"), Out("o1")), Output(<<>>, OutList("o2"))>>),
          First(<<Output(C("c1"), <<Atom("o1", DynType)>>), Output(C("c2"), Out("o2")),
                  Output(<<>>, OutList("o3"))>>),
          PolicyRule(FALSE, XIs(C("x1")) \o XIs(C("x2")), <<Output(<<>>, Out("o1"))>>),
          PolicyRule(FALSE, XIs(NotX), <<Output(X, OutX("o1"))>>),
          PolicyRule(FALSE, XIs(C("x1")) \o <<PolicyVariable("y", NotX[1])>>,
                     <<Output(<<VariableRef("y")>>, Out("o1")), Output(<<>>, OutX("o2"))>>)}

Hole(condition) == PolicyMatch(condition, <<>>, <<>>)
Around(a, v, before, hole, after) ==
    [rule |-> PolicyRule(a, v, before \o <<Hole(hole)>> \o after), at |-> Len(before) + 1]

\* A rule around others adds at most two atoms to the worlds.
Inner ==
    {Around(FALSE, v, <<>>, hole, after) :
        v \in {<<>>, XIs(C("y1"))}, hole \in {<<>>, C("d2")},
        after \in {<<>>, <<Output(<<>>, OutX("p2"))>>}}
    \cup {Around(FALSE, <<>>, <<Output(C("d1"), Out("p1"))>>, hole, after) :
            hole \in {<<>>, C("d2")}, after \in {<<>>, <<Output(<<>>, OutX("p2"))>>}}
    \cup {Around(a, <<>>, IF a THEN <<Output(<<>>, Out("p1"))>> ELSE <<>>, hole,
                 <<Output(C("d3"), Out("p2"))>>) :
            a \in BOOLEAN, hole \in {<<>>, C("d2")}}
    \cup {Around(FALSE, <<>>, <<Output(C("d1"), OutList("p1"))>>, hole, <<>>) :
            hole \in {<<>>, Always}}

Outer ==
    {Around(FALSE, <<>>, <<>>, C("e1"), after) : after \in {<<>>, <<Output(<<>>, Out("q1"))>>}}
    \cup {Around(FALSE, XIs(C("z1")), <<>>, <<>>, <<>>), Around(TRUE, <<>>, <<>>, C("e1"), <<>>)}

MCContexts == <<Inner, Outer>>
=============================================================================
