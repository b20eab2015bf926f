------------------------- MODULE RuntimeSetupProofs -------------------------
(***************************************************************************)
(* The safety of a runtime, for every set of descriptors, planners, enums   *)
(* and keys: overloads that stand side by side are told apart by every call *)
(* (RegistryInv), and planners that share tables, the message factory and   *)
(* caches see what the environment owns (EnvInv).                           *)
(***************************************************************************)
EXTENDS RuntimeSetup, SequenceTheorems, TLAPS

Shapes == [receiver : BOOLEAN, types : Seq(Kinds), strict : BOOLEAN]

-----------------------------------------------------------------------------
(* Shapes.                                                                  *)

ShapesOverlap(d, e) == ShapeMatches(d, e.receiver, e.types)

\* Two descriptors overlap if one and the other do.
LEMMA OverlapIsSymmetric ==
  ASSUME NEW d \in Shapes, NEW e \in Shapes
  PROVE  ShapesOverlap(d, e) <=> ShapesOverlap(e, d)
<1>1. /\ DOMAIN d.types = 1 .. Len(d.types) /\ DOMAIN e.types = 1 .. Len(e.types)
  BY LenProperties DEF Shapes
<1> QED BY <1>1 DEF ShapesOverlap, ShapeMatches, KindsOverlap

\* Descriptors that accept arguments of the same known kinds overlap.
LEMMA CommonCallOverlaps ==
  ASSUME NEW d \in Shapes, NEW e \in Shapes, NEW receiver,
         NEW args \in Seq(Kinds), \A k \in 1 .. Len(args) : args[k] # "any",
         ShapeMatches(d, receiver, args), ShapeMatches(e, receiver, args)
  PROVE  ShapesOverlap(d, e)
<1>1. /\ d.types \in Seq(Kinds) /\ e.types \in Seq(Kinds)
      /\ DOMAIN args = 1 .. Len(args) /\ DOMAIN e.types = 1 .. Len(e.types)
  BY LenProperties DEF Shapes
<1>2. /\ d.receiver = receiver /\ e.receiver = receiver
      /\ Len(d.types) = Len(args) /\ Len(e.types) = Len(args)
      /\ \A k \in 1 .. Len(args) : KindsOverlap(d.types[k], args[k]) /\ KindsOverlap(e.types[k], args[k])
  BY <1>1 DEF ShapeMatches
<1>3. \A k \in 1 .. Len(args) : KindsOverlap(d.types[k], e.types[k])
  BY <1>2 DEF KindsOverlap
<1> QED BY <1>1, <1>2, <1>3 DEF ShapesOverlap, ShapeMatches

-----------------------------------------------------------------------------
(* Overloads side by side.                                                  *)

Apart(overloads) ==
  \A i, j \in 1 .. Len(overloads) : i # j => ~ShapesOverlap(overloads[i], overloads[j])

NonStrictAlone(overloads) ==
  (\E i \in 1 .. Len(overloads) : ~overloads[i].strict) => Len(overloads) = 1

\* An overload registered among others, static or lazy.
Inserted(after, before, d) ==
  /\ after \in Seq(Shapes)
  /\ Len(after) = Len(before) + 1
  /\ \E k \in 1 .. Len(after) :
       /\ after[k] = d
       /\ \A i \in 1 .. k - 1 : after[i] = before[i]
       /\ \A i \in k + 1 .. Len(after) : after[i] = before[i - 1]

LEMMA InsertedStatic ==
  ASSUME NEW s \in Seq(Shapes), NEW t \in Seq(Shapes), NEW d \in Shapes
  PROVE  Inserted(Append(s, d) \o t, s \o t, d)
<1> DEFINE after  == Append(s, d) \o t
           before == s \o t
           k      == Len(s) + 1
<1>1. /\ Append(s, d) \in Seq(Shapes) /\ Len(Append(s, d)) = k
      /\ \A i \in 1 .. Len(s) : Append(s, d)[i] = s[i]
  <2>1. Append(s, d) \in Seq(Shapes) /\ Len(Append(s, d)) = k
    BY AppendProperties
  <2>2. \A i \in 1 .. Len(s) : Append(s, d)[i] = s[i]
    BY AppendProperties
  <2> QED BY <2>1, <2>2
<1>2. Append(s, d)[k] = d
  BY AppendProperties
<1>3. Len(s) \in Nat /\ Len(t) \in Nat
  BY LenProperties
<1>4. /\ after \in Seq(Shapes) /\ Len(after) = k + Len(t)
      /\ \A i \in 1 .. k + Len(t) : after[i] = IF i <= k THEN Append(s, d)[i] ELSE t[i - k]
  <2> DEFINE a == Append(s, d)
  <2> HIDE DEF a
  <2>1. a \o t \in Seq(Shapes) /\ Len(a \o t) = Len(a) + Len(t)
        /\ \A i \in 1 .. Len(a) + Len(t) : (a \o t)[i] = IF i <= Len(a) THEN a[i] ELSE t[i - Len(a)]
    BY <1>1, ConcatProperties DEF a
  <2> QED BY <1>1, <2>1 DEF a
<1>5. /\ Len(before) = Len(s) + Len(t)
      /\ \A i \in 1 .. Len(s) + Len(t) : before[i] = IF i <= Len(s) THEN s[i] ELSE t[i - Len(s)]
  BY ConcatProperties
<1> HIDE DEF after, before
<1>6. \A i \in 1 .. k - 1 : after[i] = before[i]
  BY <1>1, <1>3, <1>4, <1>5
<1>7. \A i \in k + 1 .. Len(after) : after[i] = before[i - 1]
  <2> TAKE i \in k + 1 .. Len(after)
  <2>1. i \in 1 .. k + Len(t) /\ ~(i <= k) /\ i \in Int
    BY <1>3, <1>4
  <2>2. i - 1 \in 1 .. Len(s) + Len(t) /\ ~(i - 1 <= Len(s)) /\ i - 1 - Len(s) = i - k
    BY <1>3, <1>4
  <2>3. after[i] = t[i - k]
    BY <1>4, <2>1
  <2>4. before[i - 1] = t[i - k]
    BY <1>5, <2>2
  <2> QED BY <2>3, <2>4
<1>8. k \in 1 .. Len(after) /\ after[k] = d /\ Len(after) = Len(before) + 1
  BY <1>2, <1>3, <1>4, <1>5
<1>9. Inserted(after, before, d)
  BY <1>4, <1>6, <1>7, <1>8 DEF Inserted
<1> QED BY <1>9 DEF after, before

LEMMA InsertedLast ==
  ASSUME NEW s \in Seq(Shapes), NEW d \in Shapes
  PROVE  Inserted(Append(s, d), s, d)
<1> DEFINE after == Append(s, d)
<1>1. /\ after \in Seq(Shapes) /\ Len(after) = Len(s) + 1
      /\ \A i \in 1 .. Len(s) : after[i] = s[i]
  BY AppendProperties
<1>2. after[Len(s) + 1] = d /\ Len(s) \in Nat
  BY AppendProperties, LenProperties
<1> HIDE DEF after
<1>3. Inserted(after, s, d)
  BY <1>1, <1>2 DEF Inserted
<1> QED BY <1>3 DEF after

\* An overload that overlaps none of the others may stand beside them.
LEMMA InsertedApart ==
  ASSUME NEW before \in Seq(Shapes), NEW d \in Shapes, NEW after, Inserted(after, before, d),
         Apart(before), \A i \in 1 .. Len(before) : ~ShapesOverlap(before[i], d)
  PROVE  Apart(after)
<1> PICK k \in 1 .. Len(after) :
       /\ after[k] = d
       /\ \A i \in 1 .. k - 1 : after[i] = before[i]
       /\ \A i \in k + 1 .. Len(after) : after[i] = before[i - 1]
  BY DEF Inserted
<1> DEFINE old(i) == IF i < k THEN i ELSE i - 1
<1>1. /\ Len(before) \in Nat /\ Len(after) = Len(before) + 1 /\ k \in Nat
  BY LenProperties DEF Inserted
<1>2. \A i \in 1 .. Len(after) :
        i # k => old(i) \in 1 .. Len(before) /\ after[i] = before[old(i)]
  BY <1>1
<1>3. \A i, j \in 1 .. Len(after) : i # k /\ j # k /\ i # j => old(i) # old(j)
  BY <1>1
<1>4. \A i \in 1 .. Len(before) : before[i] \in Shapes /\ ~ShapesOverlap(d, before[i])
  BY OverlapIsSymmetric, ElementOfSeq
<1> HIDE DEF old
<1> SUFFICES ASSUME NEW i \in 1 .. Len(after), NEW j \in 1 .. Len(after), i # j
             PROVE  ~ShapesOverlap(after[i], after[j])
  BY DEF Apart
<1>5. CASE i = k
  BY <1>2, <1>4, <1>5
<1>6. CASE j = k
  BY <1>2, <1>6
<1>7. CASE i # k /\ j # k
  BY <1>2, <1>3, <1>7 DEF Apart
<1> QED BY <1>5, <1>6, <1>7

\* A strict overload may stand beside strict ones, another one alone.
LEMMA InsertedStrict ==
  ASSUME NEW before \in Seq(Shapes), NEW d \in Shapes, NEW after, Inserted(after, before, d),
         \/ before = <<>>
         \/ d.strict /\ \A i \in 1 .. Len(before) : before[i].strict
  PROVE  NonStrictAlone(after)
<1>1. CASE before = <<>>
  BY <1>1 DEF Inserted, NonStrictAlone
<1>2. CASE d.strict /\ \A i \in 1 .. Len(before) : before[i].strict
  <2> PICK k \in 1 .. Len(after) :
         /\ after[k] = d
         /\ \A i \in 1 .. k - 1 : after[i] = before[i]
         /\ \A i \in k + 1 .. Len(after) : after[i] = before[i - 1]
    BY DEF Inserted
  <2>1. /\ Len(before) \in Nat /\ Len(after) = Len(before) + 1 /\ k \in Nat
    BY LenProperties DEF Inserted
  <2>2. \A i \in 1 .. Len(after) : after[i].strict
    <3> TAKE i \in 1 .. Len(after)
    <3>1. CASE i = k
      BY <1>2, <3>1
    <3>2. CASE i < k
      BY <1>2, <2>1, <3>2
    <3>3. CASE i > k
      BY <1>2, <2>1, <3>3
    <3> QED BY <2>1, <3>1, <3>2, <3>3
  <2> QED BY <2>2 DEF NonStrictAlone
<1> QED BY <1>1, <1>2

-----------------------------------------------------------------------------
(* The registries.                                                          *)

RegistryInv ==
  /\ functions \in [FunctionNames -> [static : Seq(Shapes), lazy : Seq(Shapes)]]
  /\ activationFunctions \in [FunctionNames -> Seq(Shapes)]
  /\ \A f \in FunctionNames :
       /\ Apart(Overloads(f))
       /\ NonStrictAlone(Overloads(f))
       /\ Apart(activationFunctions[f])

LEMMA OverloadsType ==
  ASSUME functions \in [FunctionNames -> [static : Seq(Shapes), lazy : Seq(Shapes)]],
         NEW f \in FunctionNames
  PROVE  /\ functions[f].static \in Seq(Shapes)
         /\ functions[f].lazy \in Seq(Shapes)
         /\ Overloads(f) \in Seq(Shapes)
         /\ DOMAIN Overloads(f) = 1 .. Len(Overloads(f))
BY ConcatProperties, LenProperties DEF Overloads

\* What Register and RegisterLazyFunction check before they add an overload.
LEMMA AcceptableMeans ==
  ASSUME RegistryInv, NEW f \in FunctionNames, NEW d \in Shapes, Acceptable(f, d)
  PROVE  /\ \A i \in 1 .. Len(Overloads(f)) : ~ShapesOverlap(Overloads(f)[i], d)
         /\ \/ Overloads(f) = <<>>
            \/ d.strict /\ \A i \in 1 .. Len(Overloads(f)) : Overloads(f)[i].strict
<1> DEFINE s == functions[f].static
           t == functions[f].lazy
<1>1. /\ s \in Seq(Shapes) /\ t \in Seq(Shapes) /\ Overloads(f) \in Seq(Shapes)
      /\ DOMAIN Overloads(f) = 1 .. Len(Overloads(f)) /\ Overloads(f) = s \o t
      /\ Len(s) \in Nat /\ Len(t) \in Nat /\ DOMAIN s = 1 .. Len(s) /\ DOMAIN t = 1 .. Len(t)
  BY OverloadsType, LenProperties DEF RegistryInv, Overloads
<1>2. \A i \in 1 .. Len(Overloads(f)) : ~ShapesOverlap(Overloads(f)[i], d)
  BY <1>1 DEF Acceptable, DescriptorRegistered, ShapesOverlap
<1>3. CASE d.strict /\ FirstIsStrict(s) /\ FirstIsStrict(t)
  <2> SUFFICES ASSUME NEW i \in 1 .. Len(Overloads(f)), ~Overloads(f)[i].strict
               PROVE  FALSE
    BY <1>2, <1>3
  <2> HIDE DEF s, t
  <2>1. /\ Len(s \o t) = Len(s) + Len(t)
        /\ \A j \in 1 .. Len(s) + Len(t) : (s \o t)[j] = IF j <= Len(s) THEN s[j] ELSE t[j - Len(s)]
    BY <1>1, ConcatProperties
  <2>2. Len(Overloads(f)) = 1 /\ i = 1
    BY DEF RegistryInv, NonStrictAlone
  <2>3. CASE Len(s) = 0
    <3>1. 1 \in DOMAIN t /\ Overloads(f)[1] = t[1]
      BY <1>1, <2>1, <2>2, <2>3
    <3> QED BY <1>3, <2>2, <3>1 DEF FirstIsStrict
  <2>4. CASE Len(s) # 0
    <3>1. 1 \in DOMAIN s /\ Overloads(f)[1] = s[1]
      BY <1>1, <2>1, <2>2, <2>4
    <3> QED BY <1>3, <2>2, <3>1 DEF FirstIsStrict
  <2> QED BY <2>3, <2>4
<1> QED BY <1>2, <1>3 DEF Acceptable, ValidateNonStrictOverload

LEMMA DescriptorIsShape == \A d \in Descriptors : d \in Shapes
BY RegistryAssumption DEF Shapes

\* Registering an overload keeps the overloads of its name apart.
LEMMA RegisteredKeeps ==
  ASSUME RegistryInv, NEW f \in FunctionNames, NEW d \in Shapes, Acceptable(f, d),
         functions' \in [FunctionNames -> [static : Seq(Shapes), lazy : Seq(Shapes)]],
         Inserted(Overloads(f)', Overloads(f), d),
         \A g \in FunctionNames \ {f} : functions'[g] = functions[g],
         UNCHANGED activationFunctions
  PROVE  RegistryInv'
<1>1. Overloads(f) \in Seq(Shapes)
  BY OverloadsType DEF RegistryInv
<1> DEFINE after == Overloads(f)'
<1>2. Inserted(after, Overloads(f), d)
  OBVIOUS
<1> HIDE DEF after
<1>3. Apart(after)
  BY <1>1, <1>2, AcceptableMeans, InsertedApart DEF RegistryInv
<1>4. NonStrictAlone(after)
  BY <1>1, <1>2, AcceptableMeans, InsertedStrict
<1>5. \A g \in FunctionNames \ {f} : Overloads(g)' = Overloads(g)
  BY DEF Overloads
<1>6. \A g \in FunctionNames : Apart(Overloads(g)') /\ NonStrictAlone(Overloads(g)')
  BY <1>3, <1>4, <1>5 DEF RegistryInv, after
<1> QED BY <1>6 DEF RegistryInv, Apart, NonStrictAlone

LEMMA RegistryStep ==
  ASSUME RegistryInv, RegistryNext \/ UNCHANGED registryVars
  PROVE  RegistryInv'
<1>1. CASE UNCHANGED registryVars
  BY <1>1 DEF registryVars, RegistryInv, Apart, NonStrictAlone, Overloads
<1>2. ASSUME NEW f \in FunctionNames, NEW d \in Descriptors, Register(f, d)
      PROVE  RegistryInv'
  <2>1. /\ functions' = [functions EXCEPT ![f].static = Append(@, d)]
        /\ UNCHANGED activationFunctions /\ Acceptable(f, d) /\ d \in Shapes
    BY <1>2, DescriptorIsShape DEF Register
  <2>2. functions[f].static \in Seq(Shapes) /\ functions[f].lazy \in Seq(Shapes)
    BY OverloadsType DEF RegistryInv
  <2>3. Append(functions[f].static, d) \in Seq(Shapes)
    BY <2>1, <2>2, AppendProperties
  <2>4. /\ functions' \in [FunctionNames -> [static : Seq(Shapes), lazy : Seq(Shapes)]]
        /\ functions'[f].static = Append(functions[f].static, d)
        /\ functions'[f].lazy = functions[f].lazy
        /\ \A g \in FunctionNames \ {f} : functions'[g] = functions[g]
    BY <2>1, <2>3 DEF RegistryInv
  <2>5. Inserted(Overloads(f)', Overloads(f), d)
    BY <2>1, <2>2, <2>4, InsertedStatic DEF Overloads
  <2> QED BY <2>1, <2>4, <2>5, RegisteredKeeps
<1>3. ASSUME NEW f \in FunctionNames, NEW d \in Descriptors, RegisterLazyFunction(f, d)
      PROVE  RegistryInv'
  <2>1. /\ functions' = [functions EXCEPT ![f].lazy = Append(@, d)]
        /\ UNCHANGED activationFunctions /\ Acceptable(f, d) /\ d \in Shapes
    BY <1>3, DescriptorIsShape DEF RegisterLazyFunction
  <2>2. functions[f].static \in Seq(Shapes) /\ functions[f].lazy \in Seq(Shapes)
    BY OverloadsType DEF RegistryInv
  <2>3. Append(functions[f].lazy, d) \in Seq(Shapes)
    BY <2>1, <2>2, AppendProperties
  <2>4. /\ functions' \in [FunctionNames -> [static : Seq(Shapes), lazy : Seq(Shapes)]]
        /\ functions'[f].static = functions[f].static
        /\ functions'[f].lazy = Append(functions[f].lazy, d)
        /\ \A g \in FunctionNames \ {f} : functions'[g] = functions[g]
    BY <2>1, <2>3 DEF RegistryInv
  <2>5. Overloads(f)' = Append(Overloads(f), d)
    <3> DEFINE s == functions[f].static
               t == functions[f].lazy
    <3>1. s \o Append(t, d) = Append(s \o t, d)
      <4> HIDE DEF s, t
      <4>1. s \in Seq(Shapes) /\ t \in Seq(Shapes) /\ d \in Shapes /\ <<d>> \in Seq(Shapes)
        BY <2>1, <2>2 DEF s, t
      <4>2. s \o t \in Seq(Shapes)
        BY <4>1, ConcatProperties
      <4>3. Append(t, d) = t \o <<d>> /\ Append(s \o t, d) = (s \o t) \o <<d>>
        BY <4>1, <4>2, AppendIsConcat
      <4> QED BY <4>1, <4>3, ConcatAssociative
    <3> QED BY <2>4, <3>1 DEF Overloads
  <2>6. Inserted(Overloads(f)', Overloads(f), d)
    BY <2>1, <2>5, InsertedLast, OverloadsType DEF RegistryInv
  <2> QED BY <2>1, <2>4, <2>6, RegisteredKeeps
<1>4. ASSUME NEW f \in FunctionNames, NEW d \in Descriptors, InsertFunction(f, d)
      PROVE  RegistryInv'
  <2> DEFINE before == activationFunctions[f]
             after  == Append(before, d)
  <2>1. /\ activationFunctions' = [activationFunctions EXCEPT ![f] = after]
        /\ UNCHANGED functions /\ d \in Shapes
        /\ before \in Seq(Shapes) /\ DOMAIN before = 1 .. Len(before)
        /\ after \in Seq(Shapes)
    BY <1>4, DescriptorIsShape, AppendProperties, LenProperties DEF InsertFunction, RegistryInv
  <2>2. \A i \in 1 .. Len(before) : ~ShapesOverlap(before[i], d)
    BY <1>4, <2>1 DEF InsertFunction, ShapesOverlap
  <2>3. Inserted(after, before, d)
    BY <2>1, InsertedLast
  <2>4. Apart(before)
    BY DEF RegistryInv
  <2> HIDE DEF before, after
  <2>5. Apart(after)
    BY <2>1, <2>2, <2>3, <2>4, InsertedApart
  <2>6. /\ activationFunctions' \in [FunctionNames -> Seq(Shapes)]
        /\ \A g \in FunctionNames : Apart(activationFunctions'[g])
    BY <2>1, <2>5 DEF RegistryInv
  <2>7. \A g \in FunctionNames : Overloads(g)' = Overloads(g)
    BY <2>1 DEF Overloads
  <2> QED BY <2>1, <2>6, <2>7 DEF RegistryInv, Apart, NonStrictAlone
<1>5. ASSUME NEW f \in FunctionNames, NEW d \in Descriptors, RegistrationRefused(f, d)
      PROVE  UNCHANGED registryVars
  BY <1>5 DEF RegistrationRefused
<1> QED BY <1>1, <1>2, <1>3, <1>4, <1>5 DEF RegistryNext

\* A call of known kinds finds one overload among those that stand apart.
LEMMA RegistryMeans ==
  ASSUME RegistryInv
  PROVE  CallIsUnambiguous /\ NonStrictIsAlone /\ AmbiguousOnlyByAny
<1>1. CallIsUnambiguous
  <2> SUFFICES ASSUME NEW f \in FunctionNames,
                      NEW i \in DOMAIN Overloads(f), NEW j \in DOMAIN Overloads(f), i # j,
                      NEW args \in Arguments(Overloads(f)[i]),
                      ShapeMatches(Overloads(f)[i], Overloads(f)[i].receiver, args),
                      ShapeMatches(Overloads(f)[j], Overloads(f)[i].receiver, args)
               PROVE  FALSE
    BY DEF CallIsUnambiguous
  <2> DEFINE d == Overloads(f)[i]
             e == Overloads(f)[j]
  <2>1. i \in 1 .. Len(Overloads(f)) /\ j \in 1 .. Len(Overloads(f)) /\ Overloads(f) \in Seq(Shapes)
    BY OverloadsType DEF RegistryInv
  <2>2. d \in Shapes /\ e \in Shapes
    BY <2>1, ElementOfSeq
  <2>3. ~ShapesOverlap(d, e)
    BY <2>1 DEF RegistryInv, Apart
  <2> DEFINE n == Len(d.types)
  <2>4. n \in Nat /\ args \in [1 .. n -> Kinds \ {"any"}]
    BY <2>2, LenProperties DEF Arguments, Shapes
  <2> HIDE DEF d, e, n
  <2>5. args \in Seq(Kinds) /\ \A k \in 1 .. Len(args) : args[k] # "any"
    BY <2>4
  <2> QED BY <2>2, <2>3, <2>5, CommonCallOverlaps DEF d, e
<1>2. NonStrictIsAlone
  BY OverloadsType DEF RegistryInv, NonStrictIsAlone, NonStrictAlone
<1>3. AmbiguousOnlyByAny
  <2> SUFFICES ASSUME NEW f \in FunctionNames, NEW l \in DOMAIN functions[f].lazy,
                      GetFunction(f, functions[f].lazy[l]).found = "ambiguous",
                      ~ \E k \in DOMAIN functions[f].lazy[l].types :
                          functions[f].lazy[l].types[k] = "any"
               PROVE  FALSE
    BY DEF AmbiguousOnlyByAny
  <2> DEFINE d         == functions[f].lazy[l]
             overloads == activationFunctions[f]
             matching  == FindOverloads(overloads, d.receiver, d.types)
  <2>1. d \in Shapes
    BY OverloadsType, ElementOfSeq, LenProperties DEF RegistryInv
  <2>2. overloads \in Seq(Shapes) /\ DOMAIN overloads = 1 .. Len(overloads) /\ Apart(overloads)
    BY LenProperties DEF RegistryInv
  <2>3. matching # {} /\ ~ \E i \in matching : matching = {i}
    BY DEF GetFunction
  <2> PICK i \in matching, j \in matching : i # j
    BY <2>3
  <2>4. /\ i \in 1 .. Len(overloads) /\ j \in 1 .. Len(overloads)
        /\ ShapeMatches(overloads[i], d.receiver, d.types)
        /\ ShapeMatches(overloads[j], d.receiver, d.types)
    BY <2>2 DEF FindOverloads
  <2>5. d.types \in Seq(Kinds) /\ \A k \in 1 .. Len(d.types) : d.types[k] # "any"
    BY <2>1, LenProperties DEF Shapes
  <2>6. overloads[i] \in Shapes /\ overloads[j] \in Shapes
    BY <2>2, <2>4, ElementOfSeq
  <2>7. ShapesOverlap(overloads[i], overloads[j])
    BY <2>4, <2>5, <2>6, CommonCallOverlaps
  <2> QED BY <2>2, <2>4, <2>7 DEF Apart
<1> QED BY <1>1, <1>2, <1>3

-----------------------------------------------------------------------------
(* The environment.                                                         *)

Tables == {NoTable} \cup {Table(enums) : enums \in SUBSET Enums}

EnvTypeOK ==
  /\ enumTypes \in SUBSET Enums
  /\ registering \in SUBSET Enums
  /\ factory \in Nat
  /\ created \in Nat
  /\ cache \in [Keys -> Nat]
  /\ at \in [Planners -> Places]
  /\ plans \in [Planners -> Nat]
  /\ table \in [Planners -> Tables]
  /\ pointers \in [Planners -> [factory : Nat, cached : [Keys -> Nat]]]

\* The memoised table holds every enum: nobody is in GetEnumValueTable between
\* the two steps of RegisterEnum, so nobody memoises a table without the enum.
TablesInv ==
  /\ registering # {} => enumTable = NoTable /\ \A p \in Planners : ~LookingUp(p)
  /\ enumTable \in {NoTable, Table(enumTypes)}

\* The pointer read without the lock is the owner's, and a planner about to
\* create the factory holds the lock and knows that there is none.
FactoryInv ==
  /\ factoryPtr = factory
  /\ \A p \in Planners : at[p] = "create" => factoryMutex = p /\ factory = Null

EnvInv == EnvTypeOK /\ TablesInv /\ FactoryInv /\ PointersStayValid

LEMMA EnvInitially ==
  ASSUME EnvInit
  PROVE  EnvInv
BY DEF EnvInit, EnvInv, EnvTypeOK, TablesInv, FactoryInv, PointersStayValid, Tables, Places,
       NoPointers, Null

LEMMA DropTableKeeps ==
  ASSUME EnvInv, NEW e \in Enums, \A p \in Planners : ~LookingUp(p), DropTable(e)
  PROVE  EnvInv'
BY DEF DropTable, DroppedTable, LookingUp, EnvInv, EnvTypeOK, TablesInv, FactoryInv,
       PointersStayValid

LEMMA AddEnumKeeps ==
  ASSUME EnvInv, NEW e \in Enums, AddEnum(e)
  PROVE  EnvInv'
BY DEF AddEnum, LookingUp, EnvInv, EnvTypeOK, TablesInv, FactoryInv, PointersStayValid

LEMMA StartPlanKeeps ==
  ASSUME EnvInv, NEW p \in Planners, registering = {}, StartPlan(p)
  PROVE  EnvInv'
BY DEF StartPlan, LookingUp, Goto, EnvInv, EnvTypeOK, TablesInv, FactoryInv, PointersStayValid, Places

\* A planner takes the memoised table, which holds every enum.
LEMMA TakenTable ==
  ASSUME EnvInv, enumTable # NoTable
  PROVE  enumTable = Table(enumTypes) /\ enumTable \in Tables
BY DEF EnvInv, TablesInv, EnvTypeOK, Tables

LEMMA ReadTableKeeps ==
  ASSUME EnvInv, NEW p \in Planners, ReadTable(p)
  PROVE  EnvInv'
<1>1. /\ at[p] = "reader"
      /\ \/ /\ enumTable # NoTable
            /\ table' = [table EXCEPT ![p] = enumTable]
            /\ at' = [at EXCEPT ![p] = "planning"]
         \/ at' = [at EXCEPT ![p] = "writer"] /\ UNCHANGED table
      /\ UNCHANGED <<enumTypes, registering, enumTable, factory, factoryPtr, factoryMutex, cache,
                     created, plans, pointers>>
  BY DEF ReadTable, Goto
<1>2. EnvTypeOK'
  BY <1>1, TakenTable DEF EnvInv, EnvTypeOK, Places
<1>3. TablesInv'
  BY <1>1, TakenTable DEF EnvInv, TablesInv, LookingUp, EnvTypeOK
<1>4. FactoryInv' /\ PointersStayValid'
  BY <1>1 DEF EnvInv, FactoryInv, PointersStayValid, EnvTypeOK
<1> QED BY <1>2, <1>3, <1>4 DEF EnvInv

LEMMA RereadTableKeeps ==
  ASSUME EnvInv, NEW p \in Planners, RereadTable(p)
  PROVE  EnvInv'
<1>1. /\ at[p] = "writer"
      /\ \/ /\ enumTable # NoTable
            /\ table' = [table EXCEPT ![p] = enumTable]
            /\ at' = [at EXCEPT ![p] = "planning"]
         \/ at' = [at EXCEPT ![p] = "build"] /\ UNCHANGED table
      /\ UNCHANGED <<enumTypes, registering, enumTable, factory, factoryPtr, factoryMutex, cache,
                     created, plans, pointers>>
  BY DEF RereadTable, Goto
<1>2. EnvTypeOK'
  BY <1>1, TakenTable DEF EnvInv, EnvTypeOK, Places
<1>3. TablesInv'
  BY <1>1, TakenTable DEF EnvInv, TablesInv, LookingUp, EnvTypeOK
<1>4. FactoryInv' /\ PointersStayValid'
  BY <1>1 DEF EnvInv, FactoryInv, PointersStayValid, EnvTypeOK
<1> QED BY <1>2, <1>3, <1>4 DEF EnvInv

LEMMA BuildTableKeeps ==
  ASSUME EnvInv, NEW p \in Planners, BuildTable(p)
  PROVE  EnvInv'
BY DEF BuildTable, LookingUp, Goto, EnvInv, EnvTypeOK, TablesInv, FactoryInv,
       PointersStayValid, Places, Tables

\* A planner given the factory points at the one the environment owns.
LEMMA PointedAtFactory ==
  ASSUME EnvInv, NEW p \in Planners, NEW f \in Nat, PointAtFactory(p, f)
  PROVE  /\ pointers' \in [Planners -> [factory : Nat, cached : [Keys -> Nat]]]
         /\ pointers'[p].factory = f
         /\ pointers'[p].cached = pointers[p].cached
         /\ \A q \in Planners \ {p} : pointers'[q] = pointers[q]
         /\ at' = [at EXCEPT ![p] = "planning"]
<1>1. pointers' = [pointers EXCEPT ![p].factory = f] /\ at' = [at EXCEPT ![p] = "planning"]
  BY DEF PointAtFactory, Goto
<1>2. pointers \in [Planners -> [factory : Nat, cached : [Keys -> Nat]]]
  BY DEF EnvInv, EnvTypeOK
<1> QED BY <1>1, <1>2

\* What the others see when a planner p goes on with the factory: nothing that is
\* shared changes, and p points at the factory or at what it pointed at.
LEMMA PointedKeeps ==
  ASSUME EnvInv, NEW p \in Planners, PointAtFactory(p, factory), at[p] \in {"planning", "slow"},
         UNCHANGED <<enumTypes, registering, enumTable, factory, factoryPtr, factoryMutex, cache,
                     created, plans, table>>
  PROVE  EnvInv'
<1>1. factory \in Nat
  BY DEF EnvInv, EnvTypeOK
<1>2. /\ pointers' \in [Planners -> [factory : Nat, cached : [Keys -> Nat]]]
      /\ pointers'[p].factory = factory /\ pointers'[p].cached = pointers[p].cached
      /\ \A q \in Planners \ {p} : pointers'[q] = pointers[q]
      /\ at' = [at EXCEPT ![p] = "planning"]
  BY <1>1, PointedAtFactory
<1>3. at' \in [Planners -> Places] /\ \A q \in Planners : at'[q] = at[q] \/ at'[q] = "planning"
  BY <1>2 DEF EnvInv, EnvTypeOK, Places
<1>4. EnvTypeOK'
  BY <1>2, <1>3 DEF EnvInv, EnvTypeOK
<1>5. TablesInv'
  BY <1>3 DEF EnvInv, TablesInv, LookingUp
<1>6. FactoryInv'
  BY <1>3 DEF EnvInv, FactoryInv
<1>7. PointersStayValid'
  <2> SUFFICES ASSUME NEW q \in Planners
               PROVE  /\ pointers'[q].factory \in {Null, factory}
                      /\ \A k \in Keys : pointers'[q].cached[k] \in {Null, cache[k]}
    BY DEF PointersStayValid
  <2>1. /\ pointers[q].factory \in {Null, factory}
        /\ \A k \in Keys : pointers[q].cached[k] \in {Null, cache[k]}
    BY DEF EnvInv, PointersStayValid
  <2> QED BY <1>2, <2>1
<1> QED BY <1>4, <1>5, <1>6, <1>7 DEF EnvInv

\* A planner that finds no factory goes on without one.
LEMMA WentOnKeeps ==
  ASSUME EnvInv, NEW p \in Planners, NEW place \in {"slow", "create"},
         at' = [at EXCEPT ![p] = place],
         place = "create" => factoryMutex' = p /\ factory = Null,
         \A q \in Planners \ {p} : at[q] = "create" => factoryMutex' = factoryMutex,
         UNCHANGED <<enumTypes, registering, enumTable, factory, factoryPtr, cache, created,
                     plans, table, pointers>>
  PROVE  EnvInv'
<1>1. at' \in [Planners -> Places] /\ at'[p] = place
      /\ \A q \in Planners \ {p} : at'[q] = at[q]
  BY DEF EnvInv, EnvTypeOK, Places
<1>2. EnvTypeOK' /\ PointersStayValid'
  BY <1>1 DEF EnvInv, EnvTypeOK, PointersStayValid
<1>3. TablesInv'
  BY <1>1 DEF EnvInv, TablesInv, LookingUp
<1>4. FactoryInv'
  BY <1>1 DEF EnvInv, FactoryInv
<1> QED BY <1>2, <1>3, <1>4 DEF EnvInv

LEMMA LoadFactoryKeeps ==
  ASSUME EnvInv, NEW p \in Planners, LoadFactory(p)
  PROVE  EnvInv'
<1>1. /\ at[p] = "planning"
      /\ \/ PointAtFactory(p, factory)
         \/ at' = [at EXCEPT ![p] = "slow"] /\ UNCHANGED pointers
      /\ UNCHANGED <<enumTypes, registering, enumTable, factory, factoryPtr, factoryMutex, cache,
                     created, plans, table>>
  BY DEF LoadFactory, Goto, EnvInv, FactoryInv
<1>2. CASE PointAtFactory(p, factory)
  BY <1>1, <1>2, PointedKeeps
<1>3. CASE at' = [at EXCEPT ![p] = "slow"] /\ UNCHANGED pointers
  BY <1>1, <1>3, WentOnKeeps
<1> QED BY <1>1, <1>2, <1>3

LEMMA LockFactoryKeeps ==
  ASSUME EnvInv, NEW p \in Planners, LockFactory(p)
  PROVE  EnvInv'
<1>1. /\ at[p] = "slow" /\ factoryMutex = NoOne
      /\ \/ PointAtFactory(p, factory) /\ UNCHANGED factoryMutex
         \/ /\ factory = Null
            /\ factoryMutex' = p
            /\ at' = [at EXCEPT ![p] = "create"]
            /\ UNCHANGED pointers
      /\ UNCHANGED <<enumTypes, registering, enumTable, factory, factoryPtr, cache, created,
                     plans, table>>
  BY DEF LockFactory, Reloaded, Goto, EnvInv, FactoryInv
<1>2. \A q \in Planners : at[q] # "create"
  BY <1>1, RuntimeEnvAssumption DEF EnvInv, FactoryInv
<1>3. CASE PointAtFactory(p, factory) /\ UNCHANGED factoryMutex
  BY <1>1, <1>3, PointedKeeps
<1>4. CASE /\ factory = Null
           /\ factoryMutex' = p
           /\ at' = [at EXCEPT ![p] = "create"]
           /\ UNCHANGED pointers
  BY <1>1, <1>2, <1>4, WentOnKeeps
<1> QED BY <1>1, <1>3, <1>4

LEMMA CreateFactoryKeeps ==
  ASSUME EnvInv, NEW p \in Planners, CreateFactory(p)
  PROVE  EnvInv'
<1>1. /\ at[p] = "create"
      /\ created' = created + 1 /\ factory' = created + 1 /\ factoryPtr' = created + 1
      /\ PointAtFactory(p, created + 1)
      /\ UNCHANGED <<enumTypes, registering, enumTable, cache, plans, table>>
  BY DEF CreateFactory
<1>2. created + 1 \in Nat
  BY DEF EnvInv, EnvTypeOK
<1>3. factory = Null /\ \A q \in Planners \ {p} : at[q] # "create"
  BY <1>1 DEF EnvInv, FactoryInv
<1>4. EnvTypeOK'
  BY <1>1, <1>2, PointedAtFactory DEF EnvInv, EnvTypeOK, Places
<1>5. TablesInv'
  BY <1>1, <1>2, PointedAtFactory DEF EnvInv, TablesInv, LookingUp, EnvTypeOK
<1>6. FactoryInv'
  BY <1>1, <1>2, <1>3, PointedAtFactory DEF EnvInv, FactoryInv, EnvTypeOK
<1>7. PointersStayValid'
  BY <1>1, <1>2, <1>3, PointedAtFactory DEF EnvInv, PointersStayValid
<1> QED BY <1>4, <1>5, <1>6, <1>7 DEF EnvInv

LEMMA GetCachedKeeps ==
  ASSUME EnvInv, NEW p \in Planners, NEW k \in Keys, GetCached(p, k)
  PROVE  EnvInv'
<1>1. UNCHANGED <<enumTypes, registering, enumTable, factory, factoryPtr, factoryMutex, at, plans,
                  table>>
  BY DEF GetCached
<1>2. created \in Nat /\ cache \in [Keys -> Nat]
      /\ pointers \in [Planners -> [factory : Nat, cached : [Keys -> Nat]]]
  BY DEF EnvInv, EnvTypeOK
<1>3. \/ UNCHANGED <<cache, created, pointers>>
      \/ \E object \in Nat :
           /\ cache' \in [Keys -> Nat] /\ created' \in Nat
           /\ cache'[k] = object
           /\ \A l \in Keys : l # k \/ cache[k] # Null => cache'[l] = cache[l]
           /\ pointers' = [pointers EXCEPT ![p].cached[k] = object]
  <2>1. CASE cache[k] = Null /\ cache' # cache
    BY <1>2, <2>1 DEF GetCached, Missing
  <2>2. CASE cache[k] # Null
    BY <1>2, <2>2 DEF GetCached, Missing
  <2>3. CASE cache[k] = Null /\ cache' = cache
    BY <1>2, <2>3 DEF GetCached, Missing
  <2> QED BY <2>1, <2>2, <2>3
<1>4. TablesInv' /\ FactoryInv'
  BY <1>1 DEF EnvInv, TablesInv, LookingUp, FactoryInv
<1>5. CASE UNCHANGED <<cache, created, pointers>>
  BY <1>1, <1>4, <1>5 DEF EnvInv, EnvTypeOK, PointersStayValid
<1>6. ASSUME NEW object \in Nat,
             cache' \in [Keys -> Nat], created' \in Nat,
             cache'[k] = object,
             \A l \in Keys : l # k \/ cache[k] # Null => cache'[l] = cache[l],
             pointers' = [pointers EXCEPT ![p].cached[k] = object]
      PROVE  EnvInv'
  <2>1. /\ pointers' \in [Planners -> [factory : Nat, cached : [Keys -> Nat]]]
        /\ \A q \in Planners : pointers'[q].factory = pointers[q].factory
        /\ \A q \in Planners, l \in Keys :
             pointers'[q].cached[l] = IF q = p /\ l = k THEN object ELSE pointers[q].cached[l]
    BY <1>2, <1>6
  <2>2. EnvTypeOK'
    BY <1>1, <1>6, <2>1 DEF EnvInv, EnvTypeOK
  <2>3. PointersStayValid'
    <3> SUFFICES ASSUME NEW q \in Planners, NEW l \in Keys
                 PROVE  /\ pointers'[q].factory \in {Null, factory'}
                        /\ pointers'[q].cached[l] \in {Null, cache'[l]}
      <4>1. \A q \in Planners : pointers'[q].factory \in {Null, factory'}
        BY <1>1, <2>1 DEF EnvInv, PointersStayValid
      <4> QED BY <4>1 DEF PointersStayValid
    <3>1. pointers[q].factory \in {Null, factory} /\ pointers[q].cached[l] \in {Null, cache[l]}
      BY DEF EnvInv, PointersStayValid
    <3>2. CASE l = k /\ cache[k] = Null
      BY <1>1, <1>6, <2>1, <3>1, <3>2
    <3>3. CASE l # k \/ cache[k] # Null
      BY <1>1, <1>6, <2>1, <3>1, <3>3
    <3> QED BY <3>2, <3>3
  <2> QED BY <1>4, <2>2, <2>3 DEF EnvInv
<1> QED BY <1>3, <1>5, <1>6

LEMMA EndPlanKeeps ==
  ASSUME EnvInv, NEW p \in Planners, EndPlan(p)
  PROVE  EnvInv'
BY DEF EndPlan, LookingUp, Goto, EnvInv, EnvTypeOK, TablesInv, FactoryInv, PointersStayValid,
       Places, Tables

LEMMA EnvStep ==
  ASSUME EnvInv, EnvNext \/ UNCHANGED envVars
  PROVE  EnvInv'
<1>1. CASE UNCHANGED envVars
  BY <1>1 DEF envVars, EnvInv, EnvTypeOK, TablesInv, LookingUp, FactoryInv, PointersStayValid
<1>2. ASSUME NEW e \in Enums, ((\A p \in Planners : ~LookingUp(p)) /\ DropTable(e)) \/ AddEnum(e)
      PROVE  EnvInv'
  BY <1>2, DropTableKeeps, AddEnumKeeps
<1>3. ASSUME NEW p \in Planners, (registering = {} /\ StartPlan(p)) \/ PlanStep(p) PROVE EnvInv'
  BY <1>3, StartPlanKeeps, ReadTableKeeps, RereadTableKeeps, BuildTableKeeps, LoadFactoryKeeps,
     LockFactoryKeeps, CreateFactoryKeeps, GetCachedKeeps, EndPlanKeeps DEF PlanStep
<1> QED BY <1>1, <1>2, <1>3 DEF EnvNext

-----------------------------------------------------------------------------
(* The runtime.                                                             *)

SetupInv == RegistryInv /\ EnvInv

LEMMA RegistryInitially ==
  ASSUME RegistryInit
  PROVE  RegistryInv
<1>1. /\ functions \in [FunctionNames -> [static : Seq(Shapes), lazy : Seq(Shapes)]]
      /\ activationFunctions \in [FunctionNames -> Seq(Shapes)]
  BY EmptySeq DEF RegistryInit, NoOverloads
<1>2. \A f \in FunctionNames : Overloads(f) = <<>> /\ activationFunctions[f] = <<>>
  BY ConcatEmptySeq, EmptySeq DEF RegistryInit, NoOverloads, Overloads
<1> QED BY <1>1, <1>2 DEF RegistryInv, Apart, NonStrictAlone

THEOREM SetupInvariance == Spec => []SetupInv
<1>1. Init => SetupInv
  BY EnvInitially, RegistryInitially DEF Init, SetupInv
<1>2. SetupInv /\ [Next]_setupVars => SetupInv'
  <2> SUFFICES ASSUME SetupInv, [Next]_setupVars
               PROVE  SetupInv'
    OBVIOUS
  <2>1. /\ RegistryNext \/ UNCHANGED registryVars
        /\ EnvNext \/ UNCHANGED envVars
    BY DEF Next, Terminated, setupVars, registryVars
  <2> QED BY <2>1, RegistryStep, EnvStep DEF SetupInv
<1> QED BY <1>1, <1>2, PTL DEF Spec

\* A call of known kinds has one overload at most, whatever was registered, in
\* whatever order: DescriptorRegistered compares each new overload with all.
THEOREM CallsAreUnambiguous == Spec => []CallIsUnambiguous
<1>1. SetupInv => CallIsUnambiguous
  BY RegistryMeans DEF SetupInv
<1> QED BY <1>1, SetupInvariance, PTL

\* ValidateNonStrictOverload looks at the first overload of each sort only, and
\* that is enough.
THEOREM NonStrictStaysAlone == Spec => []NonStrictIsAlone
<1>1. SetupInv => NonStrictIsAlone
  BY RegistryMeans DEF SetupInv
<1> QED BY <1>1, SetupInvariance, PTL

\* A lazy overload without "any" arguments resolves, whatever the activation
\* holds.
THEOREM LazyCallsAreUnambiguous == Spec => []AmbiguousOnlyByAny
<1>1. SetupInv => AmbiguousOnlyByAny
  BY RegistryMeans DEF SetupInv
<1> QED BY <1>1, SetupInvariance, PTL

\* The double-checked memoisation of the enum table never serves a stale one, to
\* planners that take it and to those that build it, whoever plans meanwhile.
THEOREM TablesAreCurrent == Spec => TableIsCurrent
<1> DEFINE Current == \A p \in Planners :
                        LookingUp(p) /\ at'[p] = "planning" => table'[p] = Table(enumTypes)
<1>1. SetupInv /\ [Next]_setupVars => [Current]_envVars
  <2> SUFFICES ASSUME SetupInv, [Next]_setupVars, ~UNCHANGED envVars,
                      NEW p \in Planners, LookingUp(p), at'[p] = "planning"
               PROVE  table'[p] = Table(enumTypes)
    OBVIOUS
  <2>1. EnvNext
    BY DEF Next, Terminated, setupVars
  <2>2. EnvInv /\ at \in [Planners -> Places] /\ table \in [Planners -> Tables]
    BY DEF SetupInv, EnvInv, EnvTypeOK
  <2>3. at'[p] # at[p] /\ at[p] \in {"reader", "writer", "build"}
    BY DEF LookingUp
  <2>4. PICK q \in Planners : StartPlan(q) \/ PlanStep(q)
    BY <2>1, <2>3 DEF EnvNext, DropTable, AddEnum
  <2>5. ReadTable(p) \/ RereadTable(p) \/ BuildTable(p)
    BY <2>2, <2>3, <2>4 DEF StartPlan, PlanStep, ReadTable, RereadTable, BuildTable, LoadFactory,
       LockFactory, CreateFactory, GetCached, EndPlan, PointAtFactory, Goto
  <2>6. CASE ReadTable(p) \/ RereadTable(p)
    BY <2>2, <2>6, TakenTable DEF ReadTable, RereadTable, Goto
  <2>7. CASE BuildTable(p)
    BY <2>2, <2>7 DEF BuildTable
  <2> QED BY <2>5, <2>6, <2>7
<1> QED BY <1>1, SetupInvariance, PTL DEF Spec, TableIsCurrent

\* The double-checked creation of the message factory creates one, and no cache
\* replaces an entry: no pointer that was handed out dangles.
THEOREM PointersAreValid == Spec => []PointersStayValid
<1>1. SetupInv => PointersStayValid
  BY DEF SetupInv, EnvInv
<1> QED BY <1>1, SetupInvariance, PTL
=============================================================================
