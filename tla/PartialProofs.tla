---------------------------- MODULE PartialProofs ---------------------------
(***************************************************************************)
(* A result that is not unknown is the result, whatever the unknown         *)
(* attributes turn out to be.  Next to the evaluation runs, step by step,   *)
(* one with a completion of the inputs for which all is known: each entry   *)
(* of the one stack agrees with the entry of the other.  Either both are    *)
(* errors, or the first is unknown, or the two are equal, or both were read *)
(* at the same place of the inputs, whose unknown parts the trail reports.  *)
(***************************************************************************)
EXTENDS TrailProofs

-----------------------------------------------------------------------------
(* The values of the inputs: at a place, below it, and where two agree.    *)

\* What the proofs assume of ToString, an operator of the TLC module that has no
\* definition to prove it from: a value prints as a name, not as the wildcard,
\* and two indices print apart (absl::StrCat of a key in attribute.cc).
PrintsNames ==
  /\ \A v : ToString(v) \in Names
  /\ \A i, j \in Nat : ToString(i) = ToString(j) => i = j

LEMMA InputIsInput ==
  ASSUME NEW values \in Inputs
  PROVE  /\ DOMAIN values = {p[1] : p \in {q \in Places : Len(q) = 1}}
         /\ \A p \in Places :
              /\ IsValue(ValueAt(values, p))
              /\ p \in Scalars <=> ValueAt(values, p).kind \notin {"map", "list"}
              /\ \A q \in PartNames(ValueAt(values, p)) : Append(p, q) \in Places
              /\ \A others \in Inputs : SameShape(ValueAt(values, p), ValueAt(others, p))
BY InputsAssumption, Zenon

LEMMA PlacesAreAttributes ==
  /\ \A p \in Places : IsAttribute(p)
  /\ Scalars \subseteq Places
BY InputsAssumption, AttributeIsAttribute

LEMMA ValueFacts ==
  ASSUME NEW v, IsValue(v)
  PROVE  /\ v.kind \in Kinds
         /\ v = [kind |-> v.kind, content |-> v.content]
         /\ v.kind = "string" => v.content \in Names
         /\ v.kind = "map" => /\ DOMAIN v.content \subseteq Names
                              /\ v.content = [f \in DOMAIN v.content |-> v.content[f]]
                              /\ \A f \in DOMAIN v.content : IsValue(v.content[f])
         /\ v.kind = "list" => /\ Len(v.content) \in Nat
                               /\ v.content = [i \in 1 .. Len(v.content) |-> v.content[i]]
                               /\ \A i \in 1 .. Len(v.content) : IsValue(v.content[i])
BY ValuesAssumption, Zenon DEF IsValue

\* The values along a path, as ValueAt defines them.
ValuesAlong(values, path, n, at) ==
  at = [i \in 1 .. n |-> IF i = 1 THEN values[path[1]] ELSE Part(at[i - 1], path[i])]

LEMMA ValuesAlongExist ==
  ASSUME NEW values, NEW path, NEW n \in Nat
  PROVE  \E at : ValuesAlong(values, path, n, at)
<1> DEFINE S == {k \in Nat : \E at : ValuesAlong(values, path, k, at)}
<1>1. 0 \in S
  <2>1. 1 .. 0 = {}
    OBVIOUS
  <2>2. ValuesAlong(values, path, 0, [i \in {} |-> 0])
    BY <2>1 DEF ValuesAlong
  <2> QED BY <2>2
<1>2. ASSUME NEW k \in Nat, k \in S
      PROVE  k + 1 \in S
  <2>1. PICK at : ValuesAlong(values, path, k, at)
    BY <1>2
  <2>2. PICK new : new = [i \in 1 .. k + 1 |->
                            IF i = 1 THEN values[path[1]] ELSE Part(at[i - 1], path[i])]
    OBVIOUS
  <2>3. \A i \in 1 .. k : i \in 1 .. k + 1 /\ new[i] = at[i]
    BY <2>1, <2>2 DEF ValuesAlong
  <2>4. \A i \in 1 .. k + 1 : i # 1 => new[i - 1] = at[i - 1]
    BY <2>3
  <2>5. ValuesAlong(values, path, k + 1, new)
    BY <2>2, <2>4, Zenon DEF ValuesAlong
  <2> QED BY <2>5
<1> HIDE DEF S
<1>3. n \in S
  BY <1>1, <1>2, Induction
<1> QED BY <1>3 DEF S

LEMMA ValueAtIsLast ==
  ASSUME NEW values, NEW path, Len(path) \in Nat
  PROVE  \E at : /\ ValuesAlong(values, path, Len(path), at)
                 /\ ValueAt(values, path) = at[Len(path)]
<1> DEFINE at[i \in 1 .. Len(path)] == IF i = 1 THEN values[path[1]] ELSE Part(at[i - 1], path[i])
<1>1. ValueAt(values, path) = at[Len(path)]
  BY DEF ValueAt
<1>2. \E a : ValuesAlong(values, path, Len(path), a)
  BY ValuesAlongExist
<1>3. ValuesAlong(values, path, Len(path), at)
  BY <1>2 DEF ValuesAlong
<1> HIDE DEF at
<1> QED BY <1>1, <1>3

LEMMA ValueOfVariable ==
  ASSUME NEW values, NEW name \in Names
  PROVE  ValueAt(values, <<name>>) = values[name]
<1>1. Len(<<name>>) = 1 /\ <<name>>[1] = name
  OBVIOUS
<1>2. PICK at : ValuesAlong(values, <<name>>, 1, at) /\ ValueAt(values, <<name>>) = at[1]
  BY <1>1, ValueAtIsLast
<1> QED BY <1>1, <1>2 DEF ValuesAlong

\* Two that follow the same path agree on what they share.
SharePath(path, longer, n) == \A i \in 1 .. n : longer[i] = path[i]

LEMMA SharedValues ==
  ASSUME NEW values, NEW path, NEW longer, NEW n \in Nat, NEW k \in Nat, n <= k,
         SharePath(path, longer, n),
         NEW at, ValuesAlong(values, path, n, at),
         NEW far, ValuesAlong(values, longer, k, far)
  PROVE  n >= 1 => far[n] = at[n]
<1> DEFINE S == {i \in Nat : i \in 1 .. n => far[i] = at[i]}
<1>1. 0 \in S
  OBVIOUS
<1>2. ASSUME NEW i \in Nat, i \in S
      PROVE  i + 1 \in S
  <2> SUFFICES ASSUME i + 1 \in 1 .. n PROVE far[i + 1] = at[i + 1]
    OBVIOUS
  <2>1. i + 1 \in 1 .. k /\ 1 \in 1 .. n /\ (i + 1) - 1 = i
    OBVIOUS
  <2>2. far[i + 1] = IF i + 1 = 1 THEN values[longer[1]] ELSE Part(far[i], longer[i + 1])
    BY <2>1 DEF ValuesAlong
  <2>3. at[i + 1] = IF i + 1 = 1 THEN values[path[1]] ELSE Part(at[i], path[i + 1])
    BY <2>1 DEF ValuesAlong
  <2>4. i + 1 # 1 => far[i] = at[i]
    BY <1>2
  <2>5. longer[1] = path[1] /\ longer[i + 1] = path[i + 1]
    BY <2>1 DEF SharePath
  <2> QED BY <2>1, <2>2, <2>3, <2>4, <2>5
<1> HIDE DEF S
<1>3. n \in S
  BY <1>1, <1>2, Induction
<1> QED BY <1>3 DEF S

LEMMA ValueOfPart ==
  ASSUME NEW values, NEW path, IsAttribute(path), NEW name \in Names
  PROVE  ValueAt(values, Append(path, name)) = Part(ValueAt(values, path), name)
<1> PICK longer : longer = Append(path, name)
  OBVIOUS
<1> PICK n \in Nat : n = Len(path) /\ n >= 1
  BY AttributeFacts
<1> PICK k \in Nat : k = n + 1
  OBVIOUS
<1>1. /\ Len(longer) = k /\ longer[k] = name
      /\ \A i \in 1 .. n : longer[i] = path[i]
  BY AttributeFacts, NamesQualify, AppendProperties
<1>2. PICK at : ValuesAlong(values, path, n, at) /\ ValueAt(values, path) = at[n]
  BY ValueAtIsLast
<1>3. PICK far : ValuesAlong(values, longer, k, far) /\ ValueAt(values, longer) = far[k]
  BY <1>1, ValueAtIsLast
<1>4. n <= k /\ n \in 1 .. n /\ k \in 1 .. k /\ k # 1 /\ k - 1 = n
  OBVIOUS
<1>5. far[n] = at[n]
  <2>1. SharePath(path, longer, n)
    BY <1>1 DEF SharePath
  <2> QED BY <1>2, <1>3, <1>4, <2>1, SharedValues
<1>6. far[k] = Part(far[k - 1], longer[k])
  BY <1>3, <1>4 DEF ValuesAlong
<1> QED BY <1>1, <1>2, <1>3, <1>4, <1>5, <1>6, Zenon
LEMMA PartOfMap ==
  ASSUME NEW v, v.kind = "map"
  PROVE  PartNames(v) = DOMAIN v.content /\ \A f : Part(v, f) = v.content[f]
BY DEF PartNames, Part

LEMMA PartOfList ==
  ASSUME PrintsNames, NEW v, IsValue(v), v.kind = "list", NEW i \in 1 .. Len(v.content)
  PROVE  /\ ToString(i - 1) \in PartNames(v)
         /\ Part(v, ToString(i - 1)) = v.content[i]
<1>1. PICK n \in Nat : n = Len(v.content) /\ DOMAIN v.content = 1 .. n
  BY ValueFacts
<1>2. \A j \in 1 .. n : j - 1 \in Nat
  BY <1>1
<1>3. i \in 1 .. n
  BY <1>1
<1>4. ASSUME NEW j \in 1 .. n, ToString(j - 1) = ToString(i - 1)
      PROVE  j = i
  <2>1. j - 1 = i - 1
    BY <1>2, <1>3, <1>4 DEF PrintsNames
  <2> QED BY <1>1, <1>3, <2>1
<1>5. (CHOOSE j \in DOMAIN v.content : ToString(j - 1) = ToString(i - 1)) = i
  BY <1>1, <1>3, <1>4
<1>6. PartNames(v) = {ToString(j - 1) : j \in DOMAIN v.content}
  BY DEF PartNames
<1> QED BY <1>1, <1>3, <1>5, <1>6 DEF Part

LEMMA PlaceGoesOn ==
  ASSUME PrintsNames, NEW values \in Inputs, NEW p \in Places, NEW q \in PartNames(ValueAt(values, p))
  PROVE  /\ q \in Names
         /\ Append(p, q) \in Places
         /\ ValueAt(values, Append(p, q)) = Part(ValueAt(values, p), q)
<1>1. Append(p, q) \in Places /\ IsValue(ValueAt(values, p))
  BY InputIsInput
<1>2. q \in Names
  BY <1>1, ValueFacts DEF PartNames, PrintsNames
<1> QED BY <1>1, <1>2, PlacesAreAttributes, ValueOfPart

LEMMA Growing ==
  ASSUME NEW s \in Seq(Qualifiers), NEW x, Append(s, x) \in Seq(Qualifiers)
  PROVE  Len(Append(s, x)) = Len(s) + 1 /\ IsPrefix(s, Append(s, x))
<1> PICK n \in Nat : n = Len(s)
  BY LenProperties
<1>1. s \in Seq(Qualifiers \cup {x})
  BY ElementOfSeq, LenProperties, SeqDef
<1>2. /\ Len(Append(s, x)) = n + 1
      /\ Append(s, x)[n + 1] = x
      /\ \A i \in 1 .. n : Append(s, x)[i] = s[i]
  BY <1>1, AppendProperties
<1> PICK t \in Seq(Qualifiers) : t = Append(s, x)
  OBVIOUS
<1>3. n + 1 \in 1 .. n + 1 /\ n <= n + 1
  OBVIOUS
<1>4. x \in Qualifiers
  BY <1>2, <1>3, ElementOfSeq
<1> QED BY <1>2, <1>4, AppendMeans

AgreeBelow(values, others, p) ==
  \A q \in Scalars : IsPrefix(p, q) => ValueAt(values, q) = ValueAt(others, q)

\* Two inputs that agree on the scalars of a place agree on the place, if they
\* do on each of its parts.
LEMMA SameParts ==
  ASSUME PrintsNames, NEW values \in Inputs, NEW others \in Inputs, NEW p \in Places,
         AgreeBelow(values, others, p),
         \A q : Append(p, q) \in Places =>
                  ValueAt(values, Append(p, q)) = ValueAt(others, Append(p, q))
  PROVE  ValueAt(values, p) = ValueAt(others, p)
<1> PICK v, w : v = ValueAt(values, p) /\ w = ValueAt(others, p)
  OBVIOUS
<1>1. IsValue(v) /\ IsValue(w) /\ SameShape(v, w)
  BY InputIsInput
<1>2. v = [kind |-> v.kind, content |-> v.content] /\ w = [kind |-> w.kind, content |-> w.content]
  BY <1>1, ValueFacts
<1>3. v.kind = w.kind /\ (v.kind \in {"map", "list"} => DOMAIN v.content = DOMAIN w.content)
  BY <1>1 DEF SameShape
<1>4. \A q : q \in PartNames(v) /\ q \in PartNames(w) => Part(v, q) = Part(w, q)
  BY PlaceGoesOn
<1>5. CASE v.kind = "map"
  <2>1. /\ v.content = [f \in DOMAIN v.content |-> v.content[f]]
        /\ w.content = [f \in DOMAIN w.content |-> w.content[f]]
    BY <1>1, <1>3, <1>5, ValueFacts
  <2>2. \A f \in DOMAIN v.content : v.content[f] = w.content[f]
    BY <1>3, <1>4, <1>5, PartOfMap
  <2>3. v.content = w.content
    BY <1>3, <1>5, <2>1, <2>2
  <2> QED BY <1>2, <1>3, <2>3
<1>6. CASE v.kind = "list"
  <2>1. /\ Len(v.content) \in Nat /\ v.content = [i \in 1 .. Len(v.content) |-> v.content[i]]
        /\ Len(w.content) \in Nat /\ w.content = [i \in 1 .. Len(w.content) |-> w.content[i]]
    BY <1>1, <1>3, <1>6, ValueFacts
  <2> PICK n \in Nat, k \in Nat : n = Len(v.content) /\ k = Len(w.content)
    BY <2>1
  <2>2. DOMAIN v.content = 1 .. n /\ DOMAIN w.content = 1 .. k
    BY <2>1
  <2>3. 1 .. n = 1 .. k
    BY <1>3, <1>6, <2>2
  <2>4. ASSUME NEW i \in 1 .. n
        PROVE  v.content[i] = w.content[i]
    <3>1. i \in 1 .. k
      BY <2>3
    <3>2. ToString(i - 1) \in PartNames(v) /\ Part(v, ToString(i - 1)) = v.content[i]
      BY <1>1, <1>6, PartOfList
    <3>3. ToString(i - 1) \in PartNames(w) /\ Part(w, ToString(i - 1)) = w.content[i]
      BY <1>1, <1>3, <1>6, <3>1, PartOfList
    <3> QED BY <1>4, <3>2, <3>3
  <2>5. v.content = w.content
    BY <2>1, <2>2, <2>3, <2>4
  <2> QED BY <1>2, <1>3, <2>5
<1>7. CASE v.kind \notin {"map", "list"}
  <2>1. p \in Scalars
    BY <1>7, InputIsInput
  <2>2. IsPrefix(p, p)
    BY PlacesAreAttributes, AttributeFacts, PrefixReflexive
  <2> QED BY <2>1, <2>2 DEF AgreeBelow
<1> QED BY <1>5, <1>6, <1>7

LEMMA SameBelow ==
  ASSUME PrintsNames, NEW values \in Inputs, NEW others \in Inputs, NEW p \in Places,
         AgreeBelow(values, others, p)
  PROVE  ValueAt(values, p) = ValueAt(others, p)
<1>1. PICK n \in {Len(q) : q \in Places} : \A q \in Places : Len(q) <= n
  BY InputsAssumption, Zenon
<1>2. n \in Nat /\ \A q \in Places : Len(q) \in Nat
  BY PlacesAreAttributes, AttributeFacts
<1> DEFINE Same(k) == \A q \in Places :
                        Len(q) > n - k /\ AgreeBelow(values, others, q) =>
                          ValueAt(values, q) = ValueAt(others, q)
           S       == {k \in Nat : Same(k)}
<1>3. 0 \in S
  BY <1>1, <1>2
<1>4. ASSUME NEW k \in Nat, k \in S
      PROVE  k + 1 \in S
  <2> SUFFICES ASSUME NEW q \in Places, Len(q) > n - (k + 1), AgreeBelow(values, others, q)
               PROVE  ValueAt(values, q) = ValueAt(others, q)
    OBVIOUS
  <2>1. ASSUME NEW f, Append(q, f) \in Places
        PROVE  ValueAt(values, Append(q, f)) = ValueAt(others, Append(q, f))
    <3> PICK longer \in Places : longer = Append(q, f)
      BY <2>1
    <3>1. /\ IsAttribute(q) /\ IsAttribute(longer)
          /\ q \in Seq(Qualifiers) /\ longer \in Seq(Qualifiers)
      BY PlacesAreAttributes, AttributeFacts
    <3>2. Len(longer) = Len(q) + 1
      BY <3>1, Growing
    <3>3. IsPrefix(q, longer)
      BY <3>1, Growing
    <3>4. AgreeBelow(values, others, longer)
      <4> SUFFICES ASSUME NEW s \in Scalars, IsPrefix(longer, s)
                   PROVE  ValueAt(values, s) = ValueAt(others, s)
        BY DEF AgreeBelow
      <4>1. s \in Seq(Qualifiers)
        BY PlacesAreAttributes, AttributeFacts
      <4>2. IsPrefix(q, s)
        BY <3>1, <3>3, <4>1, PrefixTransitive
      <4> QED BY <4>2 DEF AgreeBelow
    <3>5. Len(longer) > n - k
      BY <1>2, <3>2
    <3>6. Same(k)
      BY <1>4
    <3> QED BY <3>4, <3>5, <3>6
  <2> QED BY <2>1, SameParts
<1> HIDE DEF S
<1>5. n + 1 \in S
  BY <1>2, <1>3, <1>4, Induction
<1>6. Len(p) > n - (n + 1)
  BY <1>2
<1> QED BY <1>5, <1>6 DEF S

-----------------------------------------------------------------------------
(* Values on a stack: their unknown parts name attributes.                 *)

\* Values whose unknown parts name attributes, and whose strings are names.
Closed(U) ==
  \A u \in U :
    /\ NamesAttributes(u)
    /\ u.kind = "string" => u.content \in Names
    /\ u.kind = "map" => \A f \in DOMAIN u.content : u.content[f] \in U
    /\ u.kind = "list" => \A n \in 0 .. Len(u.content) - 1 : u.content[n + 1] \in U

Wholesome(v) == \E U : v \in U /\ Closed(U)

\* An entry of the stack.
Sound(entry) == Wholesome(entry.value) /\ TrailSound(entry.trail)

LEMMA WholesomeFacts ==
  ASSUME NEW v, Wholesome(v)
  PROVE  /\ NamesAttributes(v)
         /\ v.kind = "string" => v.content \in Names
         /\ v.kind = "map" => \A f \in DOMAIN v.content : Wholesome(v.content[f])
         /\ v.kind = "list" => \A n \in 0 .. Len(v.content) - 1 : Wholesome(v.content[n + 1])
BY DEF Wholesome, Closed

LEMMA PlainValuesAreWholesome ==
  ASSUME NEW v, v.kind \notin {"unknown", "string", "map", "list"}
  PROVE  Wholesome(v)
<1>1. v \in {v} /\ Closed({v})
  BY DEF Closed, NamesAttributes
<1> QED BY <1>1 DEF Wholesome

LEMMA ErrorsAreWholesome == \A c : Wholesome(ErrorOf(c))
BY PlainValuesAreWholesome DEF ErrorOf

LEMMA ScalarsAreWholesome == \A c : Wholesome(BoolOf(c)) /\ Wholesome(IntOf(c))
BY PlainValuesAreWholesome DEF BoolOf, IntOf

LEMMA UnknownIsWholesome ==
  ASSUME NEW S \in AttributeSets
  PROVE  Wholesome(UnknownOf(S))
<1> DEFINE v == UnknownOf(S)
<1>1. v.kind = "unknown" /\ v.content = S
  BY DEF UnknownOf
<1> HIDE DEF v
<1>2. v \in {v} /\ Closed({v})
  BY <1>1 DEF Closed, NamesAttributes
<1>3. Wholesome(v)
  BY <1>2 DEF Wholesome
<1> QED BY <1>3 DEF v

LEMMA ValueIsWholesome ==
  ASSUME NEW v, IsValue(v)
  PROVE  Wholesome(v)
<1> DEFINE U == UNION {Values[k] : k \in Kinds}
<1>1. \A u : IsValue(u) => u \in U
  BY DEF IsValue
<1>2. ASSUME NEW u \in U
      PROVE  IsValue(u)
  <2>1. PICK k \in Kinds : u \in Values[k]
    OBVIOUS
  <2>2. u = [kind |-> k, content |-> u.content]
    BY <2>1, ValuesAssumption, Zenon
  <2>3. u.kind = k
    BY <2>2
  <2> QED BY <2>1, <2>3 DEF IsValue
<1> HIDE DEF U
<1>3. ASSUME NEW u \in U
      PROVE  /\ NamesAttributes(u)
             /\ u.kind = "string" => u.content \in Names
             /\ u.kind = "map" => \A f \in DOMAIN u.content : u.content[f] \in U
             /\ u.kind = "list" => \A n \in 0 .. Len(u.content) - 1 : u.content[n + 1] \in U
  <2>1. IsValue(u)
    BY <1>2
  <2>2. u.kind # "unknown"
    BY <2>1, ValueFacts DEF Kinds
  <2>3. ASSUME u.kind = "list", NEW n \in 0 .. Len(u.content) - 1
        PROVE  u.content[n + 1] \in U
    <3> PICK k \in Nat : k = Len(u.content)
      BY <2>1, <2>3, ValueFacts
    <3>1. n + 1 \in 1 .. k
      OBVIOUS
    <3> QED BY <1>1, <2>1, <2>3, <3>1, ValueFacts
  <2>4. u.kind = "map" => \A f \in DOMAIN u.content : u.content[f] \in U
    BY <1>1, <2>1, ValueFacts
  <2> QED BY <2>1, <2>2, <2>3, <2>4, ValueFacts DEF NamesAttributes
<1>4. Closed(U)
  BY <1>3 DEF Closed
<1> QED BY <1>1, <1>4 DEF Wholesome

LEMMA DecidedIsSound ==
  ASSUME NEW v, Wholesome(v)
  PROVE  Sound(Decided(v))
BY KindsApart DEF Sound, TrailSound

\* A list of wholesome values is wholesome.
LEMMA ListIsWholesome ==
  ASSUME NEW n \in Nat, NEW values, values = [i \in 1 .. n |-> values[i]],
         \A i \in 1 .. n : Wholesome(values[i])
  PROVE  Wholesome([kind |-> "list", content |-> values])
<1> DEFINE list == [kind |-> "list", content |-> values]
           Part_of(i) == CHOOSE U : values[i] \in U /\ Closed(U)
           U == {list} \cup UNION {Part_of(i) : i \in 1 .. n}
<1>1. \A i \in 1 .. n : values[i] \in Part_of(i) /\ Closed(Part_of(i))
  BY DEF Wholesome
<1>2. Len(values) = n
  OBVIOUS
<1>3. list.kind = "list" /\ list.content = values
  OBVIOUS
<1> HIDE DEF Part_of, list
<1>4. ASSUME NEW u \in U
      PROVE  /\ NamesAttributes(u)
             /\ u.kind = "string" => u.content \in Names
             /\ u.kind = "map" => \A f \in DOMAIN u.content : u.content[f] \in U
             /\ u.kind = "list" => \A k \in 0 .. Len(u.content) - 1 : u.content[k + 1] \in U
  <2>1. CASE u = list
    <3>1. \A k \in 0 .. n - 1 : k + 1 \in 1 .. n
      OBVIOUS
    <3>2. \A k \in 0 .. Len(u.content) - 1 : u.content[k + 1] \in U
      BY <1>1, <1>2, <1>3, <2>1, <3>1
    <3> QED BY <1>3, <2>1, <3>2 DEF NamesAttributes
  <2>2. ASSUME NEW i \in 1 .. n, u \in Part_of(i)
        PROVE  /\ NamesAttributes(u)
               /\ u.kind = "string" => u.content \in Names
               /\ u.kind = "map" => \A f \in DOMAIN u.content : u.content[f] \in U
               /\ u.kind = "list" => \A k \in 0 .. Len(u.content) - 1 : u.content[k + 1] \in U
    <3>1. Part_of(i) \subseteq U
      OBVIOUS
    <3>2. Closed(Part_of(i))
      BY <1>1
    <3> HIDE DEF U
    <3> QED BY <2>2, <3>1, <3>2 DEF Closed
  <2> QED BY <2>1, <2>2
<1>5. list \in U
  OBVIOUS
<1> HIDE DEF U
<1>6. Closed(U)
  BY <1>4 DEF Closed
<1>7. Wholesome(list)
  BY <1>5, <1>6 DEF Wholesome
<1> QED BY <1>7 DEF list

-----------------------------------------------------------------------------
(* Agreement.                                                              *)

\* What the steps of one evaluation have in common.
Setting(values) == TreesReady /\ PrintsNames /\ input \in Inputs /\ values \in Completions

\* A value that both evaluations read from the same place.
FromPlace(entry, full, values, p) ==
  /\ entry.value = ValueAt(input, p)
  /\ full.value = ValueAt(values, p)
  /\ TrailFits(entry.trail, p)

\* An entry, and the entry of the full evaluation in its place.
Agrees(entry, full, values) ==
  /\ Plain(full.trail)
  /\ entry.value.kind = "error" => full.value.kind = "error"
  /\ ~IsInexact(entry.value) =>
       /\ full.trail.missing = entry.trail.missing
       /\ \/ full.value = entry.value
          \/ \E p \in Places : FromPlace(entry, full, values, p)

LEMMA CompletionFacts ==
  ASSUME input \in Inputs, NEW values \in Completions
  PROVE  /\ values \in Inputs
         /\ \A p \in Scalars : ~IsUnknownAt(p) => ValueAt(values, p) = ValueAt(input, p)
<1>1. values \in Inputs
  BY DEF Completions
<1>2. ASSUME NEW p \in Scalars, ~IsUnknownAt(p)
      PROVE  ValueAt(values, p) = ValueAt(input, p)
  <2> PICK v, w : v = ValueAt(values, p) /\ w = ValueAt(input, p)
    OBVIOUS
  <2>1. v.kind = w.kind /\ v.content = w.content
    BY <1>2 DEF Completions, SameValue
  <2>2. IsValue(v) /\ IsValue(w)
    BY <1>1, InputIsInput, PlacesAreAttributes
  <2>3. v = [kind |-> v.kind, content |-> v.content] /\ w = [kind |-> w.kind, content |-> w.content]
    BY <2>2, ValueFacts
  <2> QED BY <2>1, <2>3
<1> QED BY <1>1, <1>2

LEMMA AgreeFacts ==
  ASSUME NEW values, Setting(values), NEW entry, NEW full, Agrees(entry, full, values),
         ~IsInexact(entry.value)
  PROVE  /\ full.value.kind = entry.value.kind
         /\ ~IsInexact(full.value)
         /\ entry.value.kind \in {"map", "list"} =>
              DOMAIN full.value.content = DOMAIN entry.value.content
         /\ entry.value.kind \notin {"map", "list"} => full.value = entry.value
         /\ PartialUnknownMatch(matchers, entry.trail) = NoNode => full.value = entry.value
<1>1. CASE full.value = entry.value
  BY <1>1
<1>2. ASSUME NEW p \in Places, FromPlace(entry, full, values, p)
      PROVE  /\ full.value.kind = entry.value.kind
             /\ entry.value.kind \in {"map", "list"} =>
                  DOMAIN full.value.content = DOMAIN entry.value.content
             /\ entry.value.kind \notin {"map", "list"} => full.value = entry.value
             /\ PartialUnknownMatch(matchers, entry.trail) = NoNode => full.value = entry.value
  <2>1. /\ entry.value = ValueAt(input, p) /\ full.value = ValueAt(values, p)
        /\ IsAttribute(p) /\ TrailOK(entry.trail, p) /\ ~IsUnknownAt(p)
    BY <1>2 DEF FromPlace, TrailFits, IsDecidedAt
  <2>2. /\ input \in Inputs /\ values \in Inputs /\ TreesOK /\ PrintsNames
        /\ \A q \in Scalars : ~IsUnknownAt(q) => ValueAt(values, q) = ValueAt(input, q)
    BY CompletionFacts DEF Setting, TreesReady
  <2>3. SameShape(entry.value, full.value)
    BY <2>1, <2>2, InputIsInput
  <2>4. ASSUME entry.value.kind \notin {"map", "list"}
        PROVE  full.value = entry.value
    <3>1. p \in Scalars
      BY <2>1, <2>2, <2>4, InputIsInput
    <3> QED BY <2>1, <2>2, <3>1
  <2>5. ASSUME PartialUnknownMatch(matchers, entry.trail) = NoNode
        PROVE  full.value = entry.value
    <3>1. ASSUME NEW q \in Scalars, IsPrefix(p, q)
          PROVE  ~IsUnknownAt(q)
      <4>1. IsAttribute(q)
        BY PlacesAreAttributes
      <4>2. p # NoNode
        BY <2>1, AttributeFacts
      <4>3. q # p => ~UnknownPath(q)
        BY <2>1, <2>2, <2>5, <3>1, <4>1, <4>2, PartialMatchOK
      <4> QED BY <2>1, <4>3 DEF IsUnknownAt
    <3>2. AgreeBelow(values, input, p)
      BY <2>2, <3>1 DEF AgreeBelow
    <3> QED BY <2>1, <2>2, <3>2, SameBelow
  <2> QED BY <2>3, <2>4, <2>5 DEF SameShape
<1>3. full.value = entry.value \/ \E p \in Places : FromPlace(entry, full, values, p)
  BY DEF Agrees
<1>4. full.value.kind = entry.value.kind
  BY <1>1, <1>2, <1>3
<1>5. ~IsInexact(full.value)
  BY <1>4 DEF IsInexact
<1> QED BY <1>1, <1>2, <1>3, <1>5

\* What agrees with a value that is not unknown is not unknown either.
LEMMA KnownAgrees ==
  ASSUME NEW values, Setting(values), NEW entry, NEW full, Agrees(entry, full, values),
         entry.value.kind # "unknown"
  PROVE  full.value.kind # "unknown"
BY AgreeFacts DEF Agrees, IsInexact

LEMMA ErrorsAgree ==
  ASSUME NEW values, NEW entry, entry.value.kind = "error",
         NEW full, full.value.kind = "error", Plain(full.trail)
  PROVE  Agrees(entry, full, values)
BY DEF Agrees, IsInexact

LEMMA UnknownAgrees ==
  ASSUME NEW values, NEW entry, entry.value.kind = "unknown", NEW full, Plain(full.trail)
  PROVE  Agrees(entry, full, values)
BY DEF Agrees, IsInexact

LEMMA SameDecided ==
  ASSUME NEW values, NEW v
  PROVE  Agrees(Decided(v), Decided(v), values)
BY KindsApart DEF Agrees, IsInexact

-----------------------------------------------------------------------------
(* The steps that go one qualifier further.                                *)

\* What both find there.
PartsAgree(entry, values, name, found, full_found) ==
  \/ found.kind = "error" /\ full_found.kind = "error"
  \/ full_found = found
  \/ \E p \in Places : /\ TrailFits(entry.trail, p)
                       /\ Append(p, name) \in Places
                       /\ found = ValueAt(input, Append(p, name))
                       /\ full_found = ValueAt(values, Append(p, name))

\* The entry a step leads to: what the trees decide, or else what was found.
After(step, found) == IF step.value # Undecided THEN step ELSE [step EXCEPT !.value = found]

LEMMA ShapeIsRecord ==
  ASSUME NEW step, NEW missing, StepShape(step, missing), NEW found
  PROVE  [step EXCEPT !.value = found].value = found /\ [step EXCEPT !.value = found].trail = step.trail
<1>1. CASE \E path : step = Decided(UnknownOf({path}))
  BY <1>1 DEF Decided
<1>2. CASE \E known, unknown :
             step = WithMissing(matchers, missing,
                                [missing |-> NoNode, known |-> known, unknown |-> unknown])
  <2> PICK known, unknown :
             step = WithMissing(matchers, missing,
                                [missing |-> NoNode, known |-> known, unknown |-> unknown])
    BY <1>2
  <2>1. step = IF IsFull(matchers.missing, missing) THEN Decided(MissingAttribute)
               ELSE [value |-> Undecided,
                     trail |-> [missing |-> missing, known |-> known, unknown |-> unknown]]
    BY WithMissingShape
  <2> QED BY <2>1 DEF Decided
<1> QED BY <1>1, <1>2 DEF StepShape

LEMMA FullStepHasShape ==
  ASSUME NEW missing
  PROVE  StepShape(FullStep(missing), missing)
BY DEF StepShape, FullStep, NoTrail

LEMMA AfterAgrees ==
  ASSUME input \in Inputs, NEW values, NEW entry, NEW name,
         NEW step, NEW missing, StepShape(step, missing), StepSound(step),
         \A p : TrailFits(entry.trail, p) /\ step.value = Undecided =>
                  TrailFits(step.trail, Append(p, name)),
         NEW found, Wholesome(found), NEW full_found,
         PartsAgree(entry, values, name, found, full_found)
  PROVE  /\ Sound(After(step, found))
         /\ Agrees(After(step, found), After(FullStep(missing), full_found), values)
<1> PICK full : full = FullStep(missing)
  OBVIOUS
<1>1. Plain(full.trail) /\ full.value \in {Undecided, MissingAttribute} /\ StepAgrees(step, full)
  BY FullStepIsPlain, ShapeAgrees
<1>2. /\ [step EXCEPT !.value = found].value = found
      /\ [step EXCEPT !.value = found].trail = step.trail
      /\ [full EXCEPT !.value = full_found].value = full_found
      /\ [full EXCEPT !.value = full_found].trail = full.trail
  BY FullStepHasShape, ShapeIsRecord
<1>3. PICK after, full_after : after = After(step, found) /\ full_after = After(full, full_found)
  OBVIOUS
<1>4. Plain(full_after.trail)
  BY <1>1, <1>2, <1>3 DEF After
<1>5. CASE step.value = Undecided
  <2>1. after.value = found /\ after.trail = step.trail
    BY <1>2, <1>3, <1>5 DEF After
  <2>2. full.value = Undecided /\ full.trail.missing = step.trail.missing
    BY <1>1, <1>5, KindsApart DEF StepAgrees
  <2>3. full_after.value = full_found /\ full_after.trail.missing = after.trail.missing
    BY <1>2, <1>3, <2>1, <2>2 DEF After
  <2>4. TrailSound(step.trail)
    <3>1. step # Decided(MissingAttribute)
      BY <1>5, KindsApart
    <3>2. ASSUME NEW path, step = Decided(UnknownOf({path}))
          PROVE  FALSE
      <4>1. step.value = UnknownOf({path}) /\ UnknownOf({path}).kind = "unknown"
        BY <3>2, KindsApart
      <4> QED BY <1>5, <4>1, KindsApart
    <3> QED BY <3>1, <3>2 DEF StepSound
  <2>5. Sound(after)
    BY <2>1, <2>4 DEF Sound
  <2>6. CASE found.kind = "error" /\ full_found.kind = "error"
    BY <1>3, <1>4, <2>1, <2>3, <2>5, <2>6, ErrorsAgree
  <2>7. CASE full_found = found
    BY <1>3, <1>4, <2>1, <2>3, <2>5, <2>7 DEF Agrees
  <2>8. ASSUME NEW p \in Places, TrailFits(entry.trail, p), Append(p, name) \in Places,
               found = ValueAt(input, Append(p, name)),
               full_found = ValueAt(values, Append(p, name))
        PROVE  Agrees(after, full_after, values)
    <3>1. TrailFits(after.trail, Append(p, name))
      BY <1>5, <2>1, <2>8
    <3>2. FromPlace(after, full_after, values, Append(p, name))
      BY <2>1, <2>3, <2>8, <3>1 DEF FromPlace
    <3>3. found.kind # "error"
      <4>1. IsValue(found)
        BY <2>8, InputIsInput
      <4> QED BY <4>1, ValueFacts DEF Kinds
    <3> QED BY <1>4, <2>1, <2>3, <2>8, <3>2, <3>3 DEF Agrees
  <2> QED BY <1>3, <2>5, <2>6, <2>7, <2>8 DEF PartsAgree
<1>6. CASE step = Decided(MissingAttribute)
  <2>1. after = Decided(MissingAttribute) /\ after.value.kind = "error"
    BY <1>3, <1>6, KindsApart DEF After
  <2>2. Sound(after)
    BY <2>1, ErrorsAreWholesome, DecidedIsSound DEF MissingAttribute
  <2>3. full.value = MissingAttribute
    BY <1>1, <1>6, KindsApart DEF StepAgrees
  <2>4. full_after.value.kind = "error"
    BY <1>3, <2>3, KindsApart DEF After
  <2> QED BY <1>3, <1>4, <2>1, <2>2, <2>4, ErrorsAgree
<1>7. ASSUME NEW path, IsAttribute(path), step = Decided(UnknownOf({path}))
      PROVE  Sound(after) /\ Agrees(after, full_after, values)
  <2>1. step.value = UnknownOf({path}) /\ UnknownOf({path}).kind = "unknown"
    BY <1>7, KindsApart
  <2>2. after = step
    BY <1>3, <2>1, KindsApart DEF After
  <2>3. {path} \in AttributeSets
    BY <1>7, AttributeSetFacts
  <2>4. Sound(after)
    BY <1>7, <2>2, <2>3, UnknownIsWholesome, DecidedIsSound
  <2> QED BY <1>4, <2>1, <2>2, <2>4, UnknownAgrees
<1> QED BY <1>3, <1>5, <1>6, <1>7 DEF StepSound

-----------------------------------------------------------------------------
(* The parts of a container.                                               *)

LEMMA MatchStepAgrees ==
  ASSUME NEW values, Setting(values), NEW entry, Sound(entry), NEW full,
         Agrees(entry, full, values), ~IsInexact(entry.value), NEW name \in Names,
         NEW found, Wholesome(found), NEW full_found,
         PartsAgree(entry, values, name, found, full_found)
  PROVE  /\ Sound(After(Match(matchers, entry.trail, name), found))
         /\ Agrees(After(Match(matchers, entry.trail, name), found),
                   After(Match(AllKnown(matchers), full.trail, name), full_found), values)
<1> PICK step : step = Match(matchers, entry.trail, name)
  OBVIOUS
<1> PICK missing : missing = MatchQualifier(matchers.missing, entry.trail.missing, name)
  OBVIOUS
<1>1. /\ Plain(full.trail) /\ full.trail.missing = entry.trail.missing
      /\ DOMAIN matchers = Sorts /\ TreesReady /\ TrailSound(entry.trail) /\ input \in Inputs
  BY DEF Agrees, Setting, TreesReady, Sound
<1>2. Match(AllKnown(matchers), full.trail, name) = FullStep(missing)
  BY <1>1, FullMatch
<1>3. StepShape(step, missing)
  BY MatchShape
<1>4. /\ StepSound(step)
      /\ \A p : TrailFits(entry.trail, p) /\ step.value = Undecided =>
                  TrailFits(step.trail, Append(p, name))
  BY <1>1, MatchIsSound
<1>5. /\ Sound(After(step, found))
      /\ Agrees(After(step, found), After(FullStep(missing), full_found), values)
  BY <1>1, <1>3, <1>4, AfterAgrees
<1> QED BY <1>2, <1>5

LEMMA PartsOfPlace ==
  ASSUME NEW values, Setting(values), NEW entry, NEW full,
         NEW p \in Places, FromPlace(entry, full, values, p),
         NEW name, name \in PartNames(entry.value), name \in PartNames(full.value)
  PROVE  PartsAgree(entry, values, name, Part(entry.value, name), Part(full.value, name))
<1>1. /\ entry.value = ValueAt(input, p) /\ full.value = ValueAt(values, p)
      /\ TrailFits(entry.trail, p)
      /\ input \in Inputs /\ values \in Inputs /\ PrintsNames
  BY CompletionFacts DEF FromPlace, Setting
<1>2. /\ Append(p, name) \in Places
      /\ ValueAt(input, Append(p, name)) = Part(entry.value, name)
      /\ ValueAt(values, Append(p, name)) = Part(full.value, name)
  BY <1>1, PlaceGoesOn
<1> QED BY <1>1, <1>2 DEF PartsAgree

LEMMA FieldsAgree ==
  ASSUME NEW values, Setting(values), NEW entry, Sound(entry), NEW full,
         Agrees(entry, full, values), entry.value.kind = "map", NEW field
  PROVE  /\ Wholesome(GetField(entry.value, field))
         /\ PartsAgree(entry, values, field, GetField(entry.value, field), GetField(full.value, field))
         /\ HasField(full.value, field) = HasField(entry.value, field)
<1>1. ~IsInexact(entry.value)
  BY DEF IsInexact
<1>2. full.value.kind = "map" /\ DOMAIN full.value.content = DOMAIN entry.value.content
  BY <1>1, AgreeFacts
<1>3. full.value = entry.value \/ \E p \in Places : FromPlace(entry, full, values, p)
  BY <1>1 DEF Agrees
<1>4. HasField(full.value, field) = HasField(entry.value, field)
  BY <1>2 DEF HasField
<1>5. CASE field \in DOMAIN entry.value.content
  <2>1. GetField(entry.value, field) = entry.value.content[field]
    BY <1>5 DEF GetField
  <2>2. Wholesome(entry.value.content[field])
    BY <1>5, WholesomeFacts DEF Sound
  <2>3. CASE full.value = entry.value
    BY <1>4, <2>1, <2>2, <2>3 DEF PartsAgree
  <2>4. ASSUME NEW p \in Places, FromPlace(entry, full, values, p)
        PROVE  PartsAgree(entry, values, field, GetField(entry.value, field), GetField(full.value, field))
    <3>1. GetField(full.value, field) = full.value.content[field]
      BY <1>2, <1>5 DEF GetField
    <3>2. /\ field \in PartNames(entry.value) /\ field \in PartNames(full.value)
          /\ Part(entry.value, field) = entry.value.content[field]
          /\ Part(full.value, field) = full.value.content[field]
      BY <1>2, <1>5, PartOfMap
    <3> QED BY <2>1, <2>4, <3>1, <3>2, PartsOfPlace
  <2> QED BY <1>3, <1>4, <2>1, <2>2, <2>3, <2>4
<1>6. CASE field \notin DOMAIN entry.value.content
  <2>1. GetField(entry.value, field) = NoSuchKey /\ GetField(full.value, field) = NoSuchKey
    BY <1>2, <1>6 DEF GetField
  <2>2. NoSuchKey.kind = "error" /\ Wholesome(NoSuchKey)
    BY KindsApart, ErrorsAreWholesome DEF NoSuchKey
  <2> QED BY <1>4, <2>1, <2>2 DEF PartsAgree
<1> QED BY <1>5, <1>6

LEMMA ElementsAgree ==
  ASSUME NEW values, Setting(values), NEW entry, Sound(entry), NEW full,
         Agrees(entry, full, values), entry.value.kind = "list", NEW n
  PROVE  /\ n \in 0 .. Len(full.value.content) - 1 <=> n \in 0 .. Len(entry.value.content) - 1
         /\ n \in 0 .. Len(entry.value.content) - 1 =>
              /\ Wholesome(entry.value.content[n + 1])
              /\ PartsAgree(entry, values, ToString(n),
                            entry.value.content[n + 1], full.value.content[n + 1])
<1>1. ~IsInexact(entry.value)
  BY DEF IsInexact
<1>2. full.value.kind = "list" /\ DOMAIN full.value.content = DOMAIN entry.value.content
  BY <1>1, AgreeFacts
<1>3. full.value = entry.value \/ \E p \in Places : FromPlace(entry, full, values, p)
  BY <1>1 DEF Agrees
<1>4. n \in 0 .. Len(entry.value.content) - 1 => Wholesome(entry.value.content[n + 1])
  BY WholesomeFacts DEF Sound
<1>5. CASE full.value = entry.value
  BY <1>4, <1>5 DEF PartsAgree
<1>6. ASSUME NEW p \in Places, FromPlace(entry, full, values, p)
      PROVE  /\ Len(full.value.content) = Len(entry.value.content)
             /\ n \in 0 .. Len(entry.value.content) - 1 =>
                  PartsAgree(entry, values, ToString(n),
                             entry.value.content[n + 1], full.value.content[n + 1])
  <2>1. IsValue(entry.value) /\ IsValue(full.value)
    BY <1>6, CompletionFacts, InputIsInput DEF FromPlace, Setting
  <2>2. PICK k \in Nat : k = Len(entry.value.content) /\ DOMAIN entry.value.content = 1 .. k
    BY <2>1, ValueFacts
  <2>3. PICK l \in Nat : l = Len(full.value.content) /\ DOMAIN full.value.content = 1 .. l
    BY <1>2, <2>1, ValueFacts
  <2>4. k = l
    <3>1. 1 .. k = 1 .. l
      BY <1>2, <2>2, <2>3
    <3> QED BY <3>1
  <2>5. ASSUME n \in 0 .. k - 1
        PROVE  PartsAgree(entry, values, ToString(n), entry.value.content[n + 1], full.value.content[n + 1])
    <3> PICK i \in 1 .. k : i = n + 1
      BY <2>5
    <3>1. i - 1 = n
      BY <2>5
    <3>2. /\ ToString(n) \in PartNames(entry.value)
          /\ Part(entry.value, ToString(n)) = entry.value.content[i]
      BY <2>1, <2>2, <3>1, PartOfList DEF Setting
    <3>3. /\ ToString(n) \in PartNames(full.value)
          /\ Part(full.value, ToString(n)) = full.value.content[i]
      BY <1>2, <2>1, <2>3, <2>4, <3>1, PartOfList DEF Setting
    <3> QED BY <1>6, <3>2, <3>3, PartsOfPlace
  <2> QED BY <2>2, <2>3, <2>4, <2>5
<1> QED BY <1>3, <1>4, <1>5, <1>6

LEMMA ErrorCodes ==
  \A c : ErrorOf(c).kind = "error" /\ Wholesome(ErrorOf(c))
BY KindsApart, ErrorsAreWholesome

LEMMA LookupsAgree ==
  ASSUME NEW values, Setting(values), NEW entry, Sound(entry), NEW full,
         Agrees(entry, full, values), ~IsInexact(entry.value), NEW key
  PROVE  /\ Wholesome(LookupInContainer(entry.value, key))
         /\ PartsAgree(entry, values, QualifierOf(key), LookupInContainer(entry.value, key),
                       LookupInContainer(full.value, key))
<1>1. full.value.kind = entry.value.kind
  BY AgreeFacts
<1>2. CASE entry.value.kind = "map"
  <2>1. CASE key.kind = "string"
    <3>1. /\ QualifierOf(key) = key.content
          /\ LookupInContainer(entry.value, key) = GetField(entry.value, key.content)
          /\ LookupInContainer(full.value, key) = GetField(full.value, key.content)
      BY <1>1, <1>2, <2>1 DEF QualifierOf, LookupInContainer
    <3> QED BY <1>2, <3>1, FieldsAgree
  <2>2. CASE key.kind # "string"
    <3>1. PICK c : /\ LookupInContainer(entry.value, key) = ErrorOf(c)
                   /\ LookupInContainer(full.value, key) = ErrorOf(c)
      BY <1>1, <1>2, <2>2 DEF LookupInContainer, NoSuchKey
    <3> QED BY <3>1, ErrorCodes DEF PartsAgree
  <2> QED BY <2>1, <2>2
<1>3. CASE entry.value.kind = "list"
  <2>1. CASE key.kind = "int" /\ key.content \in 0 .. Len(entry.value.content) - 1
    <3>1. key.content \in 0 .. Len(full.value.content) - 1
      BY <1>3, <2>1, ElementsAgree
    <3>2. /\ QualifierOf(key) = ToString(key.content)
          /\ LookupInContainer(entry.value, key) = entry.value.content[key.content + 1]
          /\ LookupInContainer(full.value, key) = full.value.content[key.content + 1]
      BY <1>1, <1>3, <2>1, <3>1 DEF QualifierOf, LookupInContainer
    <3> QED BY <1>3, <2>1, <3>2, ElementsAgree
  <2>2. CASE ~(key.kind = "int" /\ key.content \in 0 .. Len(entry.value.content) - 1)
    <3>1. ~(key.kind = "int" /\ key.content \in 0 .. Len(full.value.content) - 1)
      BY <1>3, <2>2, ElementsAgree
    <3>2. PICK c : LookupInContainer(entry.value, key) = ErrorOf(c)
      BY <1>3, <2>2 DEF LookupInContainer
    <3>3. PICK d : LookupInContainer(full.value, key) = ErrorOf(d)
      BY <1>1, <1>3, <3>1 DEF LookupInContainer
    <3> QED BY <3>2, <3>3, ErrorCodes DEF PartsAgree
  <2> QED BY <2>1, <2>2
<1>4. CASE entry.value.kind \notin {"map", "list"}
  <2>1. /\ LookupInContainer(entry.value, key) = ErrorOf("invalid_container")
        /\ LookupInContainer(full.value, key) = ErrorOf("invalid_container")
    BY <1>1, <1>4 DEF LookupInContainer
  <2> QED BY <2>1, ErrorCodes DEF PartsAgree
<1> QED BY <1>2, <1>3, <1>4

LEMMA AfterFullIsPlain ==
  ASSUME NEW missing, NEW found
  PROVE  Plain(After(FullStep(missing), found).trail)
BY FullStepIsPlain, FullStepHasShape, ShapeIsRecord DEF After, Plain

LEMMA DecidedIsPlain == \A v : Plain(Decided(v).trail)
BY KindsApart

LEMMA DecidedError ==
  ASSUME NEW c, NEW values
  PROVE  Sound(Decided(ErrorOf(c))) /\ Agrees(Decided(ErrorOf(c)), Decided(ErrorOf(c)), values)
BY ErrorCodes, DecidedIsSound, SameDecided

LEMMA FullMatchIsPlain ==
  ASSUME DOMAIN matchers = Sorts, NEW trail, Plain(trail), NEW name, NEW found
  PROVE  Plain(After(Match(AllKnown(matchers), trail, name), found).trail)
BY FullMatch, AfterFullIsPlain

-----------------------------------------------------------------------------
(* The steps that have at most one argument.                               *)

LEMMA IdentAgrees ==
  ASSUME NEW values, Setting(values), NEW name \in Names
  PROVE  /\ Sound(LookupIdent(matchers, input, name))
         /\ Agrees(LookupIdent(matchers, input, name), LookupIdent(AllKnown(matchers), values, name),
                   values)
<1> PICK step : step = AttributeLeadMatch(matchers, name)
  OBVIOUS
<1> PICK missing : missing = MatchVariable(matchers.missing, name)
  OBVIOUS
<1> PICK full : full = FullStep(missing)
  OBVIOUS
<1>1. /\ DOMAIN matchers = Sorts /\ TreesReady /\ PrintsNames
      /\ input \in Inputs /\ values \in Inputs
  BY CompletionFacts DEF Setting, TreesReady
<1>2. StepShape(step, missing) /\ AttributeLeadMatch(AllKnown(matchers), name) = full
  BY <1>1, LeadMatchShape, FullLeadMatch
<1>3. StepSound(step) /\ (step.value = Undecided => TrailFits(step.trail, <<name>>))
  BY <1>1, LeadMatchIsSound
<1>4. /\ DOMAIN input = {p[1] : p \in {q \in Places : Len(q) = 1}}
      /\ DOMAIN values = {p[1] : p \in {q \in Places : Len(q) = 1}}
  BY <1>1, InputIsInput
<1>5. Plain(full.trail) /\ full.value \in {Undecided, MissingAttribute} /\ StepAgrees(step, full)
  BY <1>2, FullStepIsPlain, ShapeAgrees
<1>6. CASE name \in DOMAIN input
  <2>1. /\ LookupIdent(matchers, input, name) = After(step, input[name])
        /\ LookupIdent(AllKnown(matchers), values, name) = After(full, values[name])
    BY <1>2, <1>4, <1>6, Zenon DEF LookupIdent, After
  <2>2. PICK p \in Places : Len(p) = 1 /\ p[1] = name
    BY <1>4, <1>6
  <2>3. p = <<name>>
    BY <2>2, PlacesAreAttributes, AttributeFacts
  <2>4. ValueAt(input, p) = input[name] /\ ValueAt(values, p) = values[name]
    BY <2>3, ValueOfVariable
  <2>5. IsValue(input[name]) /\ Wholesome(input[name])
    BY <1>1, <2>4, InputIsInput, ValueIsWholesome
  <2>6. After(step, input[name]) = step \/ step.value = Undecided
    BY DEF After
  <2>7. CASE step.value = Undecided
    <3>1. PICK after : after = After(step, input[name])
      OBVIOUS
    <3>2. PICK full_after : full_after = After(full, values[name])
      OBVIOUS
    <3>3. after.value = input[name] /\ after.trail = step.trail
      BY <1>2, <2>7, <3>1, ShapeIsRecord DEF After
    <3>4. full.value = Undecided /\ full.trail.missing = step.trail.missing
      BY <1>5, <2>7, KindsApart DEF StepAgrees
    <3>5. full_after.value = values[name] /\ full_after.trail = full.trail
      BY <3>2, <3>4, FullStepHasShape, ShapeIsRecord DEF After
    <3>6. TrailFits(after.trail, p)
      BY <1>3, <2>3, <2>7, <3>3
    <3>7. Sound(after)
      BY <2>5, <3>3, <3>6 DEF Sound, TrailSound
    <3>8. FromPlace(after, full_after, values, p)
      BY <2>4, <3>3, <3>5, <3>6 DEF FromPlace
    <3>9. after.value.kind # "error"
      BY <2>5, <3>3, ValueFacts DEF Kinds
    <3> QED BY <1>5, <2>1, <3>1, <3>2, <3>3, <3>4, <3>5, <3>7, <3>8, <3>9 DEF Agrees
  <2>8. CASE step.value # Undecided
    <3>1. /\ Wholesome(ErrorOf("none")) /\ ErrorOf("none").kind = "error"
      BY ErrorCodes
    <3>2. PartsAgree([trail |-> NoTrail], values, name, ErrorOf("none"), ErrorOf("none"))
      BY DEF PartsAgree
    <3>3. /\ Sound(After(step, ErrorOf("none")))
          /\ Agrees(After(step, ErrorOf("none")), After(full, ErrorOf("none")), values)
      BY <1>1, <1>2, <1>3, <2>8, <3>1, <3>2, AfterAgrees
    <3>4. /\ After(step, input[name]) = step /\ After(step, ErrorOf("none")) = step
      BY <2>8 DEF After
    <3>5. step.value.kind # "unknown" => full.value # Undecided
      BY <1>5, <2>8 DEF StepAgrees
    <3>6. full.value # Undecided => After(full, values[name]) = After(full, ErrorOf("none"))
      BY DEF After
    <3>7. Plain(After(full, values[name]).trail)
      BY AfterFullIsPlain
    <3> QED BY <2>1, <3>3, <3>4, <3>5, <3>6, <3>7, UnknownAgrees
  <2> QED BY <2>7, <2>8
<1>7. CASE name \notin DOMAIN input
  <2> PICK error : error = ErrorOf("no_such_variable")
    OBVIOUS
  <2>1. /\ LookupIdent(matchers, input, name)
             = IF step.value # Undecided THEN step ELSE Decided(error)
        /\ LookupIdent(AllKnown(matchers), values, name)
             = IF full.value # Undecided THEN full ELSE Decided(error)
    BY <1>2, <1>4, <1>7, Zenon DEF LookupIdent
  <2>2. Sound(Decided(error)) /\ Agrees(Decided(error), Decided(error), values)
    BY DecidedError
  <2>3. CASE step.value = Undecided
    <3>1. full.value = Undecided
      BY <1>5, <2>3, KindsApart DEF StepAgrees
    <3> QED BY <2>1, <2>2, <2>3, <3>1
  <2>4. CASE step = Decided(MissingAttribute)
    <3>1. step.value = MissingAttribute /\ full.value = MissingAttribute
      BY <1>5, <2>4, KindsApart DEF StepAgrees
    <3>2. Sound(step)
      BY <2>4, ErrorCodes, DecidedIsSound DEF MissingAttribute
    <3> QED BY <1>5, <2>1, <3>1, <3>2, KindsApart, ErrorsAgree
  <2>5. ASSUME NEW path, IsAttribute(path), step = Decided(UnknownOf({path}))
        PROVE  /\ Sound(step) /\ step.value # Undecided /\ step.value.kind = "unknown"
    <3>1. {path} \in AttributeSets
      BY <2>5, AttributeSetFacts
    <3>2. step.value = UnknownOf({path}) /\ UnknownOf({path}).kind = "unknown"
      BY <2>5, KindsApart
    <3> QED BY <2>5, <3>1, <3>2, KindsApart, UnknownIsWholesome, DecidedIsSound
  <2>6. Plain(LookupIdent(AllKnown(matchers), values, name).trail)
    BY <1>5, <2>1, DecidedIsPlain
  <2> QED BY <1>3, <2>1, <2>3, <2>4, <2>5, <2>6, UnknownAgrees DEF StepSound
<1> QED BY <1>6, <1>7

LEMMA ConstAgrees ==
  ASSUME NEW values, NEW v, IsValue(v)
  PROVE  Sound(Decided(v)) /\ Agrees(Decided(v), Decided(v), values)
BY ValueIsWholesome, DecidedIsSound, SameDecided

LEMMA SelectAgrees ==
  ASSUME NEW values, Setting(values), NEW entry, Sound(entry), NEW full,
         Agrees(entry, full, values), NEW field \in Names, NEW found, NEW full_found,
         entry.value.kind = "map" =>
           Wholesome(found) /\ PartsAgree(entry, values, field, found, full_found)
  PROVE  /\ Sound(Select(matchers, entry, field, found))
         /\ Agrees(Select(matchers, entry, field, found),
                   Select(AllKnown(matchers), full, field, full_found), values)
<1> PICK result, full_result : /\ result = Select(matchers, entry, field, found)
                               /\ full_result = Select(AllKnown(matchers), full, field, full_found)
  OBVIOUS
<1> PICK step, full_step : /\ step = Match(matchers, entry.trail, field)
                           /\ full_step = Match(AllKnown(matchers), full.trail, field)
  OBVIOUS
<1>1. /\ result = IF IsInexact(entry.value) THEN entry
                  ELSE IF entry.value.kind # "map" THEN Decided(InvalidTarget)
                  ELSE After(step, found)
      /\ full_result = IF IsInexact(full.value) THEN full
                       ELSE IF full.value.kind # "map" THEN Decided(InvalidTarget)
                       ELSE After(full_step, full_found)
  BY Zenon DEF Select, After
<1>2. DOMAIN matchers = Sorts /\ Plain(full.trail)
  BY DEF Setting, TreesReady, Agrees
<1>3. Plain(full_result.trail)
  BY <1>1, <1>2, FullMatchIsPlain, DecidedIsPlain
<1>4. CASE entry.value.kind = "unknown"
  BY <1>1, <1>3, <1>4, UnknownAgrees DEF IsInexact
<1>5. CASE entry.value.kind = "error"
  BY <1>1, <1>3, <1>5, ErrorsAgree DEF IsInexact, Agrees
<1>6. CASE ~IsInexact(entry.value)
  <2>1. ~IsInexact(full.value) /\ full.value.kind = entry.value.kind
    BY <1>6, AgreeFacts
  <2>2. CASE entry.value.kind = "map"
    BY <1>1, <1>6, <2>1, <2>2, MatchStepAgrees
  <2>3. CASE entry.value.kind # "map"
    BY <1>1, <1>6, <2>1, <2>3, DecidedError DEF InvalidTarget
  <2> QED BY <2>2, <2>3
<1> QED BY <1>4, <1>5, <1>6 DEF IsInexact

-----------------------------------------------------------------------------
(* The index step.                                                         *)

LEMMA TwoMerged ==
  ASSUME NEW u, NEW w, NamesAttributes(u), NamesAttributes(w)
  PROVE  /\ AccumulatorOK(MergeValues(<<u, w>>))
         /\ MergeValues(<<u, w>>).empty <=> u.kind # "unknown" /\ w.kind # "unknown"
<1> PICK pair : pair = <<u, w>>
  OBVIOUS
<1>1. DOMAIN pair = 1 .. 2 /\ pair[1] = u /\ pair[2] = w
  OBVIOUS
<1>2. \A i \in 1 .. 2 : i = 1 \/ i = 2
  OBVIOUS
<1>3. \A i \in 1 .. 2 : NamesAttributes(pair[i])
  BY <1>1, <1>2
<1>4. /\ AccumulatorOK(MergeValues(pair))
      /\ MergeValues(pair).empty <=> \A i \in 1 .. 2 : pair[i].kind # "unknown"
  BY <1>1, <1>3, MergeOK
<1>5. 1 \in 1 .. 2 /\ 2 \in 1 .. 2
  OBVIOUS
<1> QED BY <1>1, <1>2, <1>4, <1>5

LEMMA TwoMergedNothing ==
  ASSUME NEW u, NEW w, u.kind # "unknown", w.kind # "unknown"
  PROVE  MergeValues(<<u, w>>) = NoUnknowns
<1> PICK pair : pair = <<u, w>>
  OBVIOUS
<1>1. DOMAIN pair = 1 .. 2 /\ pair[1] = u /\ pair[2] = w
  OBVIOUS
<1>2. \A i \in 1 .. 2 : i = 1 \/ i = 2
  OBVIOUS
<1>3. \A i \in 1 .. 2 : pair[i].kind # "unknown"
  BY <1>1, <1>2
<1> QED BY <1>1, <1>3, MergeNothing

LEMMA UnknownResult ==
  ASSUME NEW acc, AccumulatorOK(acc)
  PROVE  /\ Sound(Decided(UnknownOf(Accumulate(acc))))
         /\ Decided(UnknownOf(Accumulate(acc))).value.kind = "unknown"
<1>1. PICK S \in AttributeSets : S = Accumulate(acc)
  BY AccumulateOK
<1>2. Sound(Decided(UnknownOf(S)))
  BY UnknownIsWholesome, DecidedIsSound
<1>3. Decided(UnknownOf(S)).value = UnknownOf(S) /\ UnknownOf(S).kind = "unknown"
  BY KindsApart
<1> QED BY <1>1, <1>2, <1>3

NoStep == [value |-> Undecided, trail |-> NoTrail]

LookupStep(m, container, qualifier) ==
  IF qualifier = Wildcard THEN NoStep ELSE Match(m, container.trail, qualifier)

LEMMA LookupCases ==
  ASSUME NEW m, NEW container, NEW key
  PROVE  LET unknowns == MergeValues(<<container.value, key.value>>)
             step     == LookupStep(m, container, QualifierOf(key.value)) IN
         PerformLookup(m, container, key) =
           IF ~unknowns.empty THEN Decided(UnknownOf(Accumulate(unknowns)))
           ELSE IF step.value # Undecided THEN step
           ELSE IF container.value.kind = "error" THEN Decided(container.value)
           ELSE IF key.value.kind = "error" THEN Decided(key.value)
           ELSE After(step, LookupInContainer(container.value, key.value))
BY Zenon DEF PerformLookup, LookupStep, NoStep, After

LEMMA AfterNoStep == \A v : After(NoStep, v) = Decided(v)
BY DEF After, NoStep, Decided

LEMMA QualifiersOfKeys ==
  ASSUME PrintsNames, NEW key, Wholesome(key)
  PROVE  /\ QualifierOf(key) \in Names \cup {Wildcard}
         /\ QualifierOf(key) = Wildcard <=> key.kind \notin {"int", "bool", "string"}
<1>1. \A name \in Names : name # Wildcard
  BY NamesQualify
<1>2. CASE key.kind \in {"int", "bool"}
  <2>1. QualifierOf(key) = ToString(key.content)
    BY <1>2 DEF QualifierOf
  <2> QED BY <1>1, <1>2, <2>1 DEF PrintsNames
<1>3. CASE key.kind = "string"
  <2>1. QualifierOf(key) = key.content /\ key.content \in Names
    BY <1>3, WholesomeFacts DEF QualifierOf
  <2> QED BY <1>1, <1>3, <2>1
<1>4. CASE key.kind \notin {"int", "bool", "string"}
  BY <1>4 DEF QualifierOf
<1> QED BY <1>2, <1>3, <1>4

LEMMA LookupStepIsPlain ==
  ASSUME DOMAIN matchers = Sorts, NEW full, Plain(full.trail), NEW qualifier
  PROVE  /\ LookupStep(AllKnown(matchers), full, qualifier).value \in {Undecided, MissingAttribute}
         /\ Plain(LookupStep(AllKnown(matchers), full, qualifier).trail)
         /\ \A v : Plain(After(LookupStep(AllKnown(matchers), full, qualifier), v).trail)
<1>1. CASE qualifier = Wildcard
  BY <1>1, AfterNoStep, DecidedIsPlain, KindsApart DEF LookupStep, NoStep
<1>2. CASE qualifier # Wildcard
  BY <1>2, FullMatch, FullStepIsPlain, FullMatchIsPlain DEF LookupStep
<1> QED BY <1>1, <1>2

LEMMA FullLookupIsPlain ==
  ASSUME DOMAIN matchers = Sorts, NEW full, Plain(full.trail), NEW key
  PROVE  Plain(PerformLookup(AllKnown(matchers), full, key).trail)
BY LookupCases, LookupStepIsPlain, DecidedIsPlain

LEMMA OtherKeysFail ==
  ASSUME NEW container, NEW key, key.kind \notin {"int", "bool", "string"}
  PROVE  \E c : LookupInContainer(container, key) = ErrorOf(c)
BY DEF LookupInContainer

LEMMA IndexAgrees ==
  ASSUME NEW values, Setting(values),
         NEW entry, Sound(entry), NEW full, Agrees(entry, full, values),
         NEW key, Sound(key), NEW full_key, Agrees(key, full_key, values)
  PROVE  /\ Sound(PerformLookup(matchers, entry, key))
         /\ Agrees(PerformLookup(matchers, entry, key),
                   PerformLookup(AllKnown(matchers), full, full_key), values)
<1> PICK result, full_result : /\ result = PerformLookup(matchers, entry, key)
                               /\ full_result = PerformLookup(AllKnown(matchers), full, full_key)
  OBVIOUS
<1> PICK unknowns : unknowns = MergeValues(<<entry.value, key.value>>)
  OBVIOUS
<1> PICK qualifier : qualifier = QualifierOf(key.value)
  OBVIOUS
<1> PICK step : step = LookupStep(matchers, entry, qualifier)
  OBVIOUS
<1> PICK full_step : full_step = LookupStep(AllKnown(matchers), full, QualifierOf(full_key.value))
  OBVIOUS
<1>1. /\ DOMAIN matchers = Sorts /\ TreesReady /\ PrintsNames
      /\ Plain(full.trail) /\ TrailSound(entry.trail)
      /\ Wholesome(entry.value) /\ Wholesome(key.value)
  BY DEF Setting, TreesReady, Agrees, Sound
<1>2. result = IF ~unknowns.empty THEN Decided(UnknownOf(Accumulate(unknowns)))
               ELSE IF step.value # Undecided THEN step
               ELSE IF entry.value.kind = "error" THEN Decided(entry.value)
               ELSE IF key.value.kind = "error" THEN Decided(key.value)
               ELSE After(step, LookupInContainer(entry.value, key.value))
  BY LookupCases
<1>3. /\ AccumulatorOK(unknowns)
      /\ unknowns.empty <=> entry.value.kind # "unknown" /\ key.value.kind # "unknown"
  BY <1>1, TwoMerged, WholesomeFacts
<1>4. Plain(full_result.trail)
  BY <1>1, FullLookupIsPlain
<1>5. CASE ~unknowns.empty
  BY <1>2, <1>3, <1>4, <1>5, UnknownResult, UnknownAgrees
<1>6. CASE unknowns.empty
  <2>1. full_result = IF full_step.value # Undecided THEN full_step
                      ELSE IF full.value.kind = "error" THEN Decided(full.value)
                      ELSE IF full_key.value.kind = "error" THEN Decided(full_key.value)
                      ELSE After(full_step, LookupInContainer(full.value, full_key.value))
    <3>1. MergeValues(<<full.value, full_key.value>>).empty
      BY <1>3, <1>6, KnownAgrees, TwoMergedNothing, NothingOK
    <3> QED BY <3>1, LookupCases
  <2>2. full_step.value \in {Undecided, MissingAttribute}
    BY <1>1, LookupStepIsPlain
  <2>3. qualifier \in Names \cup {Wildcard}
    BY <1>1, QualifiersOfKeys
  <2>4. CASE entry.value.kind = "error" \/ key.value.kind = "error"
    <3>1. full.value.kind = "error" \/ full_key.value.kind = "error"
      BY <2>4 DEF Agrees
    <3>2. full_result.value.kind = "error"
      BY <2>1, <2>2, <3>1, KindsApart
    <3>3. CASE step.value = Undecided
      <4>1. result = Decided(entry.value) \/ result = Decided(key.value)
        BY <1>2, <1>6, <2>4, <3>3
      <4>2. result.value.kind = "error"
        BY <1>2, <1>6, <2>4, <3>3, KindsApart
      <4> QED BY <1>1, <1>4, <3>2, <4>1, <4>2, DecidedIsSound, ErrorsAgree
    <3>4. CASE step.value # Undecided
      <4>1. result = step
        BY <1>2, <1>6, <3>4
      <4>2. qualifier # Wildcard /\ step = Match(matchers, entry.trail, qualifier)
        BY <3>4 DEF LookupStep, NoStep
      <4>3. StepSound(step)
        BY <1>1, <2>3, <4>2, MatchIsSound
      <4>4. CASE step = Decided(MissingAttribute)
        BY <1>4, <3>2, <4>1, <4>4, KindsApart, ErrorCodes, DecidedIsSound, ErrorsAgree DEF MissingAttribute
      <4>5. ASSUME NEW path, IsAttribute(path), step = Decided(UnknownOf({path}))
            PROVE  Sound(result) /\ Agrees(result, full_result, values)
        <5>1. {path} \in AttributeSets
          BY <4>5, AttributeSetFacts
        <5>2. result.value = UnknownOf({path}) /\ UnknownOf({path}).kind = "unknown"
          BY <4>1, <4>5, KindsApart
        <5> QED BY <1>4, <4>1, <4>5, <5>1, <5>2, UnknownIsWholesome, DecidedIsSound, UnknownAgrees
      <4> QED BY <3>4, <4>3, <4>4, <4>5 DEF StepSound
    <3> QED BY <3>3, <3>4
  <2>5. CASE entry.value.kind # "error" /\ key.value.kind # "error"
    <3>1. ~IsInexact(entry.value) /\ ~IsInexact(key.value)
      BY <1>3, <1>6, <2>5 DEF IsInexact
    <3>2. /\ full.value.kind # "error" /\ full_key.value.kind # "error"
          /\ full_key.value.kind = key.value.kind
          /\ key.value.kind \notin {"map", "list"} => full_key.value = key.value
      BY <3>1, AgreeFacts DEF IsInexact
    <3>3. /\ result = After(step, LookupInContainer(entry.value, key.value))
          /\ full_result = After(full_step, LookupInContainer(full.value, full_key.value))
      BY <1>2, <1>6, <2>1, <2>5, <3>2 DEF After
    <3>4. CASE qualifier = Wildcard
      <4>1. key.value.kind \notin {"int", "bool", "string"}
        BY <1>1, <3>4, QualifiersOfKeys
      <4>2. QualifierOf(full_key.value) = Wildcard
        BY <3>2, <4>1 DEF QualifierOf
      <4>3. step = NoStep /\ full_step = NoStep
        BY <3>4, <4>2 DEF LookupStep
      <4>4. PICK c : LookupInContainer(entry.value, key.value) = ErrorOf(c)
        BY <4>1, OtherKeysFail
      <4>5. PICK d : LookupInContainer(full.value, full_key.value) = ErrorOf(d)
        BY <3>2, <4>1, OtherKeysFail
      <4>6. result = Decided(ErrorOf(c)) /\ full_result = Decided(ErrorOf(d))
        BY <3>3, <4>3, <4>4, <4>5, AfterNoStep
      <4>7. result.value = ErrorOf(c) /\ full_result.value = ErrorOf(d)
        BY <4>6, KindsApart
      <4> QED BY <1>4, <4>6, <4>7, ErrorCodes, DecidedIsSound, ErrorsAgree
    <3>5. CASE qualifier # Wildcard
      <4>1. key.value.kind \in {"int", "bool", "string"} /\ qualifier \in Names
        BY <1>1, <2>3, <3>5, QualifiersOfKeys
      <4>2. full_key.value = key.value
        BY <3>2, <4>1
      <4>3. /\ step = Match(matchers, entry.trail, qualifier)
            /\ full_step = Match(AllKnown(matchers), full.trail, qualifier)
        BY <3>5, <4>2 DEF LookupStep
      <4>4. /\ Wholesome(LookupInContainer(entry.value, key.value))
            /\ PartsAgree(entry, values, qualifier, LookupInContainer(entry.value, key.value),
                          LookupInContainer(full.value, key.value))
        BY <3>1, LookupsAgree
      <4> QED BY <3>1, <3>3, <4>1, <4>2, <4>3, <4>4, MatchStepAgrees
    <3> QED BY <3>4, <3>5
  <2> QED BY <2>4, <2>5
<1> QED BY <1>5, <1>6

-----------------------------------------------------------------------------
(* The equality step.                                                      *)

LEMMA ArgumentOK ==
  ASSUME TreesReady, NEW acc, AccumulatorOK(acc), NEW argument, Sound(argument)
  PROVE  /\ AccumulatorOK(MaybeAddArgument(acc, matchers, argument))
         /\ MaybeAddArgument(acc, matchers, argument).empty
              <=> acc.empty /\ AsksNothing(matchers, argument)
<1> PICK node : node = GetNotFullUnknownMatch(matchers, argument.trail)
  OBVIOUS
<1>1. node # NoNode => IsAttribute(node)
  BY AskedOfTrail DEF Sound
<1>2. NamesAttributes(argument.value)
  BY WholesomeFacts DEF Sound
<1>3. CASE argument.value.kind = "unknown"
  <2>1. argument.value.content \in AttributeSets
    BY <1>2, <1>3 DEF NamesAttributes
  <2>2. MaybeAddArgument(acc, matchers, argument) = AddSet(acc, argument.value.content)
    BY <1>3 DEF MaybeAddArgument
  <2> QED BY <1>3, <2>1, <2>2, AddSetOK DEF AsksNothing
<1>4. CASE argument.value.kind # "unknown" /\ node # NoNode
  <2>1. MaybeAddArgument(acc, matchers, argument) = AddNode(acc, node)
    BY <1>4 DEF MaybeAddArgument, MaybeAddTrail
  <2> QED BY <1>1, <1>4, <2>1, AddNodeOK DEF AsksNothing
<1>5. CASE argument.value.kind # "unknown" /\ node = NoNode
  <2>1. MaybeAddArgument(acc, matchers, argument) = acc
    BY <1>5 DEF MaybeAddArgument, MaybeAddTrail
  <2> QED BY <1>5, <2>1 DEF AsksNothing
<1> QED BY <1>3, <1>4, <1>5

LEMMA PlainArgument ==
  ASSUME NEW acc, NEW m, NEW argument, argument.value.kind # "unknown", Plain(argument.trail)
  PROVE  MaybeAddArgument(acc, m, argument) = acc /\ AsksNothing(m, argument)
<1>1. GetNotFullUnknownMatch(m, argument.trail) = NoNode
  BY NothingAskedOfPlain
<1> QED BY <1>1 DEF MaybeAddArgument, MaybeAddTrail, AsksNothing

\* A value of which nothing is asked is the same in both.
LEMMA AskedNothing ==
  ASSUME NEW values, Setting(values), NEW entry, Sound(entry), NEW full,
         Agrees(entry, full, values), AsksNothing(matchers, entry), entry.value.kind # "error"
  PROVE  full.value = entry.value
<1>1. ~IsInexact(entry.value)
  BY DEF AsksNothing, IsInexact
<1>2. PartialUnknownMatch(matchers, entry.trail) = NoNode
  BY AskedOfTrail DEF AsksNothing, Sound, Setting
<1> QED BY <1>1, <1>2, AgreeFacts

LEMMA EqualityIsPlain ==
  ASSUME NEW m, NEW lhs, NEW rhs
  PROVE  Plain(Equality(m, lhs, rhs).trail)
BY DecidedIsPlain DEF Equality

LEMMA EqualityAgrees ==
  ASSUME NEW values, Setting(values),
         NEW lhs, Sound(lhs), NEW full_lhs, Agrees(lhs, full_lhs, values),
         NEW rhs, Sound(rhs), NEW full_rhs, Agrees(rhs, full_rhs, values)
  PROVE  /\ Sound(Equality(matchers, lhs, rhs))
         /\ Agrees(Equality(matchers, lhs, rhs), Equality(AllKnown(matchers), full_lhs, full_rhs), values)
<1> PICK result, full_result : /\ result = Equality(matchers, lhs, rhs)
                               /\ full_result = Equality(AllKnown(matchers), full_lhs, full_rhs)
  OBVIOUS
<1> PICK unknowns : unknowns = MaybeAddArgument(MaybeAddArgument(NoUnknowns, matchers, lhs), matchers, rhs)
  OBVIOUS
<1> PICK full_unknowns :
      full_unknowns = MaybeAddArgument(MaybeAddArgument(NoUnknowns, AllKnown(matchers), full_lhs),
                                       AllKnown(matchers), full_rhs)
  OBVIOUS
<1>1. result = Decided(IF lhs.value.kind = "error" THEN lhs.value
                       ELSE IF rhs.value.kind = "error" THEN rhs.value
                       ELSE IF ~unknowns.empty THEN UnknownOf(Accumulate(unknowns))
                       ELSE BoolOf(SameValue(lhs.value, rhs.value)))
  BY Zenon DEF Equality
<1>2. full_result = Decided(IF full_lhs.value.kind = "error" THEN full_lhs.value
                            ELSE IF full_rhs.value.kind = "error" THEN full_rhs.value
                            ELSE IF ~full_unknowns.empty THEN UnknownOf(Accumulate(full_unknowns))
                            ELSE BoolOf(SameValue(full_lhs.value, full_rhs.value)))
  BY Zenon DEF Equality
<1>3. /\ TreesReady /\ Wholesome(lhs.value) /\ Wholesome(rhs.value)
      /\ Plain(full_lhs.trail) /\ Plain(full_rhs.trail) /\ Plain(full_result.trail)
  BY EqualityIsPlain DEF Setting, Sound, Agrees
<1>4. /\ AccumulatorOK(unknowns)
      /\ unknowns.empty <=> AsksNothing(matchers, lhs) /\ AsksNothing(matchers, rhs)
  <2> PICK first : first = MaybeAddArgument(NoUnknowns, matchers, lhs)
    OBVIOUS
  <2>1. AccumulatorOK(first) /\ (first.empty <=> AsksNothing(matchers, lhs))
    BY <1>3, NothingOK, ArgumentOK
  <2> QED BY <1>3, <2>1, ArgumentOK
<1>5. CASE lhs.value.kind = "error"
  <2>1. result = Decided(lhs.value) /\ full_result = Decided(full_lhs.value)
    BY <1>1, <1>2, <1>5 DEF Agrees
  <2>2. result.value.kind = "error" /\ full_result.value.kind = "error"
    BY <1>5, <2>1, KindsApart DEF Agrees
  <2> QED BY <1>3, <2>1, <2>2, DecidedIsSound, ErrorsAgree
<1>6. CASE lhs.value.kind # "error" /\ rhs.value.kind = "error"
  <2>1. result = Decided(rhs.value)
    BY <1>1, <1>6
  <2>2. \/ full_result = Decided(full_lhs.value) /\ full_lhs.value.kind = "error"
        \/ full_result = Decided(full_rhs.value) /\ full_rhs.value.kind = "error"
    BY <1>2, <1>6 DEF Agrees
  <2>3. result.value.kind = "error" /\ full_result.value.kind = "error"
    BY <1>6, <2>1, <2>2, KindsApart
  <2> QED BY <1>3, <2>1, <2>3, DecidedIsSound, ErrorsAgree
<1>7. CASE lhs.value.kind # "error" /\ rhs.value.kind # "error" /\ ~unknowns.empty
  <2>1. result = Decided(UnknownOf(Accumulate(unknowns)))
    BY <1>1, <1>7
  <2> QED BY <1>3, <1>4, <2>1, UnknownResult, UnknownAgrees
<1>8. CASE lhs.value.kind # "error" /\ rhs.value.kind # "error" /\ unknowns.empty
  <2>1. full_lhs.value = lhs.value /\ full_rhs.value = rhs.value
    BY <1>4, <1>8, AskedNothing
  <2>2. full_lhs.value.kind # "unknown" /\ full_rhs.value.kind # "unknown"
    BY <1>4, <1>8, <2>1 DEF AsksNothing
  <2>3. full_unknowns = NoUnknowns
    BY <1>3, <2>2, PlainArgument
  <2>4. result = Decided(BoolOf(SameValue(lhs.value, rhs.value))) /\ full_result = result
    BY <1>1, <1>2, <1>8, <2>1, <2>3, NothingOK
  <2> QED BY <2>4, ScalarsAreWholesome, DecidedIsSound, SameDecided
<1> QED BY <1>5, <1>6, <1>7, <1>8

-----------------------------------------------------------------------------
(* The steps that take any number of arguments.                            *)

\* The arguments of a step, one by one.
ArgumentsAgree(n, arguments, full, values) ==
  /\ DOMAIN arguments = 1 .. n
  /\ DOMAIN full = 1 .. n
  /\ Len(arguments) = n /\ Len(full) = n
  /\ \A i \in 1 .. n : Sound(arguments[i]) /\ Agrees(arguments[i], full[i], values)

LEMMA LeastIsOne ==
  ASSUME NEW n \in Nat, NEW S \in SUBSET (1 .. n), S # {}
  PROVE  Min(S) \in S
<1>1. PICK i \in S : \A j \in S : i <= j
  BY LeastExists
<1> QED BY <1>1, Zenon DEF Min

LEMMA FirstErrorFacts ==
  ASSUME NEW n \in Nat, NEW values, Len(values) = n
  PROVE  /\ FirstError(values) = 0 <=> \A i \in 1 .. n : values[i].kind # "error"
         /\ FirstError(values) # 0 =>
              FirstError(values) \in 1 .. n /\ values[FirstError(values)].kind = "error"
<1> DEFINE I == {i \in 1 .. n : values[i].kind = "error"}
<1>1. FirstError(values) = IF I # {} THEN Min(I) ELSE 0
  BY DEF FirstError, SelectInSeq
<1>2. I # {} => Min(I) \in I
  BY LeastIsOne
<1>3. CASE I = {}
  <2>1. \A i \in 1 .. n : values[i].kind # "error"
    BY <1>3
  <2>2. FirstError(values) = 0
    BY <1>1, <1>3
  <2> QED BY <2>1, <2>2
<1>4. CASE I # {}
  <2> PICK i \in 1 .. n : i = FirstError(values) /\ values[i].kind = "error"
    BY <1>1, <1>2, <1>4
  <2>1. FirstError(values) # 0 /\ FirstError(values) \in 1 .. n /\ values[FirstError(values)].kind = "error"
    OBVIOUS
  <2> QED BY <2>1
<1> QED BY <1>3, <1>4

Wrong(values) == SelectInSeq(values, LAMBDA v : v.kind # "bool" /\ v.kind # "unknown")

LEMMA WrongFacts ==
  ASSUME NEW n \in Nat, NEW values, Len(values) = n
  PROVE  /\ Wrong(values) = 0 <=> \A i \in 1 .. n : values[i].kind \in {"bool", "unknown"}
         /\ Wrong(values) # 0 =>
              Wrong(values) \in 1 .. n /\ values[Wrong(values)].kind \notin {"bool", "unknown"}
<1> DEFINE I == {i \in 1 .. n : values[i].kind \notin {"bool", "unknown"}}
<1>1. Wrong(values) = IF I # {} THEN Min(I) ELSE 0
  <2>1. I = {i \in 1 .. n : values[i].kind # "bool" /\ values[i].kind # "unknown"}
    OBVIOUS
  <2> QED BY <2>1 DEF Wrong, SelectInSeq
<1>2. I # {} => Min(I) \in I
  BY LeastIsOne
<1>3. CASE I = {}
  <2>1. \A i \in 1 .. n : values[i].kind \in {"bool", "unknown"}
    BY <1>3
  <2>2. Wrong(values) = 0
    BY <1>1, <1>3
  <2> QED BY <2>1, <2>2
<1>4. CASE I # {}
  <2> PICK i \in 1 .. n : i = Wrong(values) /\ values[i].kind \notin {"bool", "unknown"}
    BY <1>1, <1>2, <1>4
  <2>1. Wrong(values) # 0 /\ Wrong(values) \in 1 .. n /\ values[Wrong(values)].kind \notin {"bool", "unknown"}
    OBVIOUS
  <2> QED BY <2>1
<1> QED BY <1>3, <1>4

LEMMA ValuesOf ==
  ASSUME NEW n \in Nat, NEW arguments, DOMAIN arguments = 1 .. n, NEW values,
         values = [i \in DOMAIN arguments |-> arguments[i].value]
  PROVE  /\ DOMAIN values = 1 .. n /\ Len(values) = n
         /\ \A i \in 1 .. n : values[i] = arguments[i].value
OBVIOUS

\* What decides a conjunction.
IsFalse(v) == v.kind = "bool" /\ ~v.content

\* What a logic step makes of values.
Conjunction(values) ==
  LET unknowns == MergeValues(values)
      wrong    == Wrong(values)
  IN  IF \E i \in DOMAIN values : IsFalse(values[i]) THEN BoolOf(FALSE)
      ELSE IF ~unknowns.empty THEN UnknownOf(Accumulate(unknowns))
      ELSE IF wrong = 0 THEN BoolOf(TRUE)
      ELSE IF values[wrong].kind = "error" THEN values[wrong]
      ELSE NoSuchOverload

LEMMA LogicIsConjunction ==
  ASSUME NEW arguments, NEW values, values = [i \in DOMAIN arguments |-> arguments[i].value]
  PROVE  LogicAnd(arguments) = Decided(Conjunction(values))
<1>1. LogicAnd(arguments) = Decided(Conjunction([i \in DOMAIN arguments |-> arguments[i].value]))
  BY DEF LogicAnd, Conjunction, Wrong, IsFalse
<1> QED BY <1>1, Zenon

LEMMA AndAgrees ==
  ASSUME NEW values, Setting(values), NEW n \in Nat, NEW arguments, NEW full,
         ArgumentsAgree(n, arguments, full, values)
  PROVE  /\ Sound(LogicAnd(arguments))
         /\ Agrees(LogicAnd(arguments), LogicAnd(full), values)
<1> PICK v : v = [i \in DOMAIN arguments |-> arguments[i].value]
  OBVIOUS
<1> PICK w : w = [i \in DOMAIN full |-> full[i].value]
  OBVIOUS
<1> PICK unknowns : unknowns = MergeValues(v)
  OBVIOUS
<1>1. /\ DOMAIN v = 1 .. n /\ Len(v) = n /\ \A i \in 1 .. n : v[i] = arguments[i].value
      /\ DOMAIN w = 1 .. n /\ Len(w) = n /\ \A i \in 1 .. n : w[i] = full[i].value
  BY ValuesOf DEF ArgumentsAgree
<1>2. LogicAnd(arguments) = Decided(Conjunction(v)) /\ LogicAnd(full) = Decided(Conjunction(w))
  BY LogicIsConjunction
<1>3. ASSUME NEW i \in 1 .. n
      PROVE  /\ Wholesome(v[i]) /\ NamesAttributes(v[i])
             /\ v[i].kind = "error" => w[i].kind = "error"
             /\ v[i].kind \notin {"error", "unknown"} => w[i].kind = v[i].kind
             /\ v[i].kind = "bool" => w[i] = v[i]
             /\ v[i].kind # "unknown" => w[i].kind # "unknown"
  <2>1. Sound(arguments[i]) /\ Agrees(arguments[i], full[i], values)
    BY DEF ArgumentsAgree
  <2>2. Wholesome(v[i]) /\ NamesAttributes(v[i])
    BY <1>1, <2>1, WholesomeFacts DEF Sound
  <2>3. v[i].kind = "error" => w[i].kind = "error"
    BY <1>1, <2>1 DEF Agrees
  <2>4. ASSUME v[i].kind \notin {"error", "unknown"}
        PROVE  w[i].kind = v[i].kind /\ (v[i].kind = "bool" => w[i] = v[i])
    BY <1>1, <2>1, <2>4, AgreeFacts DEF IsInexact
  <2> QED BY <2>2, <2>3, <2>4
<1>4. /\ AccumulatorOK(unknowns)
      /\ unknowns.empty <=> \A i \in 1 .. n : v[i].kind # "unknown"
  BY <1>1, <1>3, MergeOK
<1>5. Plain(Decided(Conjunction(w)).trail)
  BY DecidedIsPlain
<1>6. CASE \E i \in 1 .. n : IsFalse(v[i])
  <2>1. \E i \in 1 .. n : IsFalse(w[i])
    BY <1>3, <1>6 DEF IsFalse
  <2>2. Conjunction(v) = BoolOf(FALSE) /\ Conjunction(w) = BoolOf(FALSE)
    BY <1>1, <1>6, <2>1, Zenon DEF Conjunction
  <2> QED BY <1>2, <2>2, ScalarsAreWholesome, DecidedIsSound, SameDecided
<1>7. CASE ~(\E i \in 1 .. n : IsFalse(v[i])) /\ ~unknowns.empty
  <2>1. Conjunction(v) = UnknownOf(Accumulate(unknowns))
    BY <1>1, <1>7, Zenon DEF Conjunction
  <2> QED BY <1>2, <1>4, <1>5, <2>1, UnknownResult, UnknownAgrees
<1>8. CASE ~(\E i \in 1 .. n : IsFalse(v[i])) /\ unknowns.empty
  <2>1. \A i \in 1 .. n : v[i].kind # "unknown" /\ w[i].kind # "unknown"
    BY <1>3, <1>4, <1>8
  <2>2. ~(\E i \in 1 .. n : IsFalse(w[i]))
    <3> SUFFICES ASSUME NEW i \in 1 .. n, IsFalse(w[i]) PROVE FALSE
      OBVIOUS
    <3>1. w[i].kind = "bool"
      BY DEF IsFalse
    <3>2. v[i].kind = "bool"
      BY <1>3, <2>1, <3>1
    <3>3. w[i] = v[i]
      BY <1>3, <3>2
    <3> QED BY <1>8, <3>3
  <2>3. MergeValues(w).empty
    BY <1>1, <2>1, MergeNothing, NothingOK
  <2>4. /\ Conjunction(v) = IF Wrong(v) = 0 THEN BoolOf(TRUE)
                            ELSE IF v[Wrong(v)].kind = "error" THEN v[Wrong(v)] ELSE NoSuchOverload
        /\ Conjunction(w) = IF Wrong(w) = 0 THEN BoolOf(TRUE)
                            ELSE IF w[Wrong(w)].kind = "error" THEN w[Wrong(w)] ELSE NoSuchOverload
    BY <1>1, <1>8, <2>2, <2>3, Zenon DEF Conjunction
  <2>5. CASE Wrong(v) = 0
    <3>1. \A i \in 1 .. n : v[i].kind = "bool"
      BY <1>1, <2>1, <2>5, WrongFacts
    <3>2. \A i \in 1 .. n : w[i].kind = "bool"
      BY <1>3, <3>1
    <3>3. Wrong(w) = 0
      BY <1>1, <3>2, WrongFacts
    <3> QED BY <1>2, <2>4, <2>5, <3>3, ScalarsAreWholesome, DecidedIsSound, SameDecided
  <2>6. CASE Wrong(v) # 0
    <3>1. Wrong(v) \in 1 .. n /\ v[Wrong(v)].kind \notin {"bool", "unknown"}
      BY <1>1, <2>6, WrongFacts
    <3>2. w[Wrong(v)].kind \notin {"bool", "unknown"}
      BY <1>3, <2>1, <3>1
    <3>3. Wrong(w) # 0
      BY <1>1, <3>1, <3>2, WrongFacts
    <3>4. NoSuchOverload.kind = "error" /\ Wholesome(NoSuchOverload)
      BY ErrorCodes DEF NoSuchOverload
    <3>5. Conjunction(w).kind = "error" /\ Conjunction(v).kind = "error" /\ Wholesome(Conjunction(v))
      BY <1>3, <2>4, <2>6, <3>1, <3>3, <3>4
    <3>6. Decided(Conjunction(v)).value = Conjunction(v) /\ Decided(Conjunction(w)).value = Conjunction(w)
      BY KindsApart
    <3> QED BY <1>2, <1>5, <3>5, <3>6, DecidedIsSound, ErrorsAgree
  <2> QED BY <2>5, <2>6
<1> QED BY <1>6, <1>7, <1>8

-----------------------------------------------------------------------------
(* The call step and the list step.                                        *)

\* The values of a call's arguments, those of partially unknown ones replaced.
LEMMA Checked ==
  ASSUME NEW values, Setting(values), NEW n \in Nat, NEW arguments, NEW full,
         ArgumentsAgree(n, arguments, full, values),
         NEW v, v = CheckForPartialUnknowns(matchers, arguments),
         NEW w, w = CheckForPartialUnknowns(AllKnown(matchers), full)
  PROVE  /\ v = [i \in 1 .. n |-> v[i]] /\ w = [i \in 1 .. n |-> w[i]]
         /\ DOMAIN v = 1 .. n /\ Len(v) = n /\ DOMAIN w = 1 .. n /\ Len(w) = n
         /\ \A i \in 1 .. n :
              /\ Wholesome(v[i]) /\ NamesAttributes(v[i])
              /\ v[i].kind = "error" => w[i].kind = "error"
              /\ ~IsInexact(v[i]) => w[i] = v[i]
<1>1. DOMAIN arguments = 1 .. n /\ DOMAIN full = 1 .. n
  BY DEF ArgumentsAgree
<1>2. v = [i \in 1 .. n |-> LET node == PartialUnknownMatch(matchers, arguments[i].trail)
                            IN  IF node = NoNode THEN arguments[i].value ELSE UnknownOf({node})]
  BY <1>1 DEF CheckForPartialUnknowns
<1>3. w = [i \in 1 .. n |-> LET node == PartialUnknownMatch(AllKnown(matchers), full[i].trail)
                            IN  IF node = NoNode THEN full[i].value ELSE UnknownOf({node})]
  BY <1>1 DEF CheckForPartialUnknowns
<1>4. ASSUME NEW i \in 1 .. n
      PROVE  /\ Wholesome(v[i]) /\ NamesAttributes(v[i])
             /\ v[i].kind = "error" => w[i].kind = "error"
             /\ ~IsInexact(v[i]) => w[i] = v[i]
  <2>1. Sound(arguments[i]) /\ Agrees(arguments[i], full[i], values) /\ TreesReady
    BY DEF ArgumentsAgree, Setting
  <2> PICK node : node = PartialUnknownMatch(matchers, arguments[i].trail)
    OBVIOUS
  <2>2. v[i] = IF node = NoNode THEN arguments[i].value ELSE UnknownOf({node})
    BY <1>2
  <2>3. w[i] = full[i].value
    BY <1>3, <2>1, NothingAskedOfPlain DEF Agrees
  <2>4. CASE node = NoNode
    <3>1. v[i] = arguments[i].value
      BY <2>2, <2>4
    <3>2. Wholesome(v[i]) /\ NamesAttributes(v[i])
      BY <2>1, <3>1, WholesomeFacts DEF Sound
    <3>3. v[i].kind = "error" => w[i].kind = "error"
      BY <2>1, <2>3, <3>1 DEF Agrees
    <3>4. ASSUME ~IsInexact(v[i]) PROVE w[i] = v[i]
      <4>1. ~IsInexact(arguments[i].value)
        BY <3>1, <3>4
      <4> PICK entry, other : entry = arguments[i] /\ other = full[i]
        OBVIOUS
      <4>2. other.value = entry.value
        <5>1. Agrees(entry, other, values) /\ ~IsInexact(entry.value)
          BY <2>1, <4>1
        <5>2. PartialUnknownMatch(matchers, entry.trail) = NoNode
          BY <2>4
        <5> QED BY <5>1, <5>2, AgreeFacts
      <4> QED BY <2>3, <3>1, <4>2
    <3> QED BY <3>2, <3>3, <3>4
  <2>5. CASE node # NoNode
    <3>1. v[i] = UnknownOf({node}) /\ v[i].kind = "unknown"
      BY <2>2, <2>5, KindsApart
    <3>2. {node} \in AttributeSets
      BY <2>1, <2>5, AskedOfTrail, AttributeSetFacts DEF Sound
    <3>3. Wholesome(v[i])
      BY <3>1, <3>2, UnknownIsWholesome
    <3> QED BY <3>1, <3>3, WholesomeFacts DEF IsInexact
  <2> QED BY <2>4, <2>5
<1>5. DOMAIN v = 1 .. n /\ Len(v) = n /\ DOMAIN w = 1 .. n /\ Len(w) = n
  BY <1>2, <1>3
<1>6. v = [i \in 1 .. n |-> v[i]] /\ w = [i \in 1 .. n |-> w[i]]
  BY <1>2, <1>3
<1> QED BY <1>4, <1>5, <1>6

\* What a call makes of the arguments that have been checked.
Called(function, kinds, v) ==
  IF [i \in DOMAIN v |-> v[i].kind] = kinds THEN Invoke(function, v) ELSE NoOverloadResult(v)

LEMMA CallIsCalled ==
  ASSUME NEW m, NEW function, NEW kinds, NEW arguments
  PROVE  CallFunction(m, function, kinds, arguments)
           = Decided(Called(function, kinds, CheckForPartialUnknowns(m, arguments)))
BY Zenon DEF CallFunction, Called

LEMMA CallAgrees ==
  ASSUME NEW values, Setting(values), NEW n \in Nat, NEW arguments, NEW full,
         ArgumentsAgree(n, arguments, full, values),
         NEW function \in {"size", "sum", "add"}, NEW kinds, \A i \in 1 .. n : kinds[i] \in Kinds
  PROVE  /\ Sound(CallFunction(matchers, function, kinds, arguments))
         /\ Agrees(CallFunction(matchers, function, kinds, arguments),
                   CallFunction(AllKnown(matchers), function, kinds, full), values)
<1> PICK v : v = CheckForPartialUnknowns(matchers, arguments)
  OBVIOUS
<1> PICK w : w = CheckForPartialUnknowns(AllKnown(matchers), full)
  OBVIOUS
<1> PICK unknowns : unknowns = MergeValues(v)
  OBVIOUS
<1> PICK result, full_result : /\ result = Decided(Called(function, kinds, v))
                               /\ full_result = Decided(Called(function, kinds, w))
  OBVIOUS
<1> DEFINE Matches(u) == [i \in DOMAIN u |-> u[i].kind] = kinds
<1>1. /\ result = CallFunction(matchers, function, kinds, arguments)
      /\ full_result = CallFunction(AllKnown(matchers), function, kinds, full)
  BY CallIsCalled
<1>2. /\ v = [i \in 1 .. n |-> v[i]] /\ w = [i \in 1 .. n |-> w[i]]
      /\ DOMAIN v = 1 .. n /\ Len(v) = n /\ DOMAIN w = 1 .. n /\ Len(w) = n
      /\ \A i \in 1 .. n :
           /\ Wholesome(v[i]) /\ NamesAttributes(v[i])
           /\ v[i].kind = "error" => w[i].kind = "error"
           /\ ~IsInexact(v[i]) => w[i] = v[i]
  BY Checked
<1>3. /\ AccumulatorOK(unknowns)
      /\ unknowns.empty <=> \A i \in 1 .. n : v[i].kind # "unknown"
  BY <1>2, MergeOK
<1>4. Plain(full_result.trail)
  BY DecidedIsPlain
<1>5. (\A i \in 1 .. n : ~IsInexact(v[i])) => w = v
  <2> SUFFICES ASSUME \A i \in 1 .. n : ~IsInexact(v[i]) PROVE w = v
    OBVIOUS
  <2>1. \A i \in 1 .. n : w[i] = v[i]
    BY <1>2
  <2> QED BY <1>2, <2>1
<1>6. \A i \in 1 .. n : kinds[i] \notin {"error", "unknown"}
  BY DEF Kinds
<1>7. \A u : DOMAIN u = 1 .. n /\ Matches(u) => \A i \in 1 .. n : u[i].kind = kinds[i]
  OBVIOUS
<1>8. /\ Matches(v) => Called(function, kinds, v) = Invoke(function, v)
      /\ ~Matches(v) => Called(function, kinds, v) = NoOverloadResult(v)
      /\ ~Matches(w) => Called(function, kinds, w) = NoOverloadResult(w)
  BY Zenon DEF Called
<1> HIDE DEF Matches
<1>9. CASE Matches(v)
  <2>1. \A i \in 1 .. n : ~IsInexact(v[i])
    BY <1>2, <1>6, <1>7, <1>9 DEF IsInexact
  <2>2. w = v
    BY <1>5, <2>1
  <2>3. \E c : Invoke(function, v) = IntOf(c)
    BY DEF Invoke
  <2>4. result = Decided(Invoke(function, v)) /\ full_result = result
    BY <1>8, <1>9, <2>2
  <2> QED BY <1>1, <2>3, <2>4, ScalarsAreWholesome, DecidedIsSound, SameDecided
<1>10. CASE ~Matches(v)
  <2>1. /\ FirstError(v) = 0 <=> \A i \in 1 .. n : v[i].kind # "error"
        /\ FirstError(v) # 0 => FirstError(v) \in 1 .. n /\ v[FirstError(v)].kind = "error"
        /\ FirstError(w) = 0 <=> \A i \in 1 .. n : w[i].kind # "error"
        /\ FirstError(w) # 0 => FirstError(w) \in 1 .. n /\ w[FirstError(w)].kind = "error"
    BY <1>2, FirstErrorFacts
  <2>2. NoOverloadResult(v) = IF FirstError(v) # 0 THEN v[FirstError(v)]
                              ELSE IF ~unknowns.empty THEN UnknownOf(Accumulate(unknowns))
                              ELSE NoSuchOverload
    BY Zenon DEF NoOverloadResult
  <2>3. FirstError(w) # 0 => NoOverloadResult(w) = w[FirstError(w)]
    BY Zenon DEF NoOverloadResult
  <2>4. CASE FirstError(v) # 0
    <3>1. w[FirstError(v)].kind = "error" /\ FirstError(v) \in 1 .. n
      BY <1>2, <2>1, <2>4
    <3>2. ~Matches(w)
      BY <1>2, <1>6, <1>7, <3>1
    <3>3. FirstError(w) # 0
      BY <2>1, <3>1
    <3>4. result = Decided(v[FirstError(v)]) /\ full_result = Decided(w[FirstError(w)])
      BY <1>8, <1>10, <2>2, <2>3, <2>4, <3>2, <3>3
    <3>5. result.value = v[FirstError(v)] /\ full_result.value = w[FirstError(w)]
      BY <3>4, KindsApart
    <3>6. Sound(result)
      BY <1>2, <3>1, <3>4, DecidedIsSound
    <3> QED BY <1>1, <1>4, <2>1, <2>4, <3>3, <3>5, <3>6, ErrorsAgree
  <2>5. CASE FirstError(v) = 0 /\ ~unknowns.empty
    <3>1. result = Decided(UnknownOf(Accumulate(unknowns)))
      BY <1>8, <1>10, <2>2, <2>5
    <3> QED BY <1>1, <1>3, <1>4, <3>1, UnknownResult, UnknownAgrees
  <2>6. CASE FirstError(v) = 0 /\ unknowns.empty
    <3>1. \A i \in 1 .. n : ~IsInexact(v[i])
      BY <1>3, <2>1, <2>6 DEF IsInexact
    <3>2. w = v
      BY <1>5, <3>1
    <3>3. result = Decided(NoSuchOverload) /\ full_result = result
      BY <1>8, <1>10, <2>2, <2>6, <3>2
    <3> QED BY <1>1, <3>3, DecidedError DEF NoSuchOverload
  <2> QED BY <2>4, <2>5, <2>6
<1> QED BY <1>9, <1>10

LEMMA ListAgrees ==
  ASSUME NEW values, Setting(values), NEW n \in Nat, NEW arguments, NEW full,
         ArgumentsAgree(n, arguments, full, values)
  PROVE  /\ Sound(CreateList(matchers, arguments))
         /\ Agrees(CreateList(matchers, arguments), CreateList(AllKnown(matchers), full), values)
<1> PICK m : m = AllKnown(matchers)
  OBVIOUS
<1> PICK v : v = [i \in DOMAIN arguments |-> arguments[i].value]
  OBVIOUS
<1> PICK w : w = [i \in DOMAIN full |-> full[i].value]
  OBVIOUS
<1> PICK unknowns : unknowns = PartiallyIdentifyAndMergeUnknowns(matchers, arguments)
  OBVIOUS
<1> PICK full_unknowns : full_unknowns = PartiallyIdentifyAndMergeUnknowns(m, full)
  OBVIOUS
<1> PICK result, full_result : /\ result = CreateList(matchers, arguments)
                               /\ full_result = CreateList(m, full)
  OBVIOUS
<1>1. result = IF FirstError(v) # 0 THEN arguments[FirstError(v)]
               ELSE Decided(IF ~unknowns.empty THEN UnknownOf(Accumulate(unknowns))
                            ELSE [kind |-> "list", content |-> v])
  BY Zenon DEF CreateList
<1>2. full_result = IF FirstError(w) # 0 THEN full[FirstError(w)]
                    ELSE Decided(IF ~full_unknowns.empty THEN UnknownOf(Accumulate(full_unknowns))
                                 ELSE [kind |-> "list", content |-> w])
  BY Zenon DEF CreateList
<1>3. /\ DOMAIN arguments = 1 .. n /\ DOMAIN full = 1 .. n
      /\ DOMAIN v = 1 .. n /\ Len(v) = n /\ \A i \in 1 .. n : v[i] = arguments[i].value
      /\ DOMAIN w = 1 .. n /\ Len(w) = n /\ \A i \in 1 .. n : w[i] = full[i].value
  BY ValuesOf DEF ArgumentsAgree
<1>4. ASSUME NEW i \in 1 .. n
      PROVE  /\ Sound(arguments[i]) /\ Agrees(arguments[i], full[i], values)
             /\ Plain(full[i].trail) /\ NamesAttributes(arguments[i].value) /\ Wholesome(v[i])
             /\ v[i].kind = "error" => w[i].kind = "error"
             /\ GetNotFullUnknownMatch(matchers, arguments[i].trail) # NoNode =>
                  IsAttribute(GetNotFullUnknownMatch(matchers, arguments[i].trail))
  <2>1. Sound(arguments[i]) /\ Agrees(arguments[i], full[i], values) /\ TreesReady
    BY DEF ArgumentsAgree, Setting
  <2>2. NamesAttributes(arguments[i].value) /\ Wholesome(v[i])
    BY <1>3, <2>1, WholesomeFacts DEF Sound
  <2>3. Plain(full[i].trail) /\ (v[i].kind = "error" => w[i].kind = "error")
    BY <1>3, <2>1 DEF Agrees
  <2>4. GetNotFullUnknownMatch(matchers, arguments[i].trail) # NoNode =>
          IsAttribute(GetNotFullUnknownMatch(matchers, arguments[i].trail))
    BY <2>1, AskedOfTrail DEF Sound
  <2> QED BY <2>1, <2>2, <2>3, <2>4
<1>5. /\ AccumulatorOK(unknowns)
      /\ unknowns.empty <=> \A i \in 1 .. n : AsksNothing(matchers, arguments[i])
  BY <1>3, <1>4, IdentifyOK
<1>6. /\ FirstError(v) = 0 <=> \A i \in 1 .. n : v[i].kind # "error"
      /\ FirstError(v) # 0 => FirstError(v) \in 1 .. n /\ v[FirstError(v)].kind = "error"
      /\ FirstError(w) = 0 <=> \A i \in 1 .. n : w[i].kind # "error"
      /\ FirstError(w) # 0 => FirstError(w) \in 1 .. n /\ w[FirstError(w)].kind = "error"
  BY <1>3, FirstErrorFacts
<1>7. Plain(full_result.trail)
  BY <1>2, <1>4, <1>6, DecidedIsPlain
<1>8. CASE FirstError(v) # 0
  <2>1. FirstError(w) # 0
    BY <1>4, <1>6, <1>8
  <2>2. result = arguments[FirstError(v)] /\ full_result = full[FirstError(w)]
    BY <1>1, <1>2, <1>8, <2>1
  <2>3. result.value.kind = "error" /\ full_result.value.kind = "error" /\ Sound(result)
    BY <1>3, <1>4, <1>6, <1>8, <2>1, <2>2
  <2> QED BY <1>7, <2>3, ErrorsAgree
<1>9. CASE FirstError(v) = 0 /\ ~unknowns.empty
  <2>1. result = Decided(UnknownOf(Accumulate(unknowns)))
    BY <1>1, <1>9
  <2> QED BY <1>5, <1>7, <2>1, UnknownResult, UnknownAgrees
<1>10. CASE FirstError(v) = 0 /\ unknowns.empty
  <2>1. ASSUME NEW i \in 1 .. n
        PROVE  w[i] = v[i] /\ AsksNothing(m, full[i])
    <3> PICK entry, other : entry = arguments[i] /\ other = full[i]
      OBVIOUS
    <3>1. /\ Sound(entry) /\ Agrees(entry, other, values) /\ AsksNothing(matchers, entry)
          /\ entry.value.kind # "error" /\ Plain(other.trail)
      BY <1>3, <1>4, <1>5, <1>6, <1>10
    <3>2. other.value = entry.value
      BY <3>1, AskedNothing
    <3>3. other.value.kind # "unknown"
      BY <3>1, <3>2 DEF AsksNothing
    <3>4. AsksNothing(m, other)
      BY <3>1, <3>3, PlainArgument
    <3> QED BY <1>3, <3>2, <3>4
  <2>2. w = v
    <3>1. v = [i \in 1 .. n |-> v[i]] /\ w = [i \in 1 .. n |-> w[i]]
      BY <1>3
    <3> QED BY <2>1, <3>1
  <2>3. full_unknowns = NoUnknowns
    BY <1>3, <2>1, IdentifyNothing
  <2>4. result = Decided([kind |-> "list", content |-> v]) /\ full_result = result
    BY <1>1, <1>2, <1>10, <2>2, <2>3, NothingOK
  <2>5. Wholesome([kind |-> "list", content |-> v])
    <3>1. v = [i \in 1 .. n |-> v[i]]
      BY <1>3
    <3> QED BY <1>4, <3>1, ListIsWholesome
  <2> QED BY <2>4, <2>5, DecidedIsSound, SameDecided
<1> QED BY <1>8, <1>9, <1>10

-----------------------------------------------------------------------------
(* Stacks.                                                                 *)

\* A stack of n entries.
IsStack(n, s) == Len(s) = n /\ \E S : s \in Seq(S)

LEMMA StackHasEntries ==
  ASSUME NEW n \in Nat, NEW s, IsStack(n, s)
  PROVE  DOMAIN s = 1 .. n /\ Len(s) = n
BY DEF IsStack

\* A part of one stack, k entries further up.
IsPart(n, s, k, part) == IsStack(n, part) /\ \A i \in 1 .. n : part[i] = s[k + i]

LEMMA StackParts ==
  ASSUME NEW n \in Nat, NEW s, IsStack(n, s), NEW k \in 0 .. n, NEW argc, argc = n - k
  PROVE  IsPart(k, s, 0, SubSeq(s, 1, k)) /\ IsPart(argc, s, k, SubSeq(s, k + 1, n))
<1>1. PICK S : s \in Seq(S)
  BY DEF IsStack
<1>2. Len(s) = n /\ \A i \in 1 .. n : s[i] \in S
  BY <1>1 DEF IsStack
<1>3. /\ SubSeq(s, 1, k) \in Seq(S) /\ Len(SubSeq(s, 1, k)) = k
      /\ \A i \in 1 .. k : SubSeq(s, 1, k)[i] = s[i]
  <2>1. \A i \in 1 .. k : s[i] \in S
    BY <1>2
  <2> QED BY <2>1, SubSeqProperties
<1>4. /\ SubSeq(s, k + 1, n) \in Seq(S) /\ Len(SubSeq(s, k + 1, n)) = n - k
      /\ \A i \in 1 .. n - k : SubSeq(s, k + 1, n)[i] = s[k + i]
  <2>1. \A i \in k + 1 .. n : s[i] \in S
    BY <1>2
  <2> PICK part : part = SubSeq(s, k + 1, n)
    OBVIOUS
  <2>2. part \in Seq(S) /\ Len(part) = (IF k + 1 <= n THEN n - (k + 1) + 1 ELSE 0)
        /\ \A i \in 1 .. n - (k + 1) + 1 : part[i] = s[(k + 1) + i - 1]
    BY <2>1, SubSeqProperties
  <2>3. \A i \in 1 .. n - k : i \in 1 .. n - (k + 1) + 1 /\ (k + 1) + i - 1 = k + i
    OBVIOUS
  <2>4. \A i \in 1 .. n - k : part[i] = s[k + i]
    BY <2>2, <2>3
  <2>5. Len(part) = n - k
    BY <2>2
  <2> QED BY <2>2, <2>4, <2>5
<1>5. \A i \in 1 .. k : 0 + i = i
  OBVIOUS
<1> QED BY <1>3, <1>4, <1>5 DEF IsStack, IsPart

\* One stack is another and one entry more.
OneMore(n, s, e, new) ==
  IsStack(n + 1, new) /\ (\A i \in 1 .. n : new[i] = s[i]) /\ new[n + 1] = e

LEMMA StackGrows ==
  ASSUME NEW n \in Nat, NEW s, IsStack(n, s), NEW e
  PROVE  OneMore(n, s, e, Append(s, e))
<1>1. PICK S : s \in Seq(S)
  BY DEF IsStack
<1>2. s \in Seq(S \cup {e})
  BY <1>1
<1>3. Len(s) = n
  BY DEF IsStack
<1> QED BY <1>2, <1>3, AppendProperties DEF IsStack, OneMore

\* Operations on arguments that agree have results that agree.
LEMMA ResultsAgree ==
  ASSUME NEW values, Setting(values), NEW step, IsStep(step), step.op \notin {"ident", "const"},
         NEW arguments, NEW full, ArgumentsAgree(step.argc, arguments, full, values)
  PROVE  /\ step.argc \in Nat
         /\ Sound(Result(matchers, step, arguments))
         /\ Agrees(Result(matchers, step, arguments), Result(AllKnown(matchers), step, full), values)
<1> PICK m : m = AllKnown(matchers)
  OBVIOUS
<1> PICK n : n = step.argc
  OBVIOUS
<1> PICK result, full_result : /\ result = Result(matchers, step, arguments)
                               /\ full_result = Result(m, step, full)
  OBVIOUS
<1>1. \A i \in 1 .. n : Sound(arguments[i]) /\ Agrees(arguments[i], full[i], values)
  BY DEF ArgumentsAgree
<1> PICK a1, b1 : a1 = arguments[1] /\ b1 = full[1]
  OBVIOUS
<1> PICK a2, b2 : a2 = arguments[2] /\ b2 = full[2]
  OBVIOUS
<1>2. step.op \in {"select", "has", "index", "equal", "and", "list", "call"}
  BY DEF IsStep
<1>3. CASE step.op \in {"select", "has"}
  <2>1. n = 1 /\ step.name \in Names
    BY <1>3 DEF IsStep
  <2>2. Sound(a1) /\ Agrees(a1, b1, values)
    BY <1>1, <2>1
  <2>3. CASE step.op = "select"
    <3>1. /\ result = Select(matchers, a1, step.name, GetField(a1.value, step.name))
          /\ full_result = Select(m, b1, step.name, GetField(b1.value, step.name))
      BY <2>3 DEF Result
    <3>2. a1.value.kind = "map" =>
            /\ Wholesome(GetField(a1.value, step.name))
            /\ PartsAgree(a1, values, step.name, GetField(a1.value, step.name),
                          GetField(b1.value, step.name))
      BY <2>2, FieldsAgree
    <3> QED BY <2>1, <2>2, <3>1, <3>2, SelectAgrees
  <2>4. CASE step.op = "has"
    <3>1. /\ result = Select(matchers, a1, step.name, HasField(a1.value, step.name))
          /\ full_result = Select(m, b1, step.name, HasField(b1.value, step.name))
      BY <2>4 DEF Result
    <3>2. a1.value.kind = "map" =>
            /\ Wholesome(HasField(a1.value, step.name))
            /\ PartsAgree(a1, values, step.name, HasField(a1.value, step.name),
                          HasField(b1.value, step.name))
      BY <2>2, FieldsAgree, ScalarsAreWholesome DEF PartsAgree, HasField
    <3> QED BY <2>1, <2>2, <3>1, <3>2, SelectAgrees
  <2> QED BY <1>3, <2>1, <2>3, <2>4
<1>4. CASE step.op = "index"
  <2>1. n = 2
    BY <1>4 DEF IsStep
  <2>2. Sound(a1) /\ Agrees(a1, b1, values) /\ Sound(a2) /\ Agrees(a2, b2, values)
    BY <1>1, <2>1
  <2>3. result = PerformLookup(matchers, a1, a2) /\ full_result = PerformLookup(m, b1, b2)
    BY <1>4 DEF Result
  <2> QED BY <2>1, <2>2, <2>3, IndexAgrees
<1>5. CASE step.op = "equal"
  <2>1. n = 2
    BY <1>5 DEF IsStep
  <2>2. Sound(a1) /\ Agrees(a1, b1, values) /\ Sound(a2) /\ Agrees(a2, b2, values)
    BY <1>1, <2>1
  <2>3. result = Equality(matchers, a1, a2) /\ full_result = Equality(m, b1, b2)
    BY <1>5 DEF Result
  <2> QED BY <2>1, <2>2, <2>3, EqualityAgrees
<1>6. CASE step.op = "and"
  <2>1. n \in Nat
    BY <1>6 DEF IsStep
  <2>2. result = LogicAnd(arguments) /\ full_result = LogicAnd(full)
    BY <1>6 DEF Result
  <2> QED BY <2>1, <2>2, AndAgrees
<1>7. CASE step.op = "list"
  <2>1. n \in Nat
    BY <1>7 DEF IsStep
  <2>2. result = CreateList(matchers, arguments) /\ full_result = CreateList(m, full)
    BY <1>7 DEF Result
  <2> QED BY <2>1, <2>2, ListAgrees
<1>8. CASE step.op = "call"
  <2>1. /\ n \in Nat /\ step.name \in {"size", "sum", "add"}
        /\ \A i \in 1 .. n : step.kinds[i] \in Kinds
    BY <1>8 DEF IsStep
  <2>2. /\ result = CallFunction(matchers, step.name, step.kinds, arguments)
        /\ full_result = CallFunction(m, step.name, step.kinds, full)
    BY <1>8 DEF Result
  <2> QED BY <2>1, <2>2, CallAgrees
<1> QED BY <1>2, <1>3, <1>4, <1>5, <1>6, <1>7, <1>8

-----------------------------------------------------------------------------
(* Stacks that agree.                                                      *)

\* Stacks of the same height, entry by entry.
StacksAgree(n, s, full, values) ==
  /\ IsStack(n, s) /\ IsStack(n, full)
  /\ \A i \in 1 .. n : Sound(s[i]) /\ Agrees(s[i], full[i], values)

LEMMA PushAgrees ==
  ASSUME NEW values, NEW n \in Nat, NEW s, NEW full, StacksAgree(n, s, full, values),
         NEW e, NEW full_e, Sound(e), Agrees(e, full_e, values)
  PROVE  StacksAgree(n + 1, Append(s, e), Append(full, full_e), values)
<1>1. 1 .. n + 1 = (1 .. n) \cup {n + 1}
  OBVIOUS
<1> PICK new, full_new : new = Append(s, e) /\ full_new = Append(full, full_e)
  OBVIOUS
<1>2. /\ IsStack(n + 1, new) /\ IsStack(n + 1, full_new)
      /\ \A i \in 1 .. n : new[i] = s[i] /\ full_new[i] = full[i]
      /\ new[n + 1] = e /\ full_new[n + 1] = full_e
  <2>1. IsStack(n, s) /\ IsStack(n, full)
    BY DEF StacksAgree
  <2>2. OneMore(n, s, e, Append(s, e)) /\ OneMore(n, full, full_e, Append(full, full_e))
    BY <2>1, StackGrows
  <2>3. OneMore(n, s, e, new) /\ OneMore(n, full, full_e, full_new)
    BY <2>2
  <2> QED BY <2>3 DEF OneMore
<1> QED BY <1>1, <1>2 DEF StacksAgree

LEMMA Offsets ==
  ASSUME NEW n \in Nat, NEW argc \in Nat, NEW k \in 0 .. n, k = n - argc
  PROVE  n - k = argc /\ \A i \in 1 .. argc : k + i \in 1 .. n
OBVIOUS

\* A step takes stacks that agree to stacks that agree.
LEMMA StepsAgree ==
  ASSUME NEW values, Setting(values), NEW step, IsStep(step),
         NEW n \in Nat, ArgCount(step) <= n,
         NEW s, NEW full, StacksAgree(n, s, full, values)
  PROVE  StacksAgree(n - ArgCount(step) + 1,
                     EvaluateStep(matchers, input, s, step),
                     EvaluateStep(AllKnown(matchers), values, full, step), values)
<1> PICK m : m = AllKnown(matchers)
  OBVIOUS
<1>1. CASE step.op = "ident"
  <2>1. step.name \in Names /\ n - ArgCount(step) + 1 = n + 1
    BY <1>1 DEF IsStep, ArgCount
  <2>2. /\ EvaluateStep(matchers, input, s, step) = Append(s, LookupIdent(matchers, input, step.name))
        /\ EvaluateStep(m, values, full, step) = Append(full, LookupIdent(m, values, step.name))
    BY <1>1, Zenon DEF EvaluateStep
  <2> QED BY <2>1, <2>2, IdentAgrees, PushAgrees
<1>2. CASE step.op = "const"
  <2>1. IsValue(step.value) /\ n - ArgCount(step) + 1 = n + 1
    BY <1>2 DEF IsStep, ArgCount
  <2>2. /\ EvaluateStep(matchers, input, s, step) = Append(s, Decided(step.value))
        /\ EvaluateStep(m, values, full, step) = Append(full, Decided(step.value))
    <3>1. step.op # "ident"
      BY <1>2
    <3> QED BY <1>2, <3>1 DEF EvaluateStep
  <2> QED BY <2>1, <2>2, ConstAgrees, PushAgrees
<1>3. CASE step.op \notin {"ident", "const"}
  <2>1. ArgCount(step) = step.argc
    BY <1>3 DEF ArgCount
  <2>2. step.argc \in Nat
    BY <1>3 DEF IsStep
  <2> PICK argc \in Nat : argc = step.argc
    BY <2>2
  <2> PICK k \in 0 .. n : k = n - argc
    BY <2>1
  <2>3. DOMAIN s = 1 .. n /\ Len(s) = n /\ DOMAIN full = 1 .. n /\ Len(full) = n
    BY StackHasEntries DEF StacksAgree
  <2> PICK rest, arguments : rest = SubSeq(s, 1, k) /\ arguments = SubSeq(s, k + 1, n)
    OBVIOUS
  <2> PICK full_rest, full_arguments :
        full_rest = SubSeq(full, 1, k) /\ full_arguments = SubSeq(full, k + 1, n)
    OBVIOUS
  <2>4. /\ IsPart(k, s, 0, rest) /\ IsPart(argc, s, k, arguments)
        /\ IsPart(k, full, 0, full_rest) /\ IsPart(argc, full, k, full_arguments)
    <3>1. IsStack(n, s) /\ IsStack(n, full) /\ argc = n - k
      BY DEF StacksAgree
    <3>2. /\ IsPart(k, s, 0, SubSeq(s, 1, k)) /\ IsPart(argc, s, k, SubSeq(s, k + 1, n))
          /\ IsPart(k, full, 0, SubSeq(full, 1, k)) /\ IsPart(argc, full, k, SubSeq(full, k + 1, n))
      BY <3>1, StackParts
    <3> QED BY <3>2
  <2>5. StacksAgree(k, rest, full_rest, values)
    <3>1. \A i \in 1 .. k : i \in 1 .. n /\ 0 + i = i
      OBVIOUS
    <3> QED BY <2>4, <3>1 DEF StacksAgree, IsPart
  <2>6. ArgumentsAgree(argc, arguments, full_arguments, values)
    <3>1. \A i \in 1 .. argc : k + i \in 1 .. n
      BY Offsets, Zenon
    <3>2. \A i \in 1 .. argc : Sound(arguments[i]) /\ Agrees(arguments[i], full_arguments[i], values)
      BY <2>4, <3>1 DEF StacksAgree, IsPart
    <3> QED BY <2>4, <3>2, StackHasEntries DEF ArgumentsAgree, IsPart
  <2>7. /\ EvaluateStep(matchers, input, s, step) = Append(rest, Result(matchers, step, arguments))
        /\ EvaluateStep(m, values, full, step) = Append(full_rest, Result(m, step, full_arguments))
    <3>1. \A trees, vars_of, t :
            EvaluateStep(trees, vars_of, t, step) =
              Append(SubSeq(t, 1, Len(t) - step.argc),
                     Result(trees, step, SubSeq(t, Len(SubSeq(t, 1, Len(t) - step.argc)) + 1, Len(t))))
      <4>1. step.op # "ident" /\ step.op # "const"
        BY <1>3
      <4> QED BY <4>1, Zenon DEF EvaluateStep
    <3>2. Len(rest) = k /\ Len(full_rest) = k
      BY <2>4 DEF IsStack, IsPart
    <3> QED BY <2>3, <3>1, <3>2
  <2>8. /\ Sound(Result(matchers, step, arguments))
        /\ Agrees(Result(matchers, step, arguments), Result(m, step, full_arguments), values)
    BY <1>3, <2>6, ResultsAgree
  <2>9. n - ArgCount(step) + 1 = k + 1
    BY <2>1
  <2> QED BY <2>5, <2>7, <2>8, <2>9, PushAgrees
<1> QED BY <1>1, <1>2, <1>3

-----------------------------------------------------------------------------
(* The full evaluation.                                                    *)

\* The stacks of the full evaluation.
StacksAlong(m, steps, values, n, at) ==
  at = [i \in 0 .. n |-> IF i = 0 THEN <<>>
                         ELSE EvaluateStep(AllKnown(m), values, at[i - 1], steps[i])]

LEMMA StacksAlongExist ==
  ASSUME NEW m, NEW steps, NEW values, NEW n \in Nat
  PROVE  \E at : StacksAlong(m, steps, values, n, at)
<1> DEFINE S == {k \in Nat : \E at : StacksAlong(m, steps, values, k, at)}
<1>1. 0 \in S
  <2> PICK at : at = [i \in 0 .. 0 |-> <<>>]
    OBVIOUS
  <2>1. \A i \in 0 .. 0 : i = 0
    OBVIOUS
  <2>2. StacksAlong(m, steps, values, 0, at)
    BY <2>1 DEF StacksAlong
  <2> QED BY <2>2
<1>2. ASSUME NEW k \in Nat, k \in S
      PROVE  k + 1 \in S
  <2>1. PICK at : StacksAlong(m, steps, values, k, at)
    BY <1>2
  <2>2. PICK new : new = [i \in 0 .. k + 1 |->
                            IF i = 0 THEN <<>>
                            ELSE EvaluateStep(AllKnown(m), values, at[i - 1], steps[i])]
    OBVIOUS
  <2>3. \A i \in 0 .. k : i \in 0 .. k + 1 /\ new[i] = at[i]
    BY <2>1, <2>2 DEF StacksAlong
  <2>4. \A i \in 0 .. k + 1 : i # 0 => new[i - 1] = at[i - 1]
    BY <2>3
  <2>5. StacksAlong(m, steps, values, k + 1, new)
    BY <2>2, <2>4, Zenon DEF StacksAlong
  <2> QED BY <2>5
<1> HIDE DEF S
<1>3. n \in S
  BY <1>1, <1>2, Induction
<1> QED BY <1>3 DEF S

LEMMA FullStacksGrow ==
  ASSUME NEW m, NEW steps, NEW values, NEW n \in Nat, n = Len(steps)
  PROVE  /\ FullStacks(m, steps, values)[0] = <<>>
         /\ \A k \in 1 .. n :
              FullStacks(m, steps, values)[k]
                = EvaluateStep(AllKnown(m), values, FullStacks(m, steps, values)[k - 1], steps[k])
<1> DEFINE at[i \in 0 .. Len(steps)] ==
      IF i = 0 THEN <<>> ELSE EvaluateStep(AllKnown(m), values, at[i - 1], steps[i])
<1>1. FullStacks(m, steps, values) = at
  BY DEF FullStacks
<1>2. \E a : StacksAlong(m, steps, values, Len(steps), a)
  BY StacksAlongExist
<1>3. StacksAlong(m, steps, values, Len(steps), at)
  BY <1>2 DEF StacksAlong
<1> HIDE DEF at
<1> PICK full : full = FullStacks(m, steps, values)
  OBVIOUS
<1>4. full = [i \in 0 .. n |-> IF i = 0 THEN <<>>
                               ELSE EvaluateStep(AllKnown(m), values, full[i - 1], steps[i])]
  BY <1>1, <1>3, Zenon DEF StacksAlong
<1>5. 0 \in 0 .. n /\ \A k \in 1 .. n : k \in 0 .. n /\ k # 0
  OBVIOUS
<1>6. full[0] = <<>>
  BY <1>4, <1>5
<1>7. \A k \in 1 .. n : full[k] = EvaluateStep(AllKnown(m), values, full[k - 1], steps[k])
  <2> TAKE k \in 1 .. n
  <2>1. full[k] = IF k = 0 THEN <<>> ELSE EvaluateStep(AllKnown(m), values, full[k - 1], steps[k])
    BY <1>4, <1>5, Zenon
  <2> QED BY <1>5, <2>1
<1> QED BY <1>6, <1>7

-----------------------------------------------------------------------------
(* What does not change while the activation and the input do not.         *)

LEMMA DecisionsStay ==
  ASSUME UNCHANGED matchers, NEW p
  PROVE  (IsUnknownAt(p)' <=> IsUnknownAt(p)) /\ (IsDecidedAt(p)' <=> IsDecidedAt(p))
<1>1. UnknownPath(p)' <=> UnknownPath(p)
  BY DEF UnknownPath, Covered, Covers, UnknownPatterns!Covers
<1>2. PartlyCovered("known", p)' <=> PartlyCovered("known", p)
  BY DEF PartlyCovered, Covers, UnknownPatterns!Covers
<1>3. Covered("missing", p)' <=> Covered("missing", p)
  BY DEF Covered, Covers, UnknownPatterns!Covers
<1> QED BY <1>1, <1>2, <1>3 DEF IsUnknownAt, IsDecidedAt

LEMMA CompletionsStay ==
  ASSUME UNCHANGED <<matchers, input>>, NEW values
  PROVE  (values \in Completions)' <=> values \in Completions
<1>1. \A p : IsUnknownAt(p)' <=> IsUnknownAt(p)
  BY DecisionsStay
<1> QED BY <1>1 DEF Completions

LEMMA TrailsStay ==
  ASSUME UNCHANGED matchers, NEW trail, NEW path
  PROVE  TrailFits(trail, path)' <=> TrailFits(trail, path)
<1>1. IsDecidedAt(path)' <=> IsDecidedAt(path)
  BY DecisionsStay
<1>2. TrailOK(trail, path)' <=> TrailOK(trail, path)
  BY DEF TrailOK, MatchesOK, Settled, KnownGoesOn, PartlyUnknown, UnknownButBelow,
         CoveredIn, PartlyCoveredIn, Covers, UnknownPatterns!Covers
<1> QED BY <1>1, <1>2 DEF TrailFits

LEMMA StacksStay ==
  ASSUME UNCHANGED <<matchers, input>>, NEW n, NEW s, NEW full, NEW values
  PROVE  StacksAgree(n, s, full, values)' <=> StacksAgree(n, s, full, values)
<1>1. \A trail, path : TrailFits(trail, path)' <=> TrailFits(trail, path)
  BY TrailsStay
<1>2. ASSUME NEW entry
      PROVE  Sound(entry)' <=> Sound(entry)
  BY <1>1 DEF Sound, TrailSound, Plain
<1>3. ASSUME NEW entry, NEW other
      PROVE  Agrees(entry, other, values)' <=> Agrees(entry, other, values)
  <2>1. \A p : FromPlace(entry, other, values, p)' <=> FromPlace(entry, other, values, p)
    BY <1>1 DEF FromPlace
  <2> QED BY <2>1 DEF Agrees
<1> QED BY <1>2, <1>3 DEF StacksAgree

-----------------------------------------------------------------------------
(* The specification.                                                      *)

\* The client has not evaluated a program yet.
SettingUp == phase = "setup" /\ pc = 0 /\ stack = <<>>

\* The stack agrees with that of every evaluation for which all is known.
Evaluating ==
  /\ phase \in {"run", "done"}
  /\ program \in DOMAIN Programs
  /\ pc \in 0 .. Len(Programs[program])
  /\ phase = "done" <=> pc = Len(Programs[program])
  /\ \A values \in Completions :
       StacksAgree(Heights[program][pc], stack,
                   FullStacks(matchers, Programs[program], values)[pc], values)

\* The inductive invariant.
PartialInv == TreesReady /\ input \in Inputs /\ (SettingUp \/ Evaluating)

LEMMA ProgramFacts ==
  ASSUME NEW n \in DOMAIN Programs
  PROVE  /\ Len(Programs[n]) \in Nat \ {0}
         /\ \A i \in 0 .. Len(Programs[n]) : Heights[n][i] \in Nat
         /\ Heights[n][0] = 0 /\ Heights[n][Len(Programs[n])] = 1
         /\ \A i \in 1 .. Len(Programs[n]) :
              /\ IsStep(Programs[n][i])
              /\ ArgCount(Programs[n][i]) <= Heights[n][i - 1]
              /\ Heights[n][i] = Heights[n][i - 1] - ArgCount(Programs[n][i]) + 1
BY ProgramsAssumption, Zenon

LEMMA EmptyStacksAgree ==
  ASSUME NEW values
  PROVE  StacksAgree(0, <<>>, <<>>, values)'
<1>1. IsStack(0, <<>>)
  BY DEF IsStack
<1>2. 1 .. 0 = {}
  OBVIOUS
<1> QED BY <1>1, <1>2 DEF StacksAgree

\* Before the first step there is nothing to agree on.
LEMMA EvaluationBegins ==
  ASSUME TreesReady', input' \in Inputs, phase' = "run", program' \in DOMAIN Programs,
         pc' = 0, stack' = <<>>
  PROVE  PartialInv'
<1> PICK steps : steps = Programs[program']
  OBVIOUS
<1>1. Len(steps) \in Nat \ {0} /\ Heights[program'][0] = 0
  BY ProgramFacts
<1> PICK n \in Nat \ {0} : n = Len(steps)
  BY <1>1
<1>2. \A values : FullStacks(matchers', steps, values)[0] = <<>>
  BY FullStacksGrow
<1>3. \A values : StacksAgree(0, <<>>, <<>>, values)'
  BY EmptyStacksAgree
<1>4. pc' \in 0 .. n /\ pc' # n
  OBVIOUS
<1>5. (\A values \in Completions :
         StacksAgree(Heights[program][pc], stack,
                     FullStacks(matchers, Programs[program], values)[pc], values))'
  BY <1>1, <1>2, <1>3
<1>6. Evaluating'
  BY <1>4, <1>5 DEF Evaluating
<1> QED BY <1>6 DEF PartialInv

LEMMA SetUpKeepsInv ==
  ASSUME PartialInv, NEW sort \in Sorts, NEW tree, SetUp(sort, tree),
         TreeInv(matchers[sort]) => TreeInv(tree)
  PROVE  PartialInv'
<1>1. SettingUp /\ TreesReady /\ input \in Inputs
  BY DEF PartialInv, Evaluating, SetUp
<1>2. SetupTrees
  BY <1>1 DEF SetupTrees, TreesReady
<1>3. SetupTrees'
  BY <1>2, SetUpKeepsTrees
<1>4. SettingUp' /\ input' \in Inputs
  BY <1>1 DEF SettingUp, SetUp
<1>5. TreesReady'
  BY <1>3, <1>4 DEF SetupTrees, SettingUp, TreesReady
<1> QED BY <1>4, <1>5 DEF PartialInv

LEMMA StartKeepsInv ==
  ASSUME PartialInv, Start
  PROVE  PartialInv'
<1>1. SettingUp /\ TreesReady /\ input \in Inputs
  BY DEF PartialInv, Evaluating, Start
<1>2. TreesReady'
  BY <1>1 DEF Start, TreesReady, TreesOK
<1> QED BY <1>1, <1>2, EvaluationBegins DEF SettingUp, Start

LEMMA StepKeepsInv ==
  ASSUME PrintsNames, PartialInv, Step
  PROVE  PartialInv'
<1>1. Evaluating /\ TreesReady /\ input \in Inputs /\ phase = "run"
  BY DEF PartialInv, SettingUp, Step, Advance
<1> PICK index \in DOMAIN Programs : index = program
  BY <1>1 DEF Evaluating
<1> PICK steps : steps = Programs[index]
  OBVIOUS
<1> PICK n \in Nat \ {0} : n = Len(steps)
  BY ProgramFacts
<1> PICK before \in 0 .. n - 1 : before = pc
  BY <1>1 DEF Evaluating
<1> PICK after \in 1 .. n : after = before + 1
  OBVIOUS
<1> PICK step : step = steps[after]
  OBVIOUS
<1> PICK new : new = EvaluateStep(matchers, input, stack, step)
  OBVIOUS
<1>2. /\ UNCHANGED <<matchers, input>> /\ program' = index /\ pc' = after
      /\ stack' = new
      /\ phase' = IF after = n THEN "done" ELSE "run"
  BY DEF Step, Advance
<1>3. TreesReady' /\ input' \in Inputs
  BY <1>1, <1>2 DEF TreesReady, TreesOK
<1> PICK height \in Nat : height = Heights[index][before]
  BY ProgramFacts
<1>4. /\ IsStep(step) /\ ArgCount(step) <= height
      /\ Heights[index][after] = height - ArgCount(step) + 1
  <2>1. after - 1 = before
    OBVIOUS
  <2> QED BY <2>1, ProgramFacts
<1>5. ASSUME NEW values \in Completions
      PROVE  StacksAgree(Heights[index][after], new, FullStacks(matchers, steps, values)[after], values)
  <2> PICK full : full = FullStacks(matchers, steps, values)[before]
    OBVIOUS
  <2>1. StacksAgree(height, stack, full, values)
    BY <1>1 DEF Evaluating
  <2>2. FullStacks(matchers, steps, values)[after] = EvaluateStep(AllKnown(matchers), values, full, step)
    <3>1. after - 1 = before
      OBVIOUS
    <3> QED BY <3>1, FullStacksGrow
  <2>3. Setting(values)
    BY <1>1 DEF Setting
  <2>4. StacksAgree(height - ArgCount(step) + 1, new, EvaluateStep(AllKnown(matchers), values, full, step),
                    values)
    BY <1>4, <2>1, <2>3, StepsAgree
  <2> QED BY <1>4, <2>2, <2>4
<1>6. ASSUME NEW values \in Completions'
      PROVE  StacksAgree(Heights[index][after], new, FullStacks(matchers, steps, values)[after], values)'
  <2>1. values \in Completions
    BY <1>2, CompletionsStay
  <2>2. \A k, s, full : StacksAgree(k, s, full, values)' <=> StacksAgree(k, s, full, values)
    BY <1>2, StacksStay
  <2> PICK k, full : k = Heights[index][after] /\ full = FullStacks(matchers, steps, values)[after]
    OBVIOUS
  <2>3. StacksAgree(k, new, full, values)'
    BY <1>5, <2>1, <2>2
  <2>4. full = FullStacks(matchers', steps, values)[after]
    BY <1>2
  <2> QED BY <2>3, <2>4
<1>7. Evaluating'
  BY <1>2, <1>6 DEF Evaluating
<1> QED BY <1>3, <1>7 DEF PartialInv

\* The attributes of an unknown result are attributes.
LEMMA OutcomeNamesAttributes ==
  ASSUME PartialInv, phase = "done"
  PROVE  Sound(stack[1])
<1>1. Evaluating /\ input \in Inputs
  BY DEF PartialInv, SettingUp
<1>2. input \in Completions
  BY <1>1 DEF Completions, SameValue
<1>3. Heights[program][pc] = 1
  BY <1>1, ProgramFacts DEF Evaluating
<1> PICK full : full = FullStacks(matchers, Programs[program], input)[pc]
  OBVIOUS
<1>4. StacksAgree(1, stack, full, input)
  BY <1>1, <1>2, <1>3 DEF Evaluating
<1> QED BY <1>4 DEF StacksAgree

LEMMA ResolveKeepsInv ==
  ASSUME PartialInv, Resolve
  PROVE  PartialInv'
<1>1. /\ Evaluating /\ TreesReady /\ input \in Inputs /\ phase = "done"
      /\ Outcome.kind = "unknown"
  BY DEF PartialInv, SettingUp, Resolve, Retry
<1>2. Outcome.content \in AttributeSets
  <2>1. Wholesome(Outcome)
    BY <1>1, OutcomeNamesAttributes DEF Sound, Outcome
  <2> QED BY <1>1, <2>1, WholesomeFacts DEF NamesAttributes
<1>3. matchers' = [matchers EXCEPT !.known = UpsertAll(matchers.known, Outcome.content)]
  BY DEF Resolve
<1>4. TreesReady'
  <2> PICK tree : tree = UpsertAll(matchers.known, Outcome.content)
    OBVIOUS
  <2>1. TreeInv(tree)
    BY <1>1, <1>2, UpsertAllKeepsTree DEF TreesReady, TreesOK
  <2>2. DOMAIN matchers = Sorts
    BY <1>1 DEF TreesReady
  <2>3. /\ DOMAIN matchers' = Sorts /\ matchers'.known = tree
        /\ matchers'.unknown = matchers.unknown /\ matchers'.missing = matchers.missing
    BY <1>3, <2>2 DEF Sorts
  <2> QED BY <1>1, <2>1, <2>3 DEF TreesReady, TreesOK
<1> QED BY <1>1, <1>4, EvaluationBegins DEF Resolve, Retry, Evaluating

LEMMA PartialInvIsInductive ==
  ASSUME PrintsNames, PartialInv, [Next]_vars
  PROVE  PartialInv'
<1>1. \A sort \in Sorts : TreeInv(matchers[sort])
  BY DEF PartialInv, TreesReady, TreesOK, Sorts
<1>2. ASSUME NEW sort \in Sorts, NEW p \in Patterns, AddPattern(sort, p)
      PROVE  PartialInv'
  <2>1. SetUp(sort, UpsertAttribute(matchers[sort], p)) /\ IsPath(p)
    BY <1>2, PatternIsPath DEF AddPattern
  <2> QED BY <1>1, <2>1, Upserted, SetUpKeepsInv
<1>3. ASSUME NEW p \in Patterns, InsertPattern(p)
      PROVE  PartialInv'
  <2>1. SetUp("unknown", InsertAttribute(matchers.unknown, p).tree) /\ IsPath(p) /\ "unknown" \in Sorts
    BY <1>3, PatternIsPath DEF InsertPattern, Sorts
  <2> QED BY <1>1, <2>1, Inserted, SetUpKeepsInv
<1>4. ASSUME NEW p \in Patterns, RemovePattern(p)
      PROVE  PartialInv'
  <2>1. SetUp("unknown", RemoveAttribute(matchers.unknown, p).tree) /\ "unknown" \in Sorts
    BY <1>4 DEF RemovePattern, Sorts
  <2> QED BY <1>1, <2>1, Removed, SetUpKeepsInv
<1>5. CASE ClearPatterns
  <2>1. SetUp("unknown", {}) /\ "unknown" \in Sorts
    BY <1>5 DEF ClearPatterns, Sorts
  <2> QED BY <2>1, EmptyTree, SetUpKeepsInv
<1>6. CASE UNCHANGED vars
  <2>1. UNCHANGED <<matchers, input>> /\ UNCHANGED <<phase, program, pc, stack>>
    BY <1>6 DEF vars
  <2>2. TreesReady' /\ input' \in Inputs
    BY <2>1 DEF PartialInv, TreesReady, TreesOK
  <2>3. CASE SettingUp
    BY <2>1, <2>2, <2>3 DEF SettingUp, PartialInv
  <2>4. CASE Evaluating
    <3>1. ASSUME NEW values \in Completions'
          PROVE  StacksAgree(Heights[program][pc], stack,
                             FullStacks(matchers, Programs[program], values)[pc], values)'
      <4>1. values \in Completions
        BY <2>1, CompletionsStay
      <4>2. \A k, s, full : StacksAgree(k, s, full, values)' <=> StacksAgree(k, s, full, values)
        BY <2>1, StacksStay
      <4> PICK k, s, full : /\ k = Heights[program][pc] /\ s = stack
                            /\ full = FullStacks(matchers, Programs[program], values)[pc]
        OBVIOUS
      <4>3. StacksAgree(k, s, full, values)'
        BY <2>4, <4>1, <4>2 DEF Evaluating
      <4>4. /\ k = Heights[program'][pc'] /\ s = stack'
            /\ full = FullStacks(matchers', Programs[program'], values)[pc']
        BY <2>1
      <4> QED BY <4>3, <4>4
    <3>2. Evaluating'
      BY <2>1, <2>4, <3>1 DEF Evaluating
    <3> QED BY <2>2, <3>2 DEF PartialInv
  <2> QED BY <2>3, <2>4 DEF PartialInv
<1> QED BY <1>2, <1>3, <1>4, <1>5, <1>6, StartKeepsInv, StepKeepsInv, ResolveKeepsInv DEF Next

LEMMA KnownOutcomeIsFinal ==
  ASSUME PrintsNames, PartialInv
  PROVE  KnownIsFinal
<1> SUFFICES ASSUME phase = "done", Outcome.kind \in {"bool", "int", "error"},
                    NEW values \in Completions
             PROVE  LET full == FullEvaluation(values)
                    IN  IF Outcome.kind = "error" THEN full.kind = "error"
                        ELSE SameValue(full, Outcome)
  BY Zenon DEF KnownIsFinal
<1>1. Evaluating /\ Setting(values)
  BY DEF PartialInv, SettingUp, Setting
<1>2. pc = Len(Programs[program]) /\ Heights[program][pc] = 1
  BY <1>1, ProgramFacts DEF Evaluating
<1> PICK full : full = FullStacks(matchers, Programs[program], values)[pc]
  OBVIOUS
<1>3. StacksAgree(1, stack, full, values)
  BY <1>1, <1>2 DEF Evaluating
<1> PICK entry, other : entry = stack[1] /\ other = full[1]
  OBVIOUS
<1>4. Agrees(entry, other, values)
  BY <1>3 DEF StacksAgree
<1>5. FullEvaluation(values) = other.value
  BY <1>2, Zenon DEF FullEvaluation
<1>6. Outcome = entry.value
  BY DEF Outcome
<1>7. CASE Outcome.kind = "error"
  BY <1>4, <1>5, <1>6, <1>7 DEF Agrees
<1>8. CASE Outcome.kind # "error"
  <2>1. ~IsInexact(entry.value) /\ entry.value.kind \notin {"map", "list"}
    BY <1>6, <1>8 DEF IsInexact
  <2>2. other.value = entry.value
    BY <1>1, <1>4, <2>1, AgreeFacts
  <2> QED BY <1>5, <1>6, <1>8, <2>2 DEF SameValue
<1> QED BY <1>7, <1>8

\* Whatever the client declares and answers, the trees stay in shape and the
\* stack agrees with that of every full evaluation.
THEOREM PartialInvariant ==
  ASSUME PrintsNames
  PROVE  Spec => []PartialInv
<1>1. Init => PartialInv
  <2> SUFFICES ASSUME Init PROVE PartialInv
    OBVIOUS
  <2>1. DOMAIN matchers = Sorts /\ \A s \in Sorts : matchers[s] = {}
    BY DEF Init, NoPatterns
  <2>2. TreesReady
    BY <2>1, EmptyTree DEF TreesReady, TreesOK, Sorts
  <2> QED BY <2>2, InputsAssumption DEF Init, PartialInv, SettingUp
<1>2. PartialInv /\ [Next]_vars => PartialInv'
  BY PartialInvIsInductive
<1> QED BY <1>1, <1>2, PTL DEF Spec

\* A result that is a number, a truth value or an error is that of every
\* completion of the inputs, for all programs, inputs and patterns and after any
\* number of answers: what is unknown never leaks into a result that does not
\* say so (AttributeUtility, attribute_utility.cc, and the steps of eval/eval).
THEOREM KnownResultsAreFinal ==
  ASSUME PrintsNames
  PROVE  Spec => []KnownIsFinal
<1>1. PartialInv => KnownIsFinal
  BY KnownOutcomeIsFinal
<1> QED BY <1>1, PartialInvariant, PTL

\* What an unknown result asks for.
AsksForAttributes ==
  phase = "done" /\ Outcome.kind = "unknown" => Outcome.content \in AttributeSets

\* An unknown result asks for attributes, by names alone: answering it never
\* adds a pattern with a wildcard (AttributeUtility::IdentifyAndMergeUnknowns,
\* UnknownTree::Convert).
THEOREM UnknownResultsNameAttributes ==
  ASSUME PrintsNames
  PROVE  Spec => []AsksForAttributes
<1>1. PartialInv => AsksForAttributes
  <2> SUFFICES ASSUME PartialInv, phase = "done", Outcome.kind = "unknown"
               PROVE  Outcome.content \in AttributeSets
    BY DEF AsksForAttributes
  <2>1. Wholesome(Outcome)
    BY OutcomeNamesAttributes DEF Sound, Outcome
  <2> QED BY <2>1, WholesomeFacts DEF NamesAttributes
<1> QED BY <1>1, PartialInvariant, PTL
=============================================================================
