----------------------------- MODULE TrailProofs ----------------------------
(***************************************************************************)
(* Stepping the three trees of an activation along an attribute gives what  *)
(* their patterns say of it.  A trail is right (TrailOK) if its missing     *)
(* match is the node the attribute leads to and its other two matches are   *)
(* in one of the three states AttributeTrail keeps apart: nothing below can *)
(* be unknown, something below is, or all of it but for known patterns      *)
(* further down.  What an evaluation makes of trails follows: the unknowns  *)
(* of its arguments are sets of attributes, and without unknown patterns    *)
(* the same steps lead to the same missing attributes and ask for nothing.  *)
(***************************************************************************)
EXTENDS MatcherProofs, FiniteSetTheorems, WellFoundedInduction

-----------------------------------------------------------------------------
(* Attributes and the patterns of one tree.                                 *)

IsAttribute(a) == IsPath(a) /\ a[Len(a)] # Wildcard

CoveredIn(tree, path) == \E p \in GetAttributes(tree) : Covers(p, path)

PartlyCoveredIn(tree, path) ==
  \E p \in GetAttributes(tree) : Len(p) > Len(path) /\ Covers(SubSeq(p, 1, Len(path)), path)

LEMMA AttributeFacts ==
  ASSUME NEW a, IsAttribute(a)
  PROVE  /\ IsPath(a) /\ a \in Seq(Qualifiers) /\ a # NoNode
         /\ Len(a) \in Nat /\ Len(a) >= 1
         /\ \A i \in 1 .. Len(a) : a[i] # Wildcard
<1>1. IsPath(a) /\ Len(a) \in Nat /\ Len(a) >= 1
  BY PathLength DEF IsAttribute
<1>2. \A i \in 1 .. Len(a) : i \in 1 .. Len(a) - 1 \/ i = Len(a)
  BY <1>1
<1> QED BY <1>1, <1>2 DEF IsAttribute, IsPath, NoNode

\* A pattern covers what it agrees with, name by name.
LEMMA CoversByElements ==
  ASSUME NEW p, NEW q
  PROVE  Covers(p, q) <=> Len(p) <= Len(q) /\ \A i \in 1 .. Len(p) : p[i] = Wildcard \/ p[i] = q[i]
BY DEF Covers, UnknownPatterns!Covers

\* The same of the beginning of a pattern.
LEMMA BeginningCovers ==
  ASSUME NEW p \in Seq(Qualifiers), NEW s \in Seq(Qualifiers), Len(s) <= Len(p)
  PROVE  Covers(SubSeq(p, 1, Len(s)), s) <=>
           \A i \in 1 .. Len(s) : p[i] = Wildcard \/ p[i] = s[i]
<1>1. PICK r : r = SubSeq(p, 1, Len(s))
  OBVIOUS
<1>2. Len(s) \in Nat /\ Len(p) \in Nat /\ Len(s) \in 0 .. Len(p)
  BY LenProperties
<1>3. Len(r) = Len(s) /\ \A i \in 1 .. Len(s) : r[i] = p[i]
  BY <1>1, <1>2, FirstNames
<1>4. Covers(r, s) <=> \A i \in 1 .. Len(s) : p[i] = Wildcard \/ p[i] = s[i]
  BY <1>2, <1>3, CoversByElements
<1> QED BY <1>1, <1>4

\* A pattern that covers a path covers what is below it.
LEMMA CoveredBelow ==
  ASSUME NEW tree, TreeInv(tree), NEW s, IsAttribute(s), NEW t, IsAttribute(t), IsPrefix(s, t),
         CoveredIn(tree, s)
  PROVE  CoveredIn(tree, t)
<1>1. Len(s) <= Len(t) /\ Len(s) \in Nat /\ Len(t) \in Nat /\ \A i \in 1 .. Len(s) : s[i] = t[i]
  BY AttributeFacts, PrefixByElements
<1>2. PICK p \in GetAttributes(tree) : Covers(p, s)
  BY DEF CoveredIn
<1>3. Len(p) \in Nat
  BY EndIsInTree
<1>4. Covers(p, t)
  BY <1>1, <1>2, <1>3, CoversByElements
<1> QED BY <1>4 DEF CoveredIn

\* What covers a path, or goes through it, is seen from every way to it.
LEMMA CoveredAbove ==
  ASSUME NEW tree, TreeInv(tree), NEW s, IsAttribute(s), NEW t, IsAttribute(t), IsPrefix(s, t)
  PROVE  /\ CoveredIn(tree, t) => CoveredIn(tree, s) \/ PartlyCoveredIn(tree, s)
         /\ PartlyCoveredIn(tree, t) => PartlyCoveredIn(tree, s)
<1>1. Len(s) <= Len(t) /\ Len(s) \in Nat /\ Len(t) \in Nat /\ \A i \in 1 .. Len(s) : s[i] = t[i]
  BY AttributeFacts, PrefixByElements
<1>2. s \in Seq(Qualifiers) /\ t \in Seq(Qualifiers)
  BY AttributeFacts
<1>3. ASSUME CoveredIn(tree, t)
      PROVE  CoveredIn(tree, s) \/ PartlyCoveredIn(tree, s)
  <2>1. PICK p \in GetAttributes(tree) : Covers(p, t)
    BY <1>3 DEF CoveredIn
  <2>2. Len(p) \in Nat /\ p \in Seq(Qualifiers)
    BY EndIsInTree
  <2>3. CASE Len(p) <= Len(s)
    <3>1. Covers(p, s)
      BY <1>1, <2>1, <2>2, <2>3, CoversByElements
    <3> QED BY <3>1 DEF CoveredIn
  <2>4. CASE Len(p) > Len(s)
    <3>1. \A i \in 1 .. Len(s) : p[i] = Wildcard \/ p[i] = s[i]
      BY <1>1, <2>1, <2>2, <2>4, CoversByElements
    <3>2. Covers(SubSeq(p, 1, Len(s)), s)
      BY <1>1, <1>2, <2>2, <2>4, <3>1, BeginningCovers
    <3> QED BY <2>4, <3>2 DEF PartlyCoveredIn
  <2> QED BY <1>1, <2>2, <2>3, <2>4
<1>4. ASSUME PartlyCoveredIn(tree, t)
      PROVE  PartlyCoveredIn(tree, s)
  <2>1. PICK p \in GetAttributes(tree) : Len(p) > Len(t) /\ Covers(SubSeq(p, 1, Len(t)), t)
    BY <1>4 DEF PartlyCoveredIn
  <2>2. Len(p) \in Nat /\ p \in Seq(Qualifiers)
    BY EndIsInTree
  <2>3. Len(t) <= Len(p) /\ Len(s) <= Len(p) /\ Len(p) > Len(s)
    BY <1>1, <2>1, <2>2
  <2>4. \A i \in 1 .. Len(t) : p[i] = Wildcard \/ p[i] = t[i]
    BY <1>2, <2>1, <2>2, <2>3, BeginningCovers
  <2>5. \A i \in 1 .. Len(s) : p[i] = Wildcard \/ p[i] = s[i]
    BY <1>1, <2>4
  <2>6. Covers(SubSeq(p, 1, Len(s)), s)
    BY <1>2, <2>2, <2>3, <2>5, BeginningCovers
  <2> QED BY <2>3, <2>6 DEF PartlyCoveredIn
<1> QED BY <1>3, <1>4

\* A pattern goes on below a path if the path is a node that ends none.
LEMMA PartlyCoveredMeans ==
  ASSUME NEW tree, TreeInv(tree), NEW s, IsAttribute(s)
  PROVE  PartlyCoveredIn(tree, s) <=> s \in tree /\ IsPartial(tree, s)
<1>1. s \in Seq(Qualifiers) /\ Len(s) \in Nat /\ Len(s) >= 1 /\ s # NoNode
      /\ \A i \in 1 .. Len(s) : s[i] # Wildcard
  BY AttributeFacts
<1>2. ASSUME PartlyCoveredIn(tree, s)
      PROVE  s \in tree /\ s \notin GetAttributes(tree)
  <2>1. PICK p \in GetAttributes(tree) : Len(p) > Len(s) /\ Covers(SubSeq(p, 1, Len(s)), s)
    BY <1>2 DEF PartlyCoveredIn
  <2>2. p \in tree /\ IsPath(p) /\ p \in Seq(Qualifiers) /\ Len(p) \in Nat /\ Len(s) \in 0 .. Len(p)
        /\ Len(s) <= Len(p) - 1
    <3>1. p \in tree /\ IsPath(p) /\ p \in Seq(Qualifiers) /\ Len(p) \in Nat
      BY EndIsInTree
    <3> QED BY <1>1, <2>1, <3>1
  <2>4. \A i \in 1 .. Len(s) : p[i] = Wildcard \/ p[i] = s[i]
    BY <1>1, <2>1, <2>2, BeginningCovers
  <2>5. \A i \in 1 .. Len(s) : i \in 1 .. Len(p) - 1
    BY <1>1, <2>2
  <2>6. \A i \in 1 .. Len(s) : s[i] = p[i]
    BY <2>2, <2>4, <2>5 DEF IsPath
  <2>7. IsPrefix(s, p)
    BY <1>1, <2>2, <2>6, PrefixByElements
  <2>8. s \in tree
    BY <1>1, <2>2, <2>7, WayIsInTree DEF TreeInv, NoNode
  <2>9. p # s
    BY <1>1, <2>1
  <2> QED BY <2>2, <2>7, <2>8, <2>9, EndIsInTree
<1>3. ASSUME s \in tree, s \notin GetAttributes(tree)
      PROVE  PartlyCoveredIn(tree, s)
  <2>1. PICK p \in GetAttributes(tree) : IsPrefix(s, p)
    BY <1>3 DEF TreeInv, LeadsToAnEnd
  <2>2. p \in Seq(Qualifiers) /\ Len(p) \in Nat
    BY EndIsInTree
  <2>3. Len(s) <= Len(p) /\ Len(s) # Len(p) /\ \A i \in 1 .. Len(s) : s[i] = p[i]
    BY <1>1, <1>3, <2>1, <2>2, PrefixByLength, PrefixByElements
  <2>4. Covers(SubSeq(p, 1, Len(s)), s)
    BY <1>1, <2>2, <2>3, BeginningCovers
  <2>5. Len(p) > Len(s)
    BY <1>1, <2>2, <2>3
  <2> QED BY <2>4, <2>5 DEF PartlyCoveredIn
<1>4. s \in tree => (s \notin GetAttributes(tree) <=> IsPartial(tree, s))
  BY <1>1 DEF GetAttributes, IsFull, IsPartial
<1> QED BY <1>2, <1>3, <1>4

\* Patterns do not overlap: one that covers a path goes on below it in none.
LEMMA CoveredOrPartly ==
  ASSUME NEW tree, TreeInv(tree), NEW s, IsAttribute(s), PartlyCoveredIn(tree, s)
  PROVE  ~CoveredIn(tree, s)
<1> SUFFICES ASSUME NEW p \in GetAttributes(tree), Covers(p, s)
             PROVE  FALSE
  BY DEF CoveredIn
<1>1. s \in tree /\ s \notin GetAttributes(tree)
  BY PartlyCoveredMeans DEF GetAttributes, IsFull, IsPartial
<1>2. PICK q \in GetAttributes(tree) : IsPrefix(s, q)
  BY <1>1 DEF TreeInv, LeadsToAnEnd
<1>3. s \in Seq(Qualifiers) /\ q \in Seq(Qualifiers) /\ Len(s) \in Nat /\ Len(q) \in Nat
      /\ Len(p) \in Nat
  BY AttributeFacts, EndIsInTree
<1>4. Len(s) <= Len(q) /\ (\A i \in 1 .. Len(s) : s[i] = q[i]) /\ (Len(s) = Len(q) => s = q)
  BY <1>2, <1>3, PrefixByElements, PrefixByLength
<1>5. Len(p) <= Len(s) /\ \A i \in 1 .. Len(p) : p[i] = Wildcard \/ p[i] = s[i]
  BY CoversByElements
<1>6. Covers(p, q)
  BY <1>3, <1>4, <1>5, CoversByElements
<1>7. p = q
  BY <1>6, EndsAreApart
<1> QED BY <1>1, <1>3, <1>4, <1>5, <1>7

-----------------------------------------------------------------------------
(* The node an attribute leads to.                                          *)

WildcardSibling(path) == Append(Parent(path), Wildcard)

NodeOf(tree, path) ==
  IF path \in tree THEN path
  ELSE IF WildcardSibling(path) \in tree THEN WildcardSibling(path)
  ELSE NoNode

LEMMA SiblingFacts ==
  ASSUME NEW path, IsAttribute(path)
  PROVE  /\ Parent(path) \in Seq(Qualifiers) /\ Len(Parent(path)) = Len(path) - 1
         /\ \A i \in 1 .. Len(path) - 1 : Parent(path)[i] = path[i]
         /\ WildcardSibling(path) \in Seq(Qualifiers) /\ WildcardSibling(path) # NoNode
         /\ Len(WildcardSibling(path)) = Len(path)
         /\ WildcardSibling(path)[Len(path)] = Wildcard
         /\ \A i \in 1 .. Len(path) - 1 : WildcardSibling(path)[i] = path[i]
<1>1. path \in Seq(Qualifiers) /\ Len(path) \in Nat /\ Len(path) - 1 \in 0 .. Len(path)
      /\ Wildcard \in Qualifiers
  BY AttributeFacts, WildcardQualifies
<1>2. /\ Parent(path) \in Seq(Qualifiers) /\ Len(Parent(path)) = Len(path) - 1
      /\ \A i \in 1 .. Len(path) - 1 : Parent(path)[i] = path[i]
  BY <1>1, FirstNames DEF Parent
<1>3. WildcardSibling(path) \in Seq(Qualifiers) /\ Len(WildcardSibling(path)) = Len(path)
  BY <1>1, <1>2, AppendProperties DEF WildcardSibling
<1>4. \A i \in 1 .. Len(Parent(path)) : WildcardSibling(path)[i] = Parent(path)[i]
  BY <1>1, <1>2, AppendProperties DEF WildcardSibling
<1>5. WildcardSibling(path)[Len(Parent(path)) + 1] = Wildcard
  BY <1>1, <1>2, AppendProperties DEF WildcardSibling
<1>6. Len(Parent(path)) + 1 = Len(path)
  BY <1>1, <1>2
<1>7. WildcardSibling(path) # NoNode
  BY <1>1, <1>3, AttributeFacts, EmptySeq DEF NoNode
<1> QED BY <1>2, <1>3, <1>4, <1>5, <1>6, <1>7

\* The attribute one name longer.
LEMMA LongerFacts ==
  ASSUME NEW path, IsAttribute(path), NEW name \in Qualifiers, name # Wildcard
  PROVE  /\ IsAttribute(Append(path, name))
         /\ Len(Append(path, name)) = Len(path) + 1
         /\ IsPrefix(path, Append(path, name))
         /\ Append(path, name) # path
         /\ Parent(Append(path, name)) = path
<1> PICK longer : longer = Append(path, name)
  OBVIOUS
<1>1. path \in Seq(Qualifiers) /\ path # <<>> /\ Len(path) \in Nat /\ Len(path) >= 1
      /\ \A i \in 1 .. Len(path) : path[i] # Wildcard
  BY AttributeFacts DEF NoNode
<1>2. longer \in Seq(Qualifiers) /\ Len(longer) = Len(path) + 1
  BY <1>1, AppendProperties
<1>3. IsPrefix(path, longer) /\ longer[Len(longer)] = name
  BY <1>1, <1>2, AppendMeans
<1>4. \A i \in 1 .. Len(path) : longer[i] = path[i]
  BY <1>1, <1>2, <1>3, PrefixByElements
<1>5. \A i \in 1 .. Len(longer) - 1 : longer[i] # Wildcard
  BY <1>1, <1>2, <1>4
<1>6. longer # <<>> /\ longer[1] # Wildcard
  <2>1. 1 \in 1 .. Len(path)
    BY <1>1
  <2> QED BY <1>1, <1>2, <1>4, <2>1, EmptySeq
<1>7. IsAttribute(longer)
  BY <1>2, <1>3, <1>5, <1>6 DEF IsAttribute, IsPath
<1>8. Parent(longer) = path
  <2>1. Len(longer) - 1 = Len(path)
    BY <1>1, <1>2
  <2> QED BY <1>1, <1>2, <1>3, <2>1, PrefixByLength DEF Parent
<1> QED BY <1>1, <1>2, <1>3, <1>7, <1>8

\* A variable alone has no wildcard beside it.
LEMMA VariableFacts ==
  ASSUME NEW tree, TreeInv(tree), NEW path, IsAttribute(path), Len(path) = 1
  PROVE  /\ NodeOf(tree, path) = MatchVariable(tree, path[1])
         /\ path = <<path[1]>>
<1>1. path = <<path[1]>>
  <2>1. path \in Seq(Qualifiers) /\ path[1] \in Qualifiers
    BY AttributeFacts
  <2>2. <<path[1]>> \in Seq(Qualifiers) /\ Len(<<path[1]>>) = 1 /\ <<path[1]>>[1] = path[1]
    BY <2>1
  <2>3. \A i \in 1 .. Len(path) : path[i] = <<path[1]>>[i]
    BY <2>2
  <2> QED BY <2>1, <2>2, <2>3, SeqEqual
<1>2. WildcardSibling(path) \notin tree
  <2>1. WildcardSibling(path)[1] = Wildcard
    BY SiblingFacts
  <2> QED BY <2>1 DEF TreeInv, IsPath
<1> QED BY <1>1, <1>2 DEF NodeOf, MatchVariable

\* MatchQualifier steps from the node of an attribute to the node of the next.
LEMMA StepReaches ==
  ASSUME NEW tree, TreeInv(tree), NEW path, IsAttribute(path),
         NEW name \in Qualifiers, name # Wildcard
  PROVE  MatchQualifier(tree, NodeOf(tree, path), name) = NodeOf(tree, Append(path, name))
<1> PICK longer : longer = Append(path, name)
  OBVIOUS
<1>1. /\ path \in Seq(Qualifiers) /\ path # NoNode /\ Len(path) \in Nat /\ Len(path) >= 1
      /\ IsAttribute(longer) /\ longer \in Seq(Qualifiers) /\ Len(longer) = Len(path) + 1
      /\ IsPrefix(path, longer) /\ Parent(longer) = path
  BY AttributeFacts, LongerFacts
<1>2. WildcardSibling(longer) = Append(path, Wildcard)
  BY <1>1 DEF WildcardSibling
<1> PICK wild : wild = Append(path, Wildcard)
  OBVIOUS
<1>3. /\ wild \in Seq(Qualifiers) /\ Len(wild) = Len(path) + 1 /\ IsPrefix(path, wild)
      /\ wild[Len(wild)] = Wildcard /\ Parent(wild) = path
  <2>1. wild \in Seq(Qualifiers) /\ Len(wild) = Len(path) + 1
    BY <1>1, WildcardQualifies, AppendProperties
  <2>2. IsPrefix(path, wild) /\ wild[Len(wild)] = Wildcard
    BY <1>1, <2>1, WildcardQualifies, AppendMeans
  <2>3. Len(wild) - 1 = Len(path)
    BY <1>1, <2>1
  <2> QED BY <1>1, <2>1, <2>2, <2>3, PrefixByLength DEF Parent
<1>4. NodeOf(tree, longer) =
        IF longer \in tree THEN longer ELSE IF wild \in tree THEN wild ELSE NoNode
  BY <1>2 DEF NodeOf
<1>5. CASE path \in tree
  <2>1. Children(tree, path) = {wild} <=> wild \in tree
    <3>1. wild \in tree => wild \in Children(tree, path)
      BY <1>3 DEF Children
    <3>2. ASSUME wild \in tree, NEW c \in Children(tree, path)
          PROVE  c = wild
      BY <1>3, <3>2 DEF Children, TreeInv, WildcardIsAlone
    <3>3. wild \in Children(tree, path) => wild \in tree
      BY DEF Children
    <3> QED BY <3>1, <3>2, <3>3
  <2>2. NodeOf(tree, path) = path
    BY <1>5 DEF NodeOf
  <2> QED BY <1>1, <1>4, <2>1, <2>2 DEF MatchQualifier
<1>6. CASE path \notin tree
  <2>1. longer \notin tree /\ wild \notin tree
    BY <1>1, <1>3, <1>6, WayIsInTree DEF TreeInv, NoNode
  <2>2. CASE WildcardSibling(path) \in tree
    <3> PICK node : node = WildcardSibling(path)
      OBVIOUS
    <3>1. /\ NodeOf(tree, path) = node /\ node # NoNode /\ node \in Seq(Qualifiers)
          /\ node \in tree /\ IsPath(node) /\ Len(node) \in Nat /\ node[Len(node)] = Wildcard
      BY <1>1, <1>6, <2>2, SiblingFacts DEF NodeOf, TreeInv
    <3>2. ASSUME NEW x \in Qualifiers
          PROVE  Append(node, x) \notin tree
      <4> PICK below : below = Append(node, x)
        OBVIOUS
      <4>1. below \in Seq(Qualifiers) /\ Len(below) = Len(node) + 1
        BY <3>1, AppendProperties
      <4>2. IsPrefix(node, below)
        BY <3>1, <4>1, AppendMeans
      <4>3. below # node
        BY <3>1, <4>1
      <4> QED BY <3>1, <4>2, <4>3, WildcardIsEnd DEF TreeInv
    <3>3. Children(tree, node) # {Append(node, Wildcard)}
      BY <3>2, WildcardQualifies DEF Children
    <3> QED BY <1>4, <2>1, <3>1, <3>2, <3>3 DEF MatchQualifier
  <2>3. CASE WildcardSibling(path) \notin tree
    <3>1. NodeOf(tree, path) = NoNode
      BY <1>6, <2>3 DEF NodeOf
    <3> QED BY <1>4, <2>1, <3>1 DEF MatchQualifier
  <2> QED BY <2>2, <2>3
<1> QED BY <1>5, <1>6

\* What the node an attribute leads to says of the patterns.
LEMMA NodeMeans ==
  ASSUME NEW tree, TreeInv(tree), NEW path, IsAttribute(path)
  PROVE  /\ IsPartial(tree, NodeOf(tree, path)) <=> PartlyCoveredIn(tree, path)
         /\ PartlyCoveredIn(tree, path) => NodeOf(tree, path) = path
         /\ IsFull(tree, NodeOf(tree, path)) => CoveredIn(tree, path)
         /\ NodeOf(tree, path) = NoNode
              <=> ~IsFull(tree, NodeOf(tree, path)) /\ ~PartlyCoveredIn(tree, path)
<1>1. path \in Seq(Qualifiers) /\ Len(path) \in Nat /\ path # NoNode
  BY AttributeFacts
<1>2. CASE path \in tree
  <2>1. NodeOf(tree, path) = path
    BY <1>2 DEF NodeOf
  <2>2. IsFull(tree, path) => CoveredIn(tree, path)
    <3>1. Covers(path, path)
      BY <1>1, CoversByElements
    <3> QED BY <1>2, <3>1 DEF CoveredIn, GetAttributes
  <2>3. IsFull(tree, path) <=> ~IsPartial(tree, path)
    BY <1>1 DEF IsFull, IsPartial
  <2> QED BY <1>1, <1>2, <2>1, <2>2, <2>3, PartlyCoveredMeans
<1>3. CASE path \notin tree /\ WildcardSibling(path) \in tree
  <2> PICK node : node = WildcardSibling(path)
    OBVIOUS
  <2>1. /\ NodeOf(tree, path) = node /\ node \in tree /\ IsPath(node) /\ node # NoNode
        /\ Len(node) = Len(path) /\ node[Len(node)] = Wildcard
        /\ \A i \in 1 .. Len(path) - 1 : node[i] = path[i]
    BY <1>3, SiblingFacts DEF NodeOf, TreeInv
  <2>2. \A m \in tree : IsPrefix(node, m) => m = node
    BY <2>1, WildcardIsEnd DEF TreeInv
  <2>3. node \in GetAttributes(tree) /\ Children(tree, node) = {}
    BY <2>1, <2>2, EndMeans DEF TreeInv
  <2>4. \A i \in 1 .. Len(node) : node[i] = Wildcard \/ node[i] = path[i]
    <3>1. \A i \in 1 .. Len(node) : i = Len(node) \/ i \in 1 .. Len(path) - 1
      BY <1>1, <2>1
    <3> QED BY <2>1, <3>1
  <2>5. Covers(node, path)
    BY <1>1, <2>1, <2>4, CoversByElements
  <2>6. CoveredIn(tree, path)
    BY <2>3, <2>5 DEF CoveredIn
  <2>7. ~PartlyCoveredIn(tree, path)
    BY <1>3, PartlyCoveredMeans
  <2>8. IsFull(tree, node) /\ ~IsPartial(tree, node)
    BY <2>1, <2>3 DEF IsFull, IsPartial
  <2> QED BY <2>1, <2>6, <2>7, <2>8
<1>4. CASE path \notin tree /\ WildcardSibling(path) \notin tree
  <2>1. NodeOf(tree, path) = NoNode
    BY <1>4 DEF NodeOf
  <2> QED BY <1>4, <2>1, PartlyCoveredMeans DEF IsFull, IsPartial
<1> QED BY <1>2, <1>3, <1>4

\* A path is covered at the node it leads to, or before.
LEMMA CoveredAtNode ==
  ASSUME NEW tree, TreeInv(tree), NEW path, IsAttribute(path), CoveredIn(tree, path),
         Len(path) = 1 \/ ~CoveredIn(tree, Parent(path))
  PROVE  IsFull(tree, NodeOf(tree, path))
<1>1. path \in Seq(Qualifiers) /\ Len(path) \in Nat /\ Len(path) >= 1 /\ path # NoNode
      /\ Len(path) \in 1 .. Len(path)
      /\ \A i \in 1 .. Len(path) : path[i] # Wildcard
  BY AttributeFacts
<1>2. PICK p \in GetAttributes(tree) : Covers(p, path)
  BY DEF CoveredIn
<1>3. /\ p \in tree /\ IsPath(p) /\ p \in Seq(Qualifiers) /\ Len(p) \in Nat /\ Len(p) >= 1
      /\ Len(p) <= Len(path) /\ \A i \in 1 .. Len(p) : p[i] = Wildcard \/ p[i] = path[i]
      /\ IsFull(tree, p)
  BY <1>2, EndIsInTree, PathLength, CoversByElements DEF GetAttributes
<1>4. Len(p) = Len(path)
  <2> SUFFICES ASSUME Len(p) # Len(path)
               PROVE  Covers(p, Parent(path))
    BY <1>1, <1>2, <1>3 DEF CoveredIn
  <2>1. /\ Len(Parent(path)) = Len(path) - 1
        /\ \A i \in 1 .. Len(path) - 1 : Parent(path)[i] = path[i]
    BY SiblingFacts
  <2>2. Len(p) <= Len(Parent(path)) /\ \A i \in 1 .. Len(p) : i \in 1 .. Len(path) - 1
    BY <1>1, <1>3, <2>1
  <2> QED BY <1>3, <2>1, <2>2, CoversByElements
<1>5. \A i \in 1 .. Len(path) - 1 : p[i] = path[i]
  <2>1. \A i \in 1 .. Len(path) - 1 : i \in 1 .. Len(p) /\ i \in 1 .. Len(p) - 1
    BY <1>1, <1>4
  <2> QED BY <1>3, <2>1 DEF IsPath
<1>6. CASE p[Len(p)] = Wildcard
  <2>1. Len(WildcardSibling(path)) = Len(p) /\ WildcardSibling(path) \in Seq(Qualifiers)
        /\ WildcardSibling(path) # NoNode
    BY <1>4, SiblingFacts
  <2>2. \A i \in 1 .. Len(p) : p[i] = WildcardSibling(path)[i]
    <3>1. \A i \in 1 .. Len(p) : i = Len(path) \/ i \in 1 .. Len(path) - 1
      BY <1>1, <1>4
    <3> QED BY <1>4, <1>5, <1>6, <3>1, SiblingFacts
  <2>3. p = WildcardSibling(path)
    BY <1>3, <2>1, <2>2, SeqEqual
  <2>4. IsPrefix(Parent(p), path)
    <3>1. IsAttribute(path) /\ Len(p) - 1 \in 0 .. Len(p)
      BY <1>3
    <3>2. Parent(p) \in Seq(Qualifiers) /\ Len(Parent(p)) = Len(p) - 1
          /\ \A i \in 1 .. Len(p) - 1 : Parent(p)[i] = p[i]
      BY <1>3, <3>1, FirstNames DEF Parent
    <3>3. \A i \in 1 .. Len(Parent(p)) : Parent(p)[i] = path[i]
      BY <1>4, <1>5, <3>2
    <3> QED BY <1>1, <1>3, <1>4, <3>2, <3>3, PrefixByElements
  <2>5. path \notin tree
    <3> SUFFICES ASSUME path \in tree PROVE FALSE
      OBVIOUS
    <3>1. path = p
      BY <1>3, <1>4, <1>6, <2>4 DEF TreeInv, WildcardIsAlone
    <3> QED BY <1>1, <1>6, <3>1
  <2> QED BY <1>3, <2>3, <2>5 DEF NodeOf
<1>7. CASE p[Len(p)] # Wildcard
  <2>1. \A i \in 1 .. Len(p) : p[i] = path[i]
    <3>1. \A i \in 1 .. Len(p) : i = Len(p) \/ i \in 1 .. Len(path) - 1
      BY <1>1, <1>4
    <3>2. Len(p) \in 1 .. Len(p)
      BY <1>3
    <3> QED BY <1>3, <1>5, <1>7, <3>1, <3>2
  <2>2. p = path
    BY <1>1, <1>3, <1>4, <2>1, SeqEqual
  <2> QED BY <1>3, <2>2 DEF NodeOf
<1> QED BY <1>6, <1>7

\* Below a node whose only child is a wildcard everything is covered.
LEMMA WildcardCovers ==
  ASSUME NEW tree, TreeInv(tree), NEW s, IsAttribute(s), IsPartialWildcard(tree, s),
         NEW t, IsAttribute(t), IsPrefix(s, t), t # s
  PROVE  CoveredIn(tree, t)
<1>1. /\ s \in Seq(Qualifiers) /\ t \in Seq(Qualifiers) /\ Len(s) \in Nat /\ Len(t) \in Nat
      /\ \A i \in 1 .. Len(s) : s[i] = t[i]
      /\ Len(s) <= Len(t) /\ Len(s) # Len(t)
  BY AttributeFacts, PrefixByElements, PrefixByLength
<1> PICK p : p = Append(s, Wildcard)
  OBVIOUS
<1>2. p \in Children(tree, s) /\ IsFull(tree, p)
  BY DEF IsPartialWildcard
<1>3. p \in GetAttributes(tree)
  BY <1>2 DEF Children, GetAttributes
<1>4. p \in Seq(Qualifiers) /\ Len(p) = Len(s) + 1 /\ IsPrefix(s, p) /\ p[Len(p)] = Wildcard
  <2>1. p \in Seq(Qualifiers)
    BY <1>1, WildcardQualifies, AppendProperties
  <2> QED BY <1>1, <2>1, WildcardQualifies, AppendMeans
<1>5. \A i \in 1 .. Len(s) : p[i] = t[i]
  BY <1>1, <1>4, PrefixByElements
<1>6. \A i \in 1 .. Len(p) : i \in 1 .. Len(s) \/ i = Len(p)
  BY <1>1, <1>4
<1>7. \A i \in 1 .. Len(p) : p[i] = Wildcard \/ p[i] = t[i]
  BY <1>4, <1>5, <1>6
<1>8. Len(p) <= Len(t)
  BY <1>1, <1>4
<1>9. Covers(p, t)
  BY <1>7, <1>8, CoversByElements
<1> QED BY <1>3, <1>9 DEF CoveredIn

-----------------------------------------------------------------------------
(* Trails.                                                                  *)

TreesOK == TreeInv(matchers.unknown) /\ TreeInv(matchers.known) /\ TreeInv(matchers.missing)

\* Nothing below the path can be unknown.
Settled(trail, path) ==
  /\ trail.known = NoNode
  /\ trail.unknown = NoNode
  /\ \A below : (IsAttribute(below) /\ IsPrefix(path, below) /\ below # path) =>
       (CoveredIn(matchers.unknown, below) => CoveredIn(matchers.known, below))

KnownGoesOn(trail, path) ==
  /\ trail.known = NodeOf(matchers.known, path)
  /\ ~CoveredIn(matchers.known, path)
  /\ ~IsPartialWildcard(matchers.known, trail.known)

\* Something below the path is unknown.
PartlyUnknown(trail, path) ==
  /\ trail.unknown = path
  /\ PartlyCoveredIn(matchers.unknown, path)

\* The path is unknown, but for known patterns further down.
UnknownButBelow(trail, path) ==
  /\ IsFull(matchers.unknown, trail.unknown)
  /\ CoveredIn(matchers.unknown, path)
  /\ PartlyCoveredIn(matchers.known, path)

MatchesOK(trail, path) ==
  \/ Settled(trail, path)
  \/ /\ KnownGoesOn(trail, path)
     /\ PartlyUnknown(trail, path) \/ UnknownButBelow(trail, path)

TrailOK(trail, path) ==
  /\ trail.missing = NodeOf(matchers.missing, path)
  /\ ~CoveredIn(matchers.missing, path)
  /\ MatchesOK(trail, path)

\* A match decides where the patterns do, and leaves the right trail elsewhere.
MatchOK(at, path) ==
  IF IsDecidedAt(path)
  THEN at.value = IF IsUnknownAt(path) THEN UnknownOf({path}) ELSE MissingAttribute
  ELSE at.value = Undecided /\ TrailOK(at.trail, path)

LEMMA CoveredMeans ==
  ASSUME NEW path
  PROVE  /\ Covered("unknown", path) <=> CoveredIn(matchers.unknown, path)
         /\ Covered("known", path) <=> CoveredIn(matchers.known, path)
         /\ Covered("missing", path) <=> CoveredIn(matchers.missing, path)
         /\ PartlyCovered("known", path) <=> PartlyCoveredIn(matchers.known, path)
BY DEF Covered, CoveredIn, PartlyCovered, PartlyCoveredIn

LEMMA UnknownAtMeans ==
  ASSUME NEW path
  PROVE  IsUnknownAt(path) <=> /\ CoveredIn(matchers.unknown, path)
                               /\ ~CoveredIn(matchers.known, path)
                               /\ ~PartlyCoveredIn(matchers.known, path)
BY CoveredMeans DEF IsUnknownAt, UnknownPath

\* The unknown match to go on from: the node of the path, or one that was full
\* further up.
Found(unknown, path) ==
  \/ /\ unknown = NodeOf(matchers.unknown, path)
     /\ CoveredIn(matchers.unknown, path) => IsFull(matchers.unknown, unknown)
  \/ /\ IsFull(matchers.unknown, unknown)
     /\ CoveredIn(matchers.unknown, path)

LEMMA FoundMeans ==
  ASSUME TreesOK, NEW path, IsAttribute(path), NEW unknown, Found(unknown, path)
  PROVE  /\ IsFull(matchers.unknown, unknown) <=> CoveredIn(matchers.unknown, path)
         /\ PartlyCoveredIn(matchers.unknown, path) => unknown = path
         /\ unknown = NoNode <=> ~CoveredIn(matchers.unknown, path)
                                 /\ ~PartlyCoveredIn(matchers.unknown, path)
<1>1. TreeInv(matchers.unknown)
  BY DEF TreesOK
<1>2. PartlyCoveredIn(matchers.unknown, path) => ~CoveredIn(matchers.unknown, path)
  BY <1>1, CoveredOrPartly
<1>3. IsFull(matchers.unknown, unknown) => unknown # NoNode
  BY DEF IsFull
<1> QED BY <1>1, <1>2, <1>3, NodeMeans DEF Found

\* Where no known pattern goes and an unknown one ends, the attribute is
\* unknown, and nowhere else.
LEMMA DecidesUnknown ==
  ASSUME TreesOK, NEW path, IsAttribute(path), NEW unknown, Found(unknown, path),
         NEW known, known = NodeOf(matchers.known, path),
         CoveredIn(matchers.known, path) => IsFull(matchers.known, known)
  PROVE  IsUnknownAt(path) <=> known = NoNode /\ IsFull(matchers.unknown, unknown)
<1>1. known = NoNode <=> ~CoveredIn(matchers.known, path) /\ ~PartlyCoveredIn(matchers.known, path)
  BY NodeMeans DEF TreesOK
<1> QED BY <1>1, FoundMeans, UnknownAtMeans

LEMMA KeptMatchesOK ==
  ASSUME TreesOK, NEW path, IsAttribute(path), NEW unknown, Found(unknown, path),
         NEW known, known = NodeOf(matchers.known, path),
         CoveredIn(matchers.known, path) => IsFull(matchers.known, known),
         ~IsUnknownAt(path)
  PROVE  MatchesOK(KeptMatches(matchers, known, unknown), path)
<1> PICK trail : trail = KeptMatches(matchers, known, unknown)
  OBVIOUS
<1>1. ~(known = NoNode /\ IsFull(matchers.unknown, unknown))
  BY DecidesUnknown
<1>2. /\ IsPartial(matchers.known, known) <=> PartlyCoveredIn(matchers.known, path)
      /\ PartlyCoveredIn(matchers.known, path) => known = path
      /\ IsFull(matchers.known, known) => CoveredIn(matchers.known, path)
      /\ known = NoNode <=> ~IsFull(matchers.known, known) /\ ~PartlyCoveredIn(matchers.known, path)
      /\ PartlyCoveredIn(matchers.known, path) => ~CoveredIn(matchers.known, path)
  BY NodeMeans, CoveredOrPartly DEF TreesOK
<1>3. unknown = NoNode => Settled(NoTrail, path)
  <2> SUFFICES ASSUME unknown = NoNode,
                      NEW below, IsAttribute(below), IsPrefix(path, below), below # path,
                      CoveredIn(matchers.unknown, below)
               PROVE  CoveredIn(matchers.known, below)
    BY DEF Settled, NoTrail
  <2>1. ~CoveredIn(matchers.unknown, path) /\ ~PartlyCoveredIn(matchers.unknown, path)
    BY FoundMeans
  <2> QED BY <2>1, CoveredAbove DEF TreesOK
<1>4. IsFull(matchers.known, known) => Settled(NoTrail, path)
  BY <1>2, CoveredBelow DEF Settled, NoTrail, TreesOK
<1>5. IsPartialWildcard(matchers.known, known) => Settled(NoTrail, path)
  <2> SUFFICES ASSUME IsPartialWildcard(matchers.known, known),
                      NEW below, IsAttribute(below), IsPrefix(path, below), below # path
               PROVE  CoveredIn(matchers.known, below)
    BY DEF Settled, NoTrail
  <2>1. IsPartial(matchers.known, known)
    BY DEF IsPartial, IsPartialWildcard
  <2> QED BY <1>2, <2>1, WildcardCovers DEF TreesOK
<1>6. CASE /\ known # NoNode
           /\ \/ unknown = NoNode
              \/ IsFull(matchers.known, known)
              \/ IsPartialWildcard(matchers.known, known)
  BY <1>3, <1>4, <1>5, <1>6 DEF KeptMatches, MatchesOK
<1>7. CASE known = NoNode \/ ~ \/ unknown = NoNode
                               \/ IsFull(matchers.known, known)
                               \/ IsPartialWildcard(matchers.known, known)
  <2>1. trail.known = known /\ trail.unknown = unknown
    BY <1>7 DEF KeptMatches, NoTrail
  <2>2. CASE unknown = NoNode
    BY <1>3, <1>7, <2>1, <2>2 DEF MatchesOK, Settled, NoTrail
  <2>3. CASE unknown # NoNode
    <3>1. KnownGoesOn(trail, path)
      BY <1>2, <1>7, <2>1, <2>3 DEF KnownGoesOn, IsPartialWildcard
    <3>2. CASE PartlyCoveredIn(matchers.unknown, path)
      BY <2>1, <3>1, <3>2, FoundMeans DEF MatchesOK, PartlyUnknown
    <3>3. CASE ~PartlyCoveredIn(matchers.unknown, path)
      <4>1. CoveredIn(matchers.unknown, path) /\ IsFull(matchers.unknown, unknown)
        BY <2>3, <3>3, FoundMeans
      <4>2. PartlyCoveredIn(matchers.known, path)
        BY <1>1, <1>2, <1>7, <4>1, <2>3
      <4> QED BY <2>1, <3>1, <4>1, <4>2 DEF MatchesOK, UnknownButBelow
    <3> QED BY <3>2, <3>3
  <2> QED BY <2>2, <2>3
<1> QED BY <1>6, <1>7

\* Missing attributes are looked at when the value is not unknown.
LEMMA WithMissingOK ==
  ASSUME TreesOK, NEW path, IsAttribute(path),
         ~IsUnknownAt(path),
         CoveredIn(matchers.missing, path) => IsFull(matchers.missing, NodeOf(matchers.missing, path)),
         NEW known, NEW unknown,
         NEW trail, trail = [missing |-> NoNode, known |-> known, unknown |-> unknown],
         MatchesOK(trail, path)
  PROVE  MatchOK(WithMissing(matchers, NodeOf(matchers.missing, path), trail), path)
<1>0. PICK missing : missing = NodeOf(matchers.missing, path)
  OBVIOUS
<1> PICK at : at = WithMissing(matchers, missing, trail)
  OBVIOUS
<1> SUFFICES MatchOK(at, path)
  BY <1>0
<1>1. IsFull(matchers.missing, missing) <=> CoveredIn(matchers.missing, path)
  BY <1>0, NodeMeans DEF TreesOK
<1>2. IsDecidedAt(path) <=> CoveredIn(matchers.missing, path)
  BY CoveredMeans DEF IsDecidedAt
<1>3. CASE IsFull(matchers.missing, missing)
  BY <1>1, <1>2, <1>3 DEF MatchOK, WithMissing, Decided
<1>4. CASE ~IsFull(matchers.missing, missing)
  <2> PICK moved : moved = [missing |-> missing, known |-> known, unknown |-> unknown]
    OBVIOUS
  <2>1. [trail EXCEPT !.missing = missing] = moved
    OBVIOUS
  <2>2. at.value = Undecided /\ at.trail = moved
    BY <1>4, <2>1 DEF WithMissing
  <2>3. moved.known = trail.known /\ moved.unknown = trail.unknown /\ moved.missing = missing
    OBVIOUS
  <2>4. MatchesOK(moved, path)
    BY <2>3 DEF MatchesOK, Settled, KnownGoesOn, PartlyUnknown, UnknownButBelow
  <2>5. TrailOK(moved, path)
    <3>1. ~CoveredIn(matchers.missing, path)
      BY <1>1, <1>4
    <3>2. moved.missing = NodeOf(matchers.missing, path)
      BY <1>0, <2>3
    <3> QED BY <2>4, <3>1, <3>2 DEF TrailOK
  <2> QED BY <1>1, <1>2, <1>4, <2>2, <2>5 DEF MatchOK
<1> QED BY <1>3, <1>4

\* A trail that leads nowhere, or on from these matches.
LEMMA KeptShape ==
  ASSUME NEW known, NEW unknown
  PROVE  \E k, u : KeptMatches(matchers, known, unknown) =
                     [missing |-> NoNode, known |-> k, unknown |-> u]
BY DEF KeptMatches, NoTrail

\* AttributeLeadMatch at the variable of an attribute.
LEMMA LeadMatchOK ==
  ASSUME TreesOK, NEW path, IsAttribute(path), Len(path) = 1
  PROVE  MatchOK(AttributeLeadMatch(matchers, path[1]), path)
<1>1. PICK known : known = NodeOf(matchers.known, path)
  OBVIOUS
<1>2. PICK unknown : unknown = NodeOf(matchers.unknown, path)
  OBVIOUS
<1>3. /\ MatchVariable(matchers.known, path[1]) = known
      /\ MatchVariable(matchers.unknown, path[1]) = unknown
      /\ MatchVariable(matchers.missing, path[1]) = NodeOf(matchers.missing, path)
      /\ <<path[1]>> = path
  BY <1>1, <1>2, VariableFacts DEF TreesOK
<1>4. /\ Found(unknown, path)
      /\ CoveredIn(matchers.known, path) => IsFull(matchers.known, known)
      /\ CoveredIn(matchers.missing, path)
           => IsFull(matchers.missing, NodeOf(matchers.missing, path))
  BY <1>1, <1>2, CoveredAtNode DEF TreesOK, Found
<1>5. CASE known = NoNode /\ IsFull(matchers.unknown, unknown)
  <2>1. IsUnknownAt(path)
    BY <1>1, <1>4, <1>5, DecidesUnknown
  <2>2. AttributeLeadMatch(matchers, path[1]) = Decided(UnknownOf({path}))
    BY <1>3, <1>5 DEF AttributeLeadMatch
  <2> QED BY <2>1, <2>2 DEF MatchOK, IsDecidedAt, Decided
<1>6. CASE ~(known = NoNode /\ IsFull(matchers.unknown, unknown))
  <2>1. ~IsUnknownAt(path)
    BY <1>1, <1>4, <1>6, DecidesUnknown
  <2>2. PICK trail : trail = KeptMatches(matchers, known, unknown)
    OBVIOUS
  <2>3. AttributeLeadMatch(matchers, path[1])
          = WithMissing(matchers, NodeOf(matchers.missing, path), trail)
    BY <1>3, <1>6, <2>2 DEF AttributeLeadMatch
  <2>4. MatchesOK(trail, path)
    BY <1>1, <1>4, <2>1, <2>2, KeptMatchesOK
  <2>5. PICK k, u : trail = [missing |-> NoNode, known |-> k, unknown |-> u]
    BY <2>2, KeptShape
  <2> QED BY <1>4, <2>1, <2>3, <2>4, <2>5, WithMissingOK
<1> QED BY <1>5, <1>6

\* AttributeTrail::Match at the next name of an attribute.
LEMMA NextMatchOK ==
  ASSUME TreesOK, NEW path, IsAttribute(path), NEW name \in Qualifiers, name # Wildcard,
         NEW trail, TrailOK(trail, path), ~IsUnknownAt(path)
  PROVE  MatchOK(Match(matchers, trail, name), Append(path, name))
<1>0. PICK longer : longer = Append(path, name)
  OBVIOUS
<1>1. IsAttribute(longer) /\ IsPrefix(path, longer) /\ longer # path /\ Parent(longer) = path
  BY <1>0, LongerFacts
<1>2. PICK known : known = NodeOf(matchers.known, longer)
  OBVIOUS
<1>3. MatchQualifier(matchers.missing, trail.missing, name) = NodeOf(matchers.missing, longer)
  BY <1>0, StepReaches DEF TrailOK, TreesOK
<1>4. CoveredIn(matchers.missing, longer) => IsFull(matchers.missing, NodeOf(matchers.missing, longer))
  BY <1>1, CoveredAtNode DEF TrailOK, TreesOK
<1>5. trail.known = NoNode \/ ~IsFull(matchers.known, trail.known)
  BY NodeMeans DEF TrailOK, MatchesOK, Settled, KnownGoesOn, TreesOK
<1>6. ~IsFull(matchers.known, trail.known)
  BY <1>5 DEF IsFull
<1>7. ASSUME ~IsUnknownAt(longer),
             NEW next, MatchesOK(next, longer),
             \E k, u : next = [missing |-> NoNode, known |-> k, unknown |-> u]
      PROVE  MatchOK(WithMissing(matchers, MatchQualifier(matchers.missing, trail.missing, name), next),
                     longer)
  <2> PICK k, u : next = [missing |-> NoNode, known |-> k, unknown |-> u]
    BY <1>7
  <2> QED BY <1>1, <1>3, <1>4, <1>7, WithMissingOK
<1>8. CASE Settled(trail, path)
  <2>1. Match(matchers, trail, name) = MatchPartial(matchers, trail, name)
    BY <1>6, <1>8 DEF Match, Settled, IsPartial
  <2>2. /\ MatchQualifier(matchers.known, trail.known, name) = NoNode
        /\ MatchQualifier(matchers.unknown, trail.unknown, name) = NoNode
    BY <1>8 DEF Settled, MatchQualifier
  <2>3. KeptMatches(matchers, NoNode, NoNode) = NoTrail
    BY DEF KeptMatches, NoTrail
  <2>4. ~IsFull(matchers.unknown, NoNode)
    BY DEF IsFull
  <2>5. MatchPartial(matchers, trail, name)
          = WithMissing(matchers, MatchQualifier(matchers.missing, trail.missing, name), NoTrail)
    BY <2>2, <2>3, <2>4 DEF MatchPartial
  <2>6. ~IsUnknownAt(longer)
    BY <1>1, <1>8, UnknownAtMeans DEF Settled
  <2>7. MatchesOK(NoTrail, longer)
    <3> SUFFICES ASSUME NEW below, IsAttribute(below), IsPrefix(longer, below), below # longer
                 PROVE  CoveredIn(matchers.unknown, below) => CoveredIn(matchers.known, below)
      BY DEF MatchesOK, Settled, NoTrail
    <3>1. IsPrefix(path, below) /\ below # path
      BY <1>1, AttributeFacts, PrefixTransitive, PrefixByLength, PrefixByElements
    <3> QED BY <1>8, <3>1 DEF Settled
  <2> QED BY <1>0, <1>7, <2>1, <2>5, <2>6, <2>7 DEF NoTrail
<1>9. ASSUME KnownGoesOn(trail, path)
      PROVE  /\ MatchQualifier(matchers.known, trail.known, name) = known
             /\ CoveredIn(matchers.known, longer) => IsFull(matchers.known, known)
  BY <1>0, <1>1, <1>2, <1>9, StepReaches, CoveredAtNode DEF KnownGoesOn, TreesOK
<1>10. CASE KnownGoesOn(trail, path) /\ PartlyUnknown(trail, path)
  <2>1. PICK unknown : unknown = NodeOf(matchers.unknown, longer)
    OBVIOUS
  <2>2. /\ NodeOf(matchers.unknown, path) = path
        /\ ~CoveredIn(matchers.unknown, path)
        /\ IsPartial(matchers.unknown, path)
    BY <1>10, NodeMeans, CoveredOrPartly DEF PartlyUnknown, TreesOK
  <2>3. MatchQualifier(matchers.unknown, trail.unknown, name) = unknown
    BY <1>0, <1>10, <2>1, <2>2, StepReaches DEF PartlyUnknown, TreesOK
  <2>4. Found(unknown, longer)
    BY <1>1, <2>1, <2>2, CoveredAtNode DEF Found, TreesOK
  <2>5. Match(matchers, trail, name) = MatchPartial(matchers, trail, name)
    BY <1>6, <1>10, <2>2 DEF Match, PartlyUnknown, IsFull, IsPartial
  <2>6. CASE known = NoNode /\ IsFull(matchers.unknown, unknown)
    <3>1. IsUnknownAt(longer)
      BY <1>1, <1>2, <1>9, <1>10, <2>4, <2>6, DecidesUnknown
    <3>2. MatchPartial(matchers, trail, name) = Decided(UnknownOf({longer}))
      BY <1>0, <1>9, <1>10, <2>3, <2>6 DEF MatchPartial, PartlyUnknown
    <3> QED BY <1>0, <2>5, <3>1, <3>2 DEF MatchOK, IsDecidedAt, Decided
  <2>7. CASE ~(known = NoNode /\ IsFull(matchers.unknown, unknown))
    <3>1. ~IsUnknownAt(longer)
      BY <1>1, <1>2, <1>9, <1>10, <2>4, <2>7, DecidesUnknown
    <3>2. MatchesOK(KeptMatches(matchers, known, unknown), longer)
      BY <1>1, <1>2, <1>9, <1>10, <2>4, <3>1, KeptMatchesOK
    <3>3. MatchPartial(matchers, trail, name)
            = WithMissing(matchers, MatchQualifier(matchers.missing, trail.missing, name),
                          KeptMatches(matchers, known, unknown))
      BY <1>9, <1>10, <2>3, <2>7 DEF MatchPartial
    <3> QED BY <1>0, <1>7, <2>5, <3>1, <3>2, <3>3, KeptShape
  <2> QED BY <2>6, <2>7
<1>11. CASE KnownGoesOn(trail, path) /\ UnknownButBelow(trail, path)
  <2>1. CoveredIn(matchers.unknown, longer)
    BY <1>1, <1>11, CoveredBelow DEF UnknownButBelow, TreesOK
  <2>2. Found(trail.unknown, longer)
    BY <1>11, <2>1 DEF Found, UnknownButBelow
  <2>3. trail.known = path /\ IsPartial(matchers.known, path)
    BY <1>11, NodeMeans DEF KnownGoesOn, UnknownButBelow, TreesOK
  <2>4. Match(matchers, trail, name) = MatchBelowUnknown(matchers, trail, name)
    BY <1>6, <1>11, <2>3 DEF Match, UnknownButBelow
  <2>5. IsFull(matchers.unknown, trail.unknown)
    BY <1>11 DEF UnknownButBelow
  <2>6. CASE known = NoNode
    <3>1. IsUnknownAt(longer)
      BY <1>1, <1>2, <1>9, <1>11, <2>2, <2>5, <2>6, DecidesUnknown
    <3>2. MatchBelowUnknown(matchers, trail, name) = Decided(UnknownOf({longer}))
      BY <1>0, <1>9, <1>11, <2>3, <2>6 DEF MatchBelowUnknown
    <3> QED BY <1>0, <2>4, <3>1, <3>2 DEF MatchOK, IsDecidedAt, Decided
  <2>7. CASE known # NoNode
    <3>1. ~IsUnknownAt(longer)
      BY <1>1, <1>2, <1>9, <1>11, <2>2, <2>7, DecidesUnknown
    <3>2. MatchesOK(KeptMatches(matchers, known, trail.unknown), longer)
      BY <1>1, <1>2, <1>9, <1>11, <2>2, <3>1, KeptMatchesOK
    <3>3. MatchBelowUnknown(matchers, trail, name)
            = WithMissing(matchers, MatchQualifier(matchers.missing, trail.missing, name),
                          KeptMatches(matchers, known, trail.unknown))
      BY <1>9, <1>11, <2>7 DEF MatchBelowUnknown
    <3> QED BY <1>0, <1>7, <2>4, <3>1, <3>2, <3>3, KeptShape
  <2> QED BY <2>6, <2>7
<1> QED BY <1>8, <1>10, <1>11 DEF TrailOK, MatchesOK

\* What PartialUnknownMatch reports at the end of a trail.
LEMMA PartialMatchOK ==
  ASSUME TreesOK, NEW path, IsAttribute(path), NEW trail, TrailOK(trail, path)
  PROVE  /\ PartialUnknownMatch(matchers, trail) \in {NoNode, path}
         /\ \A below : (IsAttribute(below) /\ IsPrefix(path, below) /\ below # path
                        /\ UnknownPath(below)) => PartialUnknownMatch(matchers, trail) = path
<1>1. path # NoNode
  BY AttributeFacts
<1>2. CASE Settled(trail, path)
  <2>1. PartialUnknownMatch(matchers, trail) = NoNode
    BY <1>2 DEF PartialUnknownMatch, Settled
  <2> QED BY <1>2, <2>1, CoveredMeans DEF Settled, UnknownPath
<1>3. CASE KnownGoesOn(trail, path) /\ (PartlyUnknown(trail, path) \/ UnknownButBelow(trail, path))
  <2>1. trail.unknown # NoNode
    BY <1>1, <1>3 DEF PartlyUnknown, UnknownButBelow, IsFull
  <2>2. IsPartial(matchers.known, trail.known) => trail.known = path
    BY <1>3, NodeMeans DEF KnownGoesOn, TreesOK
  <2>3. UnknownButBelow(trail, path) => IsPartial(matchers.known, trail.known)
    BY <1>3, NodeMeans DEF KnownGoesOn, UnknownButBelow, TreesOK
  <2>4. PartialUnknownMatch(matchers, trail) = path
    BY <1>3, <2>1, <2>2, <2>3 DEF PartialUnknownMatch, KnownGoesOn, PartlyUnknown
  <2> QED BY <2>4
<1> QED BY <1>2, <1>3 DEF TrailOK, MatchesOK

-----------------------------------------------------------------------------
(* The walk along an attribute.                                             *)

\* A non-empty set of numbers has a least one.
LEMMA LeastExists ==
  ASSUME NEW S \in SUBSET Nat, S # {}
  PROVE  \E i \in S : \A j \in S : i <= j
<1> DEFINE R == {ss \in Nat \X Nat : ss[1] < ss[2]}
<1>1. OpToRel(<, Nat) = R
  BY Zenon DEF OpToRel
<1>2. PICK i \in S : \A j \in S : ~(<<j, i>> \in R)
  BY <1>1, NatLessThanWellFounded, WFMin, Zenon
<1>3. ASSUME NEW j \in S PROVE i <= j
  <2>1. j \in Nat /\ i \in Nat /\ ~(<<j, i>> \in R)
    BY <1>2
  <2>2. ~(j < i)
    BY <2>1
  <2> QED BY <2>1, <2>2
<1> QED BY <1>3

\* The recursive function of Walk exists: a longest part of it that exists could
\* be continued.
LEMMA WalkExists ==
  ASSUME NEW path, NEW n \in Nat
  PROVE  \E w : w = [i \in 1 .. n |-> MatchAt(path, i, w[i - 1])]
<1> DEFINE Exists(k) == \E w : w = [i \in 1 .. k |-> MatchAt(path, i, w[i - 1])]
           T         == {k \in Nat : ~Exists(k)}
<1> SUFFICES ASSUME T # {} PROVE FALSE
  OBVIOUS
<1>1. PICK k \in T : \A j \in T : k <= j
  BY LeastExists
<1>2. Exists(0)
  <2> DEFINE w == [i \in {} |-> 0]
  <2>1. w = [i \in 1 .. 0 |-> MatchAt(path, i, w[i - 1])]
    OBVIOUS
  <2> QED BY <2>1
<1>3. k \in Nat /\ k # 0 /\ ~Exists(k)
  BY <1>1, <1>2
<1>4. Exists(k - 1)
  BY <1>1, <1>3
<1>5. PICK w : w = [i \in 1 .. k - 1 |-> MatchAt(path, i, w[i - 1])]
  BY <1>4
<1>6. PICK v : v = [i \in 1 .. k |-> MatchAt(path, i, w[i - 1])]
  OBVIOUS
<1>7. \A i \in 1 .. k : i = 1 \/ i - 1 \in 1 .. k - 1
  BY <1>3
<1>8. \A i \in 1 .. k - 1 : w[i] = v[i]
  BY <1>3, <1>5, <1>6
<1>9. \A i \in 1 .. k : MatchAt(path, i, w[i - 1]) = MatchAt(path, i, v[i - 1])
  BY <1>7, <1>8 DEF MatchAt
<1>10. v = [i \in 1 .. k |-> MatchAt(path, i, v[i - 1])]
  BY <1>6, <1>9
<1> QED BY <1>3, <1>10

Prefix(path, i) == SubSeq(path, 1, i)

LEMMA PrefixFacts ==
  ASSUME NEW path, IsAttribute(path), NEW i \in 1 .. Len(path)
  PROVE  /\ IsAttribute(Prefix(path, i))
         /\ Len(Prefix(path, i)) = i
         /\ path[i] \in Qualifiers /\ path[i] # Wildcard
         /\ i = 1 => Prefix(path, i)[1] = path[1]
         /\ i > 1 => Prefix(path, i) = Append(Prefix(path, i - 1), path[i])
<1>1. /\ path \in Seq(Qualifiers) /\ Len(path) \in Nat /\ path[i] \in Qualifiers /\ path[i] # Wildcard
      /\ IsPath(path)
  BY AttributeFacts
<1> PICK p : p = Prefix(path, i)
  OBVIOUS
<1>2. IsPath(p) /\ Len(p) = i /\ IsPrefix(p, path) /\ p[i] = path[i]
  BY <1>1, WayIsPath DEF Prefix
<1>3. IsAttribute(p)
  BY <1>1, <1>2 DEF IsAttribute
<1>4. ASSUME i > 1
      PROVE  p = Append(Prefix(path, i - 1), path[i])
  <2> PICK s : s = Prefix(path, i - 1)
    OBVIOUS
  <2>1. i - 1 \in 1 .. Len(path)
    BY <1>1, <1>4
  <2>2. IsPath(s) /\ Len(s) = i - 1 /\ IsPrefix(s, path)
    BY <1>1, <2>1, WayIsPath DEF Prefix
  <2>3. s \in Seq(Qualifiers) /\ p \in Seq(Qualifiers)
    BY <1>2, <2>2 DEF IsPath
  <2>4. IsPrefix(s, p)
    <3>1. Len(s) <= Len(p)
      BY <1>2, <2>2
    <3> QED BY <1>1, <1>2, <2>2, <2>3, <3>1, PrefixesCompare
  <2>5. Len(p) = Len(s) + 1 /\ p[Len(p)] = path[i]
    BY <1>2, <2>2
  <2> QED BY <1>1, <2>3, <2>4, <2>5, AppendMeans
<1> QED BY <1>1, <1>2, <1>3, <1>4

\* After i names: decided at the first prefix that is, or right so far.
WalkOK(at, path, i) ==
  \/ \E j \in 1 .. i :
       /\ IsDecidedAt(Prefix(path, j))
       /\ \A k \in 1 .. j - 1 : ~IsDecidedAt(Prefix(path, k))
       /\ at.value = IF IsUnknownAt(Prefix(path, j))
                     THEN UnknownOf({Prefix(path, j)}) ELSE MissingAttribute
  \/ /\ \A j \in 1 .. i : ~IsDecidedAt(Prefix(path, j))
     /\ at.value = Undecided
     /\ TrailOK(at.trail, Prefix(path, i))

LEMMA DecisionIsOne ==
  ASSUME NEW s
  PROVE  UnknownOf(s) # Undecided /\ MissingAttribute # Undecided
<1>1. UnknownOf(s).kind = "unknown" /\ MissingAttribute.kind = "error" /\ Undecided.kind = "undecided"
  BY DEF UnknownOf, MissingAttribute, ErrorOf, Undecided
<1> QED BY <1>1

LEMMA WalkStepOK ==
  ASSUME TreesOK, NEW path, IsAttribute(path), NEW i \in 1 .. Len(path), NEW before,
         i > 1 => WalkOK(before, path, i - 1)
  PROVE  WalkOK(MatchAt(path, i, before), path, i)
<1> PICK at : at = MatchAt(path, i, before)
  OBVIOUS
<1> SUFFICES WalkOK(at, path, i)
  OBVIOUS
<1>1. IsAttribute(Prefix(path, i)) /\ i \in Nat /\ i >= 1 /\ i \in 1 .. i
  BY PrefixFacts, AttributeFacts
<1>2. ASSUME MatchOK(at, Prefix(path, i)), \A j \in 1 .. i - 1 : ~IsDecidedAt(Prefix(path, j))
      PROVE  WalkOK(at, path, i)
  <2>1. CASE IsDecidedAt(Prefix(path, i))
    BY <1>1, <1>2, <2>1 DEF MatchOK, WalkOK
  <2>2. CASE ~IsDecidedAt(Prefix(path, i))
    <3>1. \A j \in 1 .. i : j = i \/ j \in 1 .. i - 1
      BY <1>1
    <3> QED BY <1>2, <2>2, <3>1 DEF MatchOK, WalkOK
  <2> QED BY <2>1, <2>2
<1>3. CASE i = 1
  <2>1. at = AttributeLeadMatch(matchers, Prefix(path, i)[1]) /\ Len(Prefix(path, i)) = 1
    BY <1>3, PrefixFacts DEF MatchAt
  <2> QED BY <1>1, <1>2, <1>3, <2>1, LeadMatchOK
<1>4. CASE i > 1 /\ before.value # Undecided
  <2>1. at = before
    BY <1>4 DEF MatchAt
  <2>2. PICK j \in 1 .. i - 1 :
          /\ IsDecidedAt(Prefix(path, j))
          /\ \A k \in 1 .. j - 1 : ~IsDecidedAt(Prefix(path, k))
          /\ before.value = IF IsUnknownAt(Prefix(path, j))
                            THEN UnknownOf({Prefix(path, j)}) ELSE MissingAttribute
    BY <1>4 DEF WalkOK
  <2>3. j \in 1 .. i
    BY <1>1
  <2> QED BY <2>1, <2>2, <2>3 DEF WalkOK
<1>5. CASE i > 1 /\ before.value = Undecided
  <2>1. at = Match(matchers, before.trail, path[i])
    BY <1>5 DEF MatchAt
  <2>2. /\ \A j \in 1 .. i - 1 : ~IsDecidedAt(Prefix(path, j))
        /\ TrailOK(before.trail, Prefix(path, i - 1))
    BY <1>5, DecisionIsOne DEF WalkOK
  <2>3. i - 1 \in 1 .. Len(path) /\ i - 1 \in 1 .. i - 1
    BY <1>1, <1>5
  <2>4. IsAttribute(Prefix(path, i - 1)) /\ ~IsUnknownAt(Prefix(path, i - 1))
    BY <2>2, <2>3, PrefixFacts DEF IsDecidedAt
  <2>5. path[i] \in Qualifiers /\ path[i] # Wildcard
        /\ Prefix(path, i) = Append(Prefix(path, i - 1), path[i])
    BY <1>5, PrefixFacts
  <2>6. MatchOK(at, Prefix(path, i))
    BY <2>1, <2>2, <2>4, <2>5, NextMatchOK
  <2> QED BY <1>2, <2>2, <2>6
<1> QED BY <1>1, <1>3, <1>4, <1>5

LEMMA WalkIsOK ==
  ASSUME TreesOK, NEW path, IsAttribute(path)
  PROVE  WalkOK(Walk(path), path, Len(path))
<1> DEFINE n == Len(path)
           at[i \in 1 .. n] == MatchAt(path, i, at[i - 1])
<1>1. n \in Nat /\ n >= 1
  BY AttributeFacts
<1>2. at = [i \in 1 .. n |-> MatchAt(path, i, at[i - 1])]
  BY <1>1, WalkExists
<1>3. Walk(path) = at[n]
  BY DEF Walk
<1> HIDE DEF at
<1> DEFINE T == {i \in 1 .. n : ~WalkOK(at[i], path, i)}
<1>4. ASSUME T # {} PROVE FALSE
  <2>1. T \in SUBSET Nat
    BY <1>1
  <2> HIDE DEF T
  <2>2. PICK i \in T : \A j \in T : i <= j
    BY <1>4, <2>1, LeastExists
  <2> USE DEF T
  <2>3. i \in 1 .. n /\ ~WalkOK(at[i], path, i) /\ at[i] = MatchAt(path, i, at[i - 1])
    BY <1>2, <2>2
  <2>4. i > 1 => WalkOK(at[i - 1], path, i - 1)
    <3> SUFFICES ASSUME i > 1 PROVE WalkOK(at[i - 1], path, i - 1)
      OBVIOUS
    <3>1. i - 1 \in 1 .. n /\ ~(i <= i - 1)
      BY <1>1, <2>3
    <3> QED BY <2>2, <3>1
  <2> QED BY <2>3, <2>4, WalkStepOK
<1> QED BY <1>1, <1>3, <1>4

LEMMA AttributeIsAttribute ==
  ASSUME NEW path \in Attributes
  PROVE  IsAttribute(path)
<1>1. path \in Seq(Qualifiers \ {Wildcard}) /\ path # <<>>
  BY AttributesAssumption DEF Names
<1>2. Len(path) \in Nat /\ \A i \in 1 .. Len(path) : path[i] \in Qualifiers \ {Wildcard}
  BY <1>1, ElementOfSeq, LenProperties
<1>3. path \in Seq(Qualifiers)
  BY <1>1, <1>2, SeqDef, LenProperties
<1>4. Len(path) \in 1 .. Len(path) /\ 1 \in 1 .. Len(path)
  BY <1>1, <1>2, EmptySeq
<1> QED BY <1>1, <1>2, <1>3, <1>4 DEF IsAttribute, IsPath

\* A walk that is right at every name means what the patterns say.
LEMMA TreesSuffice == ASSUME TreesOK PROVE TrailMeansPatterns
<1> SUFFICES ASSUME NEW path \in Attributes
             PROVE  LET prefix(i) == SubSeq(path, 1, i)
                        stops     == {i \in DOMAIN path : IsDecidedAt(prefix(i))}
                        walk      == Walk(path)
                        partial   == PartialUnknownMatch(matchers, walk.trail)
                    IN  IF stops = {}
                        THEN /\ walk.value = Undecided
                             /\ partial \in {NoNode, path}
                             /\ (\E q \in Attributes : IsStrictPrefix(path, q) /\ UnknownPath(q))
                                  => partial = path
                        ELSE walk.value = IF IsUnknownAt(prefix(Min(stops)))
                                          THEN UnknownOf({prefix(Min(stops))}) ELSE MissingAttribute
  BY DEF TrailMeansPatterns
<1> DEFINE stops   == {i \in DOMAIN path : IsDecidedAt(Prefix(path, i))}
           partial == PartialUnknownMatch(matchers, Walk(path).trail)
<1> SUFFICES IF stops = {}
             THEN /\ Walk(path).value = Undecided
                  /\ partial \in {NoNode, path}
                  /\ (\E q \in Attributes : IsStrictPrefix(path, q) /\ UnknownPath(q))
                       => partial = path
             ELSE Walk(path).value = IF IsUnknownAt(Prefix(path, Min(stops)))
                                     THEN UnknownOf({Prefix(path, Min(stops))}) ELSE MissingAttribute
  BY DEF Prefix
<1>1. IsAttribute(path)
  BY AttributeIsAttribute
<1>2. /\ path \in Seq(Qualifiers) /\ Len(path) \in Nat /\ Len(path) >= 1
      /\ DOMAIN path = 1 .. Len(path)
  BY <1>1, AttributeFacts, LenProperties
<1>3. WalkOK(Walk(path), path, Len(path))
  BY <1>1, WalkIsOK
<1>4. CASE stops = {}
  <2>1. \A j \in 1 .. Len(path) : ~IsDecidedAt(Prefix(path, j))
    BY <1>2, <1>4
  <2>2. Prefix(path, Len(path)) = path
    BY <1>2, PrefixReflexive, PrefixByLength DEF Prefix
  <2>3. Walk(path).value = Undecided /\ TrailOK(Walk(path).trail, path)
    BY <1>3, <2>1, <2>2 DEF WalkOK
  <2>4. partial \in {NoNode, path}
    BY <1>1, <2>3, PartialMatchOK
  <2>5. ASSUME NEW q \in Attributes, IsStrictPrefix(path, q), UnknownPath(q)
        PROVE  partial = path
    BY <1>1, <2>3, <2>5, AttributeIsAttribute, PartialMatchOK DEF IsStrictPrefix
  <2> QED BY <1>4, <2>3, <2>4, <2>5
<1>5. CASE stops # {}
  <2>1. PICK j \in 1 .. Len(path) :
          /\ IsDecidedAt(Prefix(path, j))
          /\ \A k \in 1 .. j - 1 : ~IsDecidedAt(Prefix(path, k))
          /\ Walk(path).value = IF IsUnknownAt(Prefix(path, j))
                                THEN UnknownOf({Prefix(path, j)}) ELSE MissingAttribute
    BY <1>2, <1>3, <1>5 DEF WalkOK
  <2>2. j \in stops /\ \A k \in stops : j <= k
    <3>1. j \in stops
      BY <1>2, <2>1
    <3>2. ASSUME NEW k \in stops, ~(j <= k)
          PROVE  FALSE
      <4>1. k \in 1 .. Len(path) /\ IsDecidedAt(Prefix(path, k))
        BY <1>2
      <4>2. k \in 1 .. j - 1
        BY <1>2, <3>2, <4>1
      <4> QED BY <2>1, <4>1, <4>2
    <3> QED BY <3>1, <3>2
  <2>3. \A k \in stops : k \in Nat
    BY <1>2
  <2> HIDE DEF stops
  <2>4. Min(stops) \in stops /\ \A k \in stops : Min(stops) <= k
    BY <2>2, Zenon DEF Min
  <2>5. Min(stops) = j
    <3> PICK m : m = Min(stops)
      OBVIOUS
    <3>1. m \in Nat /\ j \in Nat /\ m <= j /\ j <= m
      BY <2>2, <2>3, <2>4
    <3> QED BY <3>1
  <2> QED BY <1>5, <2>1, <2>5
<1> QED BY <1>4, <1>5

-----------------------------------------------------------------------------
(* Folds over the arguments of a step, and over sets of attributes.        *)

LEMMA Induction ==
  ASSUME NEW S, 0 \in S, \A n \in Nat : n \in S => n + 1 \in S
  PROVE  Nat \subseteq S
<1> DEFINE T == {n \in Nat : n \notin S}
<1> SUFFICES ASSUME T # {} PROVE FALSE
  OBVIOUS
<1>1. PICK k \in T : \A j \in T : k <= j
  BY LeastExists
<1>2. k \in Nat /\ k # 0 /\ k - 1 \in Nat /\ k \notin S
  BY <1>1
<1>3. k - 1 \in S
  BY <1>1, <1>2
<1> QED BY <1>2, <1>3

\* The greatest of some of the first numbers.
LEMMA GreatestFacts ==
  ASSUME NEW n \in Nat
  PROVE  /\ \A s \in SUBSET (1 .. n + 1) :
              IF n + 1 \in s THEN Max(s) = n + 1 /\ s \ {n + 1} \in SUBSET (1 .. n)
              ELSE s \in SUBSET (1 .. n)
<1>1. ASSUME NEW s \in SUBSET (1 .. n + 1), n + 1 \in s
      PROVE  Max(s) = n + 1
  <2>1. \A x \in s : n + 1 >= x
    OBVIOUS
  <2>2. Max(s) \in s /\ \A x \in s : Max(s) >= x
    BY <1>1, <2>1, Zenon DEF Max
  <2>3. PICK m : m = Max(s)
    OBVIOUS
  <2>4. m \in 1 .. n + 1 /\ m >= n + 1
    BY <1>1, <2>2, <2>3
  <2> QED BY <2>3, <2>4
<1>2. ASSUME NEW s \in SUBSET (1 .. n + 1)
      PROVE  /\ s \ {n + 1} \in SUBSET (1 .. n)
             /\ n + 1 \notin s => s \in SUBSET (1 .. n)
  OBVIOUS
<1> QED BY <1>1, <1>2

MergeIter(values, D, it) ==
  it = [s \in SUBSET D |->
          IF s = {} THEN NoUnknowns ELSE MaybeAddValue(it[s \ {Max(s)}], values[Max(s)])]

LEMMA MergeIterExists ==
  ASSUME NEW values, NEW n \in Nat
  PROVE  \E it : MergeIter(values, 1 .. n, it)
<1> DEFINE S == {k \in Nat : \E it : MergeIter(values, 1 .. k, it)}
<1>1. 0 \in S
  <2> DEFINE it == [s \in {{}} |-> NoUnknowns]
  <2>1. SUBSET (1 .. 0) = {{}}
    OBVIOUS
  <2>2. MergeIter(values, 1 .. 0, it)
    BY <2>1 DEF MergeIter
  <2> QED BY <2>2
<1>2. ASSUME NEW k \in Nat, k \in S PROVE k + 1 \in S
  <2>1. PICK it : MergeIter(values, 1 .. k, it)
    BY <1>2
  <2>2. PICK new : new = [s \in SUBSET (1 .. k + 1) |->
                 IF s = {} THEN NoUnknowns ELSE MaybeAddValue(it[s \ {Max(s)}], values[Max(s)])]
    OBVIOUS
  <2>3. \A s \in SUBSET (1 .. k) : new[s] = it[s]
    <3>1. SUBSET (1 .. k) \subseteq SUBSET (1 .. k + 1)
      OBVIOUS
    <3> QED BY <2>1, <2>2, <3>1, Zenon DEF MergeIter
  <2>5. ASSUME NEW s \in SUBSET (1 .. k + 1), s # {}
        PROVE  s \ {Max(s)} \in SUBSET (1 .. k)
    <3>1. CASE k + 1 \in s
      BY <3>1, GreatestFacts
    <3>2. CASE k + 1 \notin s
      <4>1. s \in SUBSET (1 .. k)
        BY <3>2, GreatestFacts
      <4> QED BY <4>1
    <3> QED BY <3>1, <3>2
  <2>6. \A s \in SUBSET (1 .. k + 1) : new[s \ {Max(s)}] = it[s \ {Max(s)}] \/ s = {}
    BY <2>3, <2>5
  <2>7. MergeIter(values, 1 .. k + 1, new)
    BY <2>2, <2>6 DEF MergeIter
  <2> QED BY <2>7
<1> HIDE DEF S
<1>3. n \in S
  BY <1>1, <1>2, Induction
<1> QED BY <1>3 DEF S

LEMMA MergeFold ==
  ASSUME NEW n \in Nat, NEW values, DOMAIN values = 1 .. n
  PROVE  \E acc : /\ acc[0] = NoUnknowns
                  /\ \A i \in 1 .. n : acc[i] = MaybeAddValue(acc[i - 1], values[i])
                  /\ MergeValues(values) = acc[n]
<1> DEFINE iter[s \in SUBSET (DOMAIN values)] ==
             IF s = {} THEN NoUnknowns
             ELSE MaybeAddValue(iter[s \ {Max(s)}], values[Max(s)])
<1>1. MergeValues(values) = iter[DOMAIN values]
  BY DEF MergeValues, FoldLeft, MapThenFoldSet
<1>2. \E it : MergeIter(values, DOMAIN values, it)
  BY MergeIterExists
<1>3. MergeIter(values, DOMAIN values, iter)
  BY <1>2 DEF MergeIter
<1> HIDE DEF iter
<1>4. PICK acc : acc = [i \in 0 .. n |-> iter[1 .. i]]
  OBVIOUS
<1>5. acc[0] = NoUnknowns
  BY <1>3, <1>4 DEF MergeIter
<1>6. ASSUME NEW i \in 1 .. n
      PROVE  acc[i] = MaybeAddValue(acc[i - 1], values[i])
  <2>1. i - 1 \in Nat /\ (i - 1) + 1 = i /\ i \in 1 .. i /\ (1 .. i) \ {i} = 1 .. i - 1
    OBVIOUS
  <2>2. Max(1 .. i) = i
    <3> PICK k \in Nat : k = i - 1
      BY <2>1
    <3>1. 1 .. i \in SUBSET (1 .. k + 1) /\ k + 1 \in 1 .. i /\ k + 1 = i
      OBVIOUS
    <3> QED BY <3>1, GreatestFacts
  <2>3. 1 .. i \in SUBSET DOMAIN values /\ 1 .. i # {}
    OBVIOUS
  <2>4. iter[1 .. i] = MaybeAddValue(iter[1 .. i - 1], values[i])
    BY <1>3, <2>1, <2>2, <2>3 DEF MergeIter
  <2> QED BY <1>4, <2>1, <2>4
<1>7. MergeValues(values) = acc[n]
  BY <1>1, <1>4
<1> QED BY <1>5, <1>6, <1>7
MergeTrails(m, base, arguments) ==
  FoldLeft(LAMBDA acc, a : MaybeAddTrail(acc, m, a.trail), base, arguments)

TrailIter(m, base, arguments, D, it) ==
  it = [s \in SUBSET D |->
          IF s = {} THEN base ELSE MaybeAddTrail(it[s \ {Max(s)}], m, arguments[Max(s)].trail)]

LEMMA TrailIterExists ==
  ASSUME NEW m, NEW base, NEW arguments, NEW n \in Nat
  PROVE  \E it : TrailIter(m, base, arguments, 1 .. n, it)
<1> DEFINE S == {k \in Nat : \E it : TrailIter(m, base, arguments, 1 .. k, it)}
<1>1. 0 \in S
  <2> DEFINE it == [s \in {{}} |-> base]
  <2>1. SUBSET (1 .. 0) = {{}}
    OBVIOUS
  <2>2. TrailIter(m, base, arguments, 1 .. 0, it)
    BY <2>1 DEF TrailIter
  <2> QED BY <2>2
<1>2. ASSUME NEW k \in Nat, k \in S PROVE k + 1 \in S
  <2>1. PICK it : TrailIter(m, base, arguments, 1 .. k, it)
    BY <1>2
  <2>2. PICK new : new = [s \in SUBSET (1 .. k + 1) |->
                 IF s = {} THEN base ELSE MaybeAddTrail(it[s \ {Max(s)}], m, arguments[Max(s)].trail)]
    OBVIOUS
  <2>3. \A s \in SUBSET (1 .. k) : new[s] = it[s]
    <3>1. SUBSET (1 .. k) \subseteq SUBSET (1 .. k + 1)
      OBVIOUS
    <3> QED BY <2>1, <2>2, <3>1, Zenon DEF TrailIter
  <2>5. ASSUME NEW s \in SUBSET (1 .. k + 1), s # {}
        PROVE  s \ {Max(s)} \in SUBSET (1 .. k)
    <3>1. CASE k + 1 \in s
      BY <3>1, GreatestFacts
    <3>2. CASE k + 1 \notin s
      <4>1. s \in SUBSET (1 .. k)
        BY <3>2, GreatestFacts
      <4> QED BY <4>1
    <3> QED BY <3>1, <3>2
  <2>6. \A s \in SUBSET (1 .. k + 1) : new[s \ {Max(s)}] = it[s \ {Max(s)}] \/ s = {}
    BY <2>3, <2>5
  <2>7. TrailIter(m, base, arguments, 1 .. k + 1, new)
    BY <2>2, <2>6 DEF TrailIter
  <2> QED BY <2>7
<1> HIDE DEF S
<1>3. n \in S
  BY <1>1, <1>2, Induction
<1> QED BY <1>3 DEF S

LEMMA TrailFold ==
  ASSUME NEW n \in Nat, NEW m, NEW base, NEW arguments, DOMAIN arguments = 1 .. n
  PROVE  \E acc : /\ acc[0] = base
                  /\ \A i \in 1 .. n : acc[i] = MaybeAddTrail(acc[i - 1], m, arguments[i].trail)
                  /\ MergeTrails(m, base, arguments) = acc[n]
<1> DEFINE iter[s \in SUBSET (DOMAIN arguments)] ==
             IF s = {} THEN base
             ELSE MaybeAddTrail(iter[s \ {Max(s)}], m, arguments[Max(s)].trail)
<1>1. MergeTrails(m, base, arguments) = iter[DOMAIN arguments]
  BY DEF MergeTrails, FoldLeft, MapThenFoldSet
<1>2. \E it : TrailIter(m, base, arguments, DOMAIN arguments, it)
  BY TrailIterExists
<1>3. TrailIter(m, base, arguments, DOMAIN arguments, iter)
  BY <1>2 DEF TrailIter
<1> HIDE DEF iter
<1>4. PICK acc : acc = [i \in 0 .. n |-> iter[1 .. i]]
  OBVIOUS
<1>5. acc[0] = base
  BY <1>3, <1>4 DEF TrailIter
<1>6. ASSUME NEW i \in 1 .. n
      PROVE  acc[i] = MaybeAddTrail(acc[i - 1], m, arguments[i].trail)
  <2>1. i - 1 \in Nat /\ (i - 1) + 1 = i /\ i \in 1 .. i /\ (1 .. i) \ {i} = 1 .. i - 1
    OBVIOUS
  <2>2. Max(1 .. i) = i
    <3> PICK k \in Nat : k = i - 1
      BY <2>1
    <3>1. 1 .. i \in SUBSET (1 .. k + 1) /\ k + 1 \in 1 .. i /\ k + 1 = i
      OBVIOUS
    <3> QED BY <3>1, GreatestFacts
  <2>3. 1 .. i \in SUBSET DOMAIN arguments /\ 1 .. i # {}
    OBVIOUS
  <2>4. iter[1 .. i] = MaybeAddTrail(iter[1 .. i - 1], m, arguments[i].trail)
    BY <1>3, <2>1, <2>2, <2>3 DEF TrailIter
  <2> QED BY <1>4, <2>1, <2>4
<1>7. MergeTrails(m, base, arguments) = acc[n]
  BY <1>1, <1>4
<1> QED BY <1>5, <1>6, <1>7

-----------------------------------------------------------------------------
(* The unknowns of several arguments are merged to a set of attributes.    *)

\* What an unknown value names: finitely many attributes.
AttributeSets == {S \in SUBSET Seq(Qualifiers) : IsFiniteSet(S) /\ \A p \in S : IsAttribute(p)}

NamesAttributes(value) == value.kind = "unknown" => value.content \in AttributeSets

Fields == {"nodes", "largest", "pair", "added_pair", "empty"}

AccumulatorOK(acc) ==
  /\ DOMAIN acc = Fields
  /\ acc.nodes \in AttributeSets
  /\ acc.largest \in AttributeSets
  /\ acc.pair \in Seq(AttributeSets)
  /\ Len(acc.pair) <= 2
  /\ acc.empty \in BOOLEAN
  /\ Len(acc.pair) > 0 => ~acc.empty

LEMMA AttributeSetFacts ==
  /\ {} \in AttributeSets
  /\ \A S, T \in AttributeSets : S \cup T \in AttributeSets
  /\ \A p : IsAttribute(p) => {p} \in AttributeSets
<1>1. {} \in AttributeSets
  BY FS_EmptySet DEF AttributeSets
<1>2. ASSUME NEW S \in AttributeSets, NEW T \in AttributeSets
      PROVE  S \cup T \in AttributeSets
  BY FS_Union DEF AttributeSets
<1>3. ASSUME NEW p, IsAttribute(p)
      PROVE  {p} \in AttributeSets
  BY <1>3, FS_Singleton, AttributeFacts DEF AttributeSets
<1> QED BY <1>1, <1>2, <1>3

LEMMA AddSetOK ==
  ASSUME NEW acc, AccumulatorOK(acc), NEW set \in AttributeSets
  PROVE  AccumulatorOK(AddSet(acc, set)) /\ ~AddSet(acc, set).empty
<1> HIDE DEF AttributeSets
<1>1. PICK largest \in AttributeSets :
        largest = IF Cardinality(set) > Cardinality(acc.largest) THEN set ELSE acc.largest
  BY DEF AccumulatorOK
<1>2. PICK n \in Nat : n = Len(acc.pair) /\ n <= 2 /\ (n > 0 => ~acc.empty)
  BY LenProperties, Zenon DEF AccumulatorOK
<1>5. n <= 2
  BY <1>2, Zenon
<1>3. CASE n < 2
  <2>1. AddSet(acc, set) =
          [acc EXCEPT !.pair = Append(acc.pair, set), !.largest = largest, !.empty = FALSE]
    BY <1>1, <1>2, <1>3 DEF AddSet
  <2>2. Append(acc.pair, set) \in Seq(AttributeSets) /\ Len(Append(acc.pair, set)) = n + 1
    BY <1>2, AppendProperties DEF AccumulatorOK
  <2>3. /\ DOMAIN AddSet(acc, set) = Fields
        /\ AddSet(acc, set).nodes = acc.nodes
        /\ AddSet(acc, set).largest = largest
        /\ AddSet(acc, set).pair = Append(acc.pair, set)
        /\ AddSet(acc, set).empty = FALSE
    BY <2>1 DEF AccumulatorOK, Fields
  <2>4. n + 1 <= 2
    BY <1>2, <1>3
  <2> QED BY <1>1, <2>2, <2>3, <2>4, Zenon DEF AccumulatorOK
<1>4. CASE ~(n < 2)
  <2>1. n = 2
    BY <1>4, <1>5
  <2>2. acc.pair[1] \in AttributeSets /\ acc.pair[2] \in AttributeSets
    <3>1. acc.pair \in Seq(AttributeSets) /\ Len(acc.pair) = 2
      BY <1>2, <2>1, Zenon DEF AccumulatorOK
    <3>2. 1 \in 1 .. 2 /\ 2 \in 1 .. 2
      OBVIOUS
    <3> QED BY <3>1, <3>2, ElementOfSeq, Zenon
  <2>3. PICK merged \in AttributeSets :
          merged = IF acc.added_pair THEN acc.nodes
                   ELSE acc.nodes \cup acc.pair[1] \cup acc.pair[2]
    BY <2>2, AttributeSetFacts DEF AccumulatorOK
  <2>4. AddSet(acc, set) =
          [acc EXCEPT !.nodes = merged \cup set, !.added_pair = TRUE, !.largest = largest]
    BY <1>1, <1>2, <1>4, <2>3 DEF AddSet
  <2>5. merged \cup set \in AttributeSets
    BY <2>3, AttributeSetFacts
  <2>6. /\ DOMAIN AddSet(acc, set) = Fields
        /\ AddSet(acc, set).nodes = merged \cup set
        /\ AddSet(acc, set).largest = largest
        /\ AddSet(acc, set).pair = acc.pair
        /\ AddSet(acc, set).empty = acc.empty
    BY <2>4 DEF AccumulatorOK, Fields
  <2>7. ~acc.empty
    BY <1>2, <2>1
  <2> QED BY <1>1, <2>5, <2>6, <2>7, Zenon DEF AccumulatorOK
<1> QED BY <1>3, <1>4
LEMMA AddNodeOK ==
  ASSUME NEW acc, AccumulatorOK(acc), NEW node, IsAttribute(node)
  PROVE  AccumulatorOK(AddNode(acc, node)) /\ ~AddNode(acc, node).empty
<1>1. acc.nodes \cup {node} \in AttributeSets
  BY AttributeSetFacts DEF AccumulatorOK
<1>2. /\ DOMAIN AddNode(acc, node) = Fields
      /\ AddNode(acc, node).nodes = acc.nodes \cup {node}
      /\ AddNode(acc, node).largest = acc.largest
      /\ AddNode(acc, node).pair = acc.pair
      /\ AddNode(acc, node).empty = FALSE
  BY DEF AddNode, AccumulatorOK, Fields
<1> QED BY <1>1, <1>2, Zenon DEF AccumulatorOK

LEMMA NothingOK == AccumulatorOK(NoUnknowns) /\ NoUnknowns.empty
<1>1. NoUnknowns.pair = <<>> /\ <<>> \in Seq(AttributeSets) /\ Len(<<>>) = 0
  BY DEF NoUnknowns
<1>2. /\ DOMAIN NoUnknowns = Fields /\ NoUnknowns.nodes = {} /\ NoUnknowns.largest = {}
      /\ NoUnknowns.empty = TRUE
  BY DEF NoUnknowns, Fields
<1>3. Len(NoUnknowns.pair) <= 2 /\ ~(Len(NoUnknowns.pair) > 0)
  BY <1>1
<1> QED BY <1>1, <1>2, <1>3, AttributeSetFacts, Zenon DEF AccumulatorOK

LEMMA AccumulateOK ==
  ASSUME NEW acc, AccumulatorOK(acc)
  PROVE  Accumulate(acc) \in AttributeSets
<1>1. acc.nodes \in AttributeSets /\ acc.largest \in AttributeSets
  BY DEF AccumulatorOK
<1>2. PICK pair \in Seq(AttributeSets) : pair = acc.pair
  BY DEF AccumulatorOK
<1>3. PICK n \in Nat : n = Len(pair) /\ n <= 2
  BY <1>2, LenProperties, Zenon DEF AccumulatorOK
<1>4. n \in {0, 1, 2}
  BY <1>3
<1>5. \A i \in 1 .. n : pair[i] \in AttributeSets
  BY <1>3, ElementOfSeq
<1>6. ToSet(pair) = {pair[i] : i \in 1 .. n}
  BY <1>3, LenProperties DEF ToSet, Range
<1>7. CASE n = 0
  <2>1. UNION ToSet(pair) = {}
    BY <1>6, <1>7
  <2> QED BY <1>1, <1>2, <2>1, AttributeSetFacts DEF Accumulate
<1>8. CASE n = 1
  <2>1. UNION ToSet(pair) = pair[1]
    BY <1>6, <1>8
  <2>2. pair[1] \in AttributeSets
    BY <1>5, <1>8
  <2> QED BY <1>1, <1>2, <2>1, <2>2 DEF Accumulate
<1>9. CASE n = 2
  <2>1. ToSet(pair) = {pair[1], pair[2]}
    BY <1>6, <1>9
  <2>2. pair[1] \in AttributeSets /\ pair[2] \in AttributeSets
    BY <1>5, <1>9
  <2>3. UNION ToSet(pair) \in AttributeSets
    BY <2>1, <2>2, AttributeSetFacts
  <2> QED BY <1>1, <1>2, <2>3 DEF Accumulate
<1> QED BY <1>4, <1>7, <1>8, <1>9

LEMMA MergeNothing ==
  ASSUME NEW n \in Nat, NEW values, DOMAIN values = 1 .. n,
         \A i \in 1 .. n : values[i].kind # "unknown"
  PROVE  MergeValues(values) = NoUnknowns
<1>1. PICK acc : /\ acc[0] = NoUnknowns
                 /\ \A i \in 1 .. n : acc[i] = MaybeAddValue(acc[i - 1], values[i])
                 /\ MergeValues(values) = acc[n]
  BY MergeFold
<1> DEFINE S == {i \in Nat : i <= n => acc[i] = NoUnknowns}
<1>2. 0 \in S
  BY <1>1
<1>3. ASSUME NEW i \in Nat, i \in S
      PROVE  i + 1 \in S
  <2> SUFFICES ASSUME i + 1 <= n PROVE acc[i + 1] = NoUnknowns
    OBVIOUS
  <2>1. i + 1 \in 1 .. n /\ (i + 1) - 1 = i /\ i <= n
    OBVIOUS
  <2>2. acc[i] = NoUnknowns
    BY <1>3, <2>1
  <2> QED BY <1>1, <2>1, <2>2 DEF MaybeAddValue
<1> HIDE DEF S
<1>4. n \in S
  BY <1>2, <1>3, Induction
<1> QED BY <1>1, <1>4 DEF S

LEMMA MergeOK ==
  ASSUME NEW n \in Nat, NEW values, DOMAIN values = 1 .. n,
         \A i \in 1 .. n : NamesAttributes(values[i])
  PROVE  /\ AccumulatorOK(MergeValues(values))
         /\ MergeValues(values).empty <=> \A i \in 1 .. n : values[i].kind # "unknown"
<1>1. PICK acc : /\ acc[0] = NoUnknowns
                 /\ \A i \in 1 .. n : acc[i] = MaybeAddValue(acc[i - 1], values[i])
                 /\ MergeValues(values) = acc[n]
  BY MergeFold
<1> DEFINE OK(i) == /\ AccumulatorOK(acc[i])
                    /\ acc[i].empty <=> \A j \in 1 .. i : values[j].kind # "unknown"
           S     == {i \in Nat : i <= n => OK(i)}
<1>2. 0 \in S
  BY <1>1, NothingOK
<1>3. ASSUME NEW i \in Nat, i \in S
      PROVE  i + 1 \in S
  <2> SUFFICES ASSUME i + 1 <= n PROVE OK(i + 1)
    OBVIOUS
  <2>1. i + 1 \in 1 .. n /\ (i + 1) - 1 = i /\ i <= n
    OBVIOUS
  <2>2. OK(i) /\ acc[i + 1] = MaybeAddValue(acc[i], values[i + 1])
    BY <1>1, <1>3, <2>1
  <2>3. 1 .. i + 1 = (1 .. i) \cup {i + 1}
    OBVIOUS
  <2>4. CASE values[i + 1].kind = "unknown"
    <3>1. acc[i + 1] = AddSet(acc[i], values[i + 1].content) /\ values[i + 1].content \in AttributeSets
      BY <2>1, <2>2, <2>4 DEF MaybeAddValue, NamesAttributes
    <3>2. AccumulatorOK(acc[i + 1]) /\ ~acc[i + 1].empty
      BY <2>2, <3>1, AddSetOK
    <3> QED BY <2>3, <2>4, <3>2
  <2>5. CASE values[i + 1].kind # "unknown"
    <3>1. acc[i + 1] = acc[i]
      BY <2>2, <2>5 DEF MaybeAddValue
    <3> QED BY <2>2, <2>3, <2>5, <3>1
  <2> QED BY <2>4, <2>5
<1> HIDE DEF S
<1>4. n \in S
  BY <1>2, <1>3, Induction
<1> QED BY <1>1, <1>4 DEF S

\* The values and the trails of arguments.
AsksNothing(m, argument) ==
  argument.value.kind # "unknown" /\ GetNotFullUnknownMatch(m, argument.trail) = NoNode

LEMMA IdentifyNothing ==
  ASSUME NEW m, NEW n \in Nat, NEW arguments, DOMAIN arguments = 1 .. n,
         \A i \in 1 .. n : AsksNothing(m, arguments[i])
  PROVE  PartiallyIdentifyAndMergeUnknowns(m, arguments) = NoUnknowns
<1> DEFINE values == [i \in DOMAIN arguments |-> arguments[i].value]
<1>1. MergeValues(values) = NoUnknowns
  <2>1. DOMAIN values = 1 .. n /\ \A i \in 1 .. n : values[i].kind # "unknown"
    BY DEF AsksNothing
  <2> HIDE DEF values
  <2> QED BY <2>1, MergeNothing
<1> PICK base : base = NoUnknowns
  OBVIOUS
<1>2. PartiallyIdentifyAndMergeUnknowns(m, arguments) = MergeTrails(m, base, arguments)
  BY <1>1, Zenon DEF PartiallyIdentifyAndMergeUnknowns, MergeTrails
<1>3. PICK acc : /\ acc[0] = base
                 /\ \A i \in 1 .. n : acc[i] = MaybeAddTrail(acc[i - 1], m, arguments[i].trail)
                 /\ MergeTrails(m, base, arguments) = acc[n]
  BY TrailFold
<1> HIDE DEF values
<1> DEFINE S == {i \in Nat : i <= n => acc[i] = base}
<1>4. 0 \in S
  BY <1>3
<1>5. ASSUME NEW i \in Nat, i \in S
      PROVE  i + 1 \in S
  <2> SUFFICES ASSUME i + 1 <= n PROVE acc[i + 1] = base
    OBVIOUS
  <2>1. i + 1 \in 1 .. n /\ (i + 1) - 1 = i /\ i <= n
    OBVIOUS
  <2>2. acc[i] = base
    BY <1>5, <2>1
  <2> QED BY <1>3, <2>1, <2>2 DEF MaybeAddTrail, AsksNothing
<1> HIDE DEF S
<1>6. n \in S
  BY <1>4, <1>5, Induction
<1> QED BY <1>2, <1>3, <1>6 DEF S

LEMMA IdentifyOK ==
  ASSUME NEW m, NEW n \in Nat, NEW arguments, DOMAIN arguments = 1 .. n,
         \A i \in 1 .. n : NamesAttributes(arguments[i].value),
         \A i \in 1 .. n : LET node == GetNotFullUnknownMatch(m, arguments[i].trail)
                           IN  node # NoNode => IsAttribute(node)
  PROVE  LET acc == PartiallyIdentifyAndMergeUnknowns(m, arguments) IN
         /\ AccumulatorOK(acc)
         /\ acc.empty <=> \A i \in 1 .. n :
                            AsksNothing(m, arguments[i])
<1> DEFINE values  == [i \in DOMAIN arguments |-> arguments[i].value]
           node(i) == GetNotFullUnknownMatch(m, arguments[i].trail)
<1>1. PICK base : base = MergeValues(values)
  OBVIOUS
<1>2. /\ AccumulatorOK(base)
      /\ base.empty <=> \A i \in 1 .. n : arguments[i].value.kind # "unknown"
  <2>1. DOMAIN values = 1 .. n /\ \A i \in 1 .. n : values[i] = arguments[i].value
    OBVIOUS
  <2> HIDE DEF values
  <2> QED BY <1>1, <2>1, MergeOK
<1>3. PartiallyIdentifyAndMergeUnknowns(m, arguments) = MergeTrails(m, base, arguments)
  BY <1>1, Zenon DEF PartiallyIdentifyAndMergeUnknowns, MergeTrails
<1>4. PICK acc : /\ acc[0] = base
                 /\ \A i \in 1 .. n : acc[i] = MaybeAddTrail(acc[i - 1], m, arguments[i].trail)
                 /\ MergeTrails(m, base, arguments) = acc[n]
  BY TrailFold
<1> HIDE DEF values
<1> DEFINE OK(i) == /\ AccumulatorOK(acc[i])
                    /\ acc[i].empty <=> base.empty /\ \A j \in 1 .. i : node(j) = NoNode
           S     == {i \in Nat : i <= n => OK(i)}
<1>5. 0 \in S
  BY <1>2, <1>4
<1>6. ASSUME NEW i \in Nat, i \in S
      PROVE  i + 1 \in S
  <2> SUFFICES ASSUME i + 1 <= n PROVE OK(i + 1)
    OBVIOUS
  <2>1. i + 1 \in 1 .. n /\ (i + 1) - 1 = i /\ i <= n
    OBVIOUS
  <2>2. OK(i) /\ acc[i + 1] = MaybeAddTrail(acc[i], m, arguments[i + 1].trail)
    BY <1>4, <1>6, <2>1
  <2>3. 1 .. i + 1 = (1 .. i) \cup {i + 1}
    OBVIOUS
  <2>4. CASE node(i + 1) # NoNode
    <3>1. acc[i + 1] = AddNode(acc[i], node(i + 1)) /\ IsAttribute(node(i + 1))
      BY <2>1, <2>2, <2>4 DEF MaybeAddTrail
    <3>2. AccumulatorOK(acc[i + 1]) /\ ~acc[i + 1].empty
      BY <2>2, <3>1, AddNodeOK
    <3> QED BY <2>3, <2>4, <3>2
  <2>5. CASE node(i + 1) = NoNode
    <3>1. acc[i + 1] = acc[i]
      BY <2>2, <2>5 DEF MaybeAddTrail
    <3> QED BY <2>2, <2>3, <2>5, <3>1
  <2> QED BY <2>4, <2>5
<1> HIDE DEF S
<1>7. n \in S
  BY <1>5, <1>6, Induction
<1>8. OK(n)
  BY <1>7 DEF S
<1> QED BY <1>2, <1>3, <1>4, <1>8 DEF AsksNothing

-----------------------------------------------------------------------------
(* Providing the attributes of a result keeps a tree in shape.             *)

\* The fold of UpsertAll over the subsets of the attributes.
Chosen(s) == CHOOSE p \in s : TRUE

UpsertIter(tree, sets, it) ==
  it = [s \in sets |->
          IF s = {} THEN tree ELSE UpsertAttribute(it[s \ {Chosen(s)}], Chosen(s))]

LEMMA UpsertIterExists ==
  ASSUME NEW tree, NEW attributes, IsFiniteSet(attributes)
  PROVE  \E it : UpsertIter(tree, SUBSET attributes, it)
<1> DEFINE Small(k) == {s \in SUBSET attributes : Cardinality(s) <= k}
           S == {k \in Nat : \E it : UpsertIter(tree, Small(k), it)}
<1>1. \A s \in SUBSET attributes : IsFiniteSet(s) /\ Cardinality(s) \in Nat
  BY FS_Subset, FS_CardinalityType
<1>2. 0 \in S
  <2>1. \A s \in Small(0) : s = {}
    BY <1>1, FS_EmptySet
  <2>2. UpsertIter(tree, Small(0), [s \in Small(0) |-> tree])
    BY <2>1 DEF UpsertIter
  <2> QED BY <2>2
<1>3. ASSUME NEW k \in Nat, k \in S
      PROVE  k + 1 \in S
  <2>1. PICK it : UpsertIter(tree, Small(k), it)
    BY <1>3
  <2>2. PICK new : new = [s \in Small(k + 1) |->
                 IF s = {} THEN tree ELSE UpsertAttribute(it[s \ {Chosen(s)}], Chosen(s))]
    OBVIOUS
  <2>3. Small(k) \subseteq Small(k + 1)
    BY <1>1
  <2>4. \A s \in Small(k) : new[s] = it[s]
    BY <2>1, <2>2, <2>3, Zenon DEF UpsertIter
  <2>5. ASSUME NEW s \in Small(k + 1), s # {}
        PROVE  s \ {Chosen(s)} \in Small(k)
    <3>1. PICK p \in s : p = Chosen(s)
      BY <2>5 DEF Chosen
    <3>2. Cardinality(s \ {p}) = Cardinality(s) - 1
      BY <1>1, FS_RemoveElement
    <3>3. s \ {p} \in SUBSET attributes /\ Cardinality(s \ {p}) <= k
      BY <1>1, <3>2
    <3> QED BY <3>1, <3>3
  <2> HIDE DEF Small
  <2>6. \A s \in Small(k + 1) :
          s = {} \/ new[s \ {Chosen(s)}] = it[s \ {Chosen(s)}]
    BY <2>4, <2>5
  <2>7. UpsertIter(tree, Small(k + 1), new)
    BY <2>2, <2>6 DEF UpsertIter
  <2> QED BY <2>7
<1> HIDE DEF S
<1>4. PICK n \in Nat : n = Cardinality(attributes)
  BY FS_CardinalityType
<1>5. n \in S
  BY <1>2, <1>3, <1>4, Induction
<1>6. \A s \in SUBSET attributes : Cardinality(s) <= n
  BY <1>4, FS_Subset
<1>7. Small(n) = SUBSET attributes
  BY <1>6
<1> QED BY <1>5, <1>7 DEF S, UpsertIter

\* Providing attributes keeps a tree in shape.
LEMMA UpsertAllKeepsTree ==
  ASSUME NEW tree, TreeInv(tree), NEW attributes \in AttributeSets
  PROVE  TreeInv(UpsertAll(tree, attributes))
<1> DEFINE iter[s \in SUBSET attributes] ==
             IF s = {} THEN tree
             ELSE LET p == CHOOSE p \in s : TRUE IN UpsertAttribute(iter[s \ {p}], p)
<1>1. UpsertAll(tree, attributes) = iter[attributes]
  BY DEF UpsertAll, FoldSet, MapThenFoldSet
<1>2. IsFiniteSet(attributes) /\ \A p \in attributes : IsPath(p)
  BY AttributeFacts DEF AttributeSets
<1>3. \E it : UpsertIter(tree, SUBSET attributes, it)
  BY <1>2, UpsertIterExists
<1>4. UpsertIter(tree, SUBSET attributes, iter)
  BY <1>3 DEF UpsertIter, Chosen
<1> HIDE DEF iter
<1>5. \A s \in SUBSET attributes : IsFiniteSet(s) /\ Cardinality(s) \in Nat
  BY <1>2, FS_Subset, FS_CardinalityType
<1> DEFINE S == {k \in Nat : \A s \in SUBSET attributes : Cardinality(s) = k => TreeInv(iter[s])}
<1>6. 0 \in S
  <2> SUFFICES ASSUME NEW s \in SUBSET attributes, Cardinality(s) = 0
               PROVE  TreeInv(iter[s])
    OBVIOUS
  <2>1. s = {}
    BY <1>5, FS_EmptySet
  <2> QED BY <1>4, <2>1 DEF UpsertIter
<1>7. ASSUME NEW k \in Nat, k \in S
      PROVE  k + 1 \in S
  <2> SUFFICES ASSUME NEW s \in SUBSET attributes, Cardinality(s) = k + 1
               PROVE  TreeInv(iter[s])
    OBVIOUS
  <2>1. s # {}
    BY <1>5, FS_EmptySet
  <2>2. PICK p \in s : p = Chosen(s)
    BY <2>1 DEF Chosen
  <2>3. s \ {p} \in SUBSET attributes /\ Cardinality(s \ {p}) = k
    BY <1>5, FS_RemoveElement
  <2>4. TreeInv(iter[s \ {p}])
    BY <1>7, <2>3
  <2>5. iter[s] = UpsertAttribute(iter[s \ {p}], p)
    BY <1>4, <2>1, <2>2 DEF UpsertIter
  <2> QED BY <1>2, <2>4, <2>5, Upserted
<1> HIDE DEF S
<1>8. Cardinality(attributes) \in Nat
  BY <1>5
<1>9. Cardinality(attributes) \in S
  BY <1>6, <1>7, <1>8, Induction
<1> QED BY <1>1, <1>9 DEF S

-----------------------------------------------------------------------------
(* Stepping the trees with their unknown patterns, and without.            *)

TreesReady == DOMAIN matchers = Sorts /\ TreesOK

\* Nothing at or below the value is unknown.
Plain(trail) == trail.known = NoNode /\ trail.unknown = NoNode

\* What the trail of a value on the stack is, of which the path is not decided.
TrailFits(trail, path) == IsAttribute(path) /\ TrailOK(trail, path) /\ ~IsDecidedAt(path)

TrailSound(trail) == Plain(trail) \/ \E path : TrailFits(trail, path)

\* A step along a sound trail.
StepSound(step) ==
  \/ step.value = Undecided /\ TrailSound(step.trail)
  \/ step = Decided(MissingAttribute)
  \/ \E path : IsAttribute(path) /\ step = Decided(UnknownOf({path}))

\* The step of an evaluation for which all is known.
FullStep(missing) == WithMissing(matchers, missing, NoTrail)

LEMMA KindsApart ==
  /\ Undecided.kind = "undecided"
  /\ MissingAttribute.kind = "error"
  /\ \A s : UnknownOf(s).kind = "unknown" /\ UnknownOf(s).content = s
  /\ \A c : ErrorOf(c).kind = "error"
  /\ \A v : Decided(v).value = v /\ Decided(v).trail = NoTrail
  /\ Plain(NoTrail) /\ NoTrail.missing = NoNode
BY DEF Undecided, MissingAttribute, UnknownOf, ErrorOf, Decided, NoTrail, Plain

LEMMA AllKnownTrees ==
  ASSUME DOMAIN matchers = Sorts
  PROVE  /\ AllKnown(matchers).missing = matchers.missing
         /\ AllKnown(matchers).unknown = {}
         /\ AllKnown(matchers).known = {}
BY DEF AllKnown, Sorts

LEMMA NowhereIsNothing ==
  /\ \A tree : ~IsFull(tree, NoNode) /\ ~IsPartial(tree, NoNode) /\ ~IsPartialWildcard(tree, NoNode)
  /\ \A tree, name : MatchQualifier(tree, NoNode, name) = NoNode
  /\ \A name : MatchVariable({}, name) = NoNode
  /\ \A m : KeptMatches(m, NoNode, NoNode) = NoTrail
BY DEF IsFull, IsPartial, IsPartialWildcard, MatchQualifier, MatchVariable, KeptMatches, NoTrail

LEMMA WithMissingShape ==
  ASSUME NEW m, NEW missing, NEW known, NEW unknown, NEW trail,
         trail = [missing |-> NoNode, known |-> known, unknown |-> unknown]
  PROVE  WithMissing(m, missing, trail) =
           IF IsFull(m.missing, missing) THEN Decided(MissingAttribute)
           ELSE [value |-> Undecided,
                 trail |-> [missing |-> missing, known |-> known, unknown |-> unknown]]
BY DEF WithMissing

LEMMA FullStepShape ==
  ASSUME NEW missing
  PROVE  FullStep(missing) =
           IF IsFull(matchers.missing, missing) THEN Decided(MissingAttribute)
           ELSE [value |-> Undecided,
                 trail |-> [missing |-> missing, known |-> NoNode, unknown |-> NoNode]]
BY WithMissingShape DEF FullStep, NoTrail

LEMMA FullStepIsPlain ==
  ASSUME NEW missing
  PROVE  /\ Plain(FullStep(missing).trail)
         /\ FullStep(missing).value \in {Undecided, MissingAttribute}
BY FullStepShape, KindsApart DEF Plain

\* The next step of an evaluation along a trail below which all is known.
LEMMA PlainMatch ==
  ASSUME NEW m, NEW trail, Plain(trail), NEW name
  PROVE  Match(m, trail, name) = WithMissing(m, MatchQualifier(m.missing, trail.missing, name), NoTrail)
<1>1. ~IsFull(m.known, trail.known) /\ ~IsPartial(m.known, trail.known)
  BY NowhereIsNothing DEF Plain
<1>2. Match(m, trail, name) = MatchPartial(m, trail, name)
  BY <1>1, Zenon DEF Match
<1>3. /\ MatchQualifier(m.known, trail.known, name) = NoNode
      /\ MatchQualifier(m.unknown, trail.unknown, name) = NoNode
      /\ ~IsFull(m.unknown, NoNode)
      /\ KeptMatches(m, NoNode, NoNode) = NoTrail
  BY NowhereIsNothing DEF Plain
<1> QED BY <1>2, <1>3, Zenon DEF MatchPartial

LEMMA WithMissingOfAllKnown ==
  ASSUME DOMAIN matchers = Sorts, NEW missing
  PROVE  WithMissing(AllKnown(matchers), missing, NoTrail) = FullStep(missing)
BY AllKnownTrees, Zenon DEF WithMissing, FullStep

LEMMA FullMatch ==
  ASSUME DOMAIN matchers = Sorts, NEW trail, Plain(trail), NEW name
  PROVE  Match(AllKnown(matchers), trail, name)
           = FullStep(MatchQualifier(matchers.missing, trail.missing, name))
BY PlainMatch, AllKnownTrees, WithMissingOfAllKnown, Zenon

LEMMA FullLeadMatch ==
  ASSUME DOMAIN matchers = Sorts, NEW name
  PROVE  AttributeLeadMatch(AllKnown(matchers), name)
           = FullStep(MatchVariable(matchers.missing, name))
<1> PICK m : m = AllKnown(matchers)
  OBVIOUS
<1>1. /\ MatchVariable(m.known, name) = NoNode
      /\ MatchVariable(m.unknown, name) = NoNode
      /\ ~IsFull(m.unknown, NoNode)
      /\ KeptMatches(m, NoNode, NoNode) = NoTrail
  BY NowhereIsNothing, AllKnownTrees, Zenon
<1>2. AttributeLeadMatch(m, name) = WithMissing(m, MatchVariable(m.missing, name), NoTrail)
  BY <1>1, Zenon DEF AttributeLeadMatch
<1> QED BY <1>2, AllKnownTrees, WithMissingOfAllKnown, Zenon
\* A step is unknown, or decided by the missing attributes.
StepShape(step, missing) ==
  \/ \E path : step = Decided(UnknownOf({path}))
  \/ \E known, unknown :
       step = WithMissing(matchers, missing,
                          [missing |-> NoNode, known |-> known, unknown |-> unknown])

LEMMA MatchShape ==
  ASSUME NEW trail, NEW name
  PROVE  StepShape(Match(matchers, trail, name),
                   MatchQualifier(matchers.missing, trail.missing, name))
<1> DEFINE missing == MatchQualifier(matchers.missing, trail.missing, name)
           known   == MatchQualifier(matchers.known, trail.known, name)
           unknown == MatchQualifier(matchers.unknown, trail.unknown, name)
<1>1. CASE IsFull(matchers.known, trail.known)
  <2>1. Match(matchers, trail, name) = WithMissing(matchers, missing, NoTrail)
    BY <1>1 DEF Match
  <2> QED BY <2>1 DEF StepShape, NoTrail
<1>2. CASE /\ ~IsFull(matchers.known, trail.known)
           /\ IsPartial(matchers.known, trail.known) /\ IsFull(matchers.unknown, trail.unknown)
  <2>1. Match(matchers, trail, name) = MatchBelowUnknown(matchers, trail, name)
    BY <1>2 DEF Match
  <2>2. PICK k, u : KeptMatches(matchers, known, trail.unknown)
                      = [missing |-> NoNode, known |-> k, unknown |-> u]
    BY KeptShape
  <2> QED BY <2>1, <2>2, Zenon DEF MatchBelowUnknown, StepShape
<1>3. CASE /\ ~IsFull(matchers.known, trail.known)
           /\ ~(IsPartial(matchers.known, trail.known) /\ IsFull(matchers.unknown, trail.unknown))
  <2>1. Match(matchers, trail, name) = MatchPartial(matchers, trail, name)
    BY <1>3 DEF Match
  <2>2. PICK k, u : KeptMatches(matchers, known, unknown)
                      = [missing |-> NoNode, known |-> k, unknown |-> u]
    BY KeptShape
  <2> QED BY <2>1, <2>2, Zenon DEF MatchPartial, StepShape
<1> QED BY <1>1, <1>2, <1>3

LEMMA LeadMatchShape ==
  ASSUME NEW name
  PROVE  StepShape(AttributeLeadMatch(matchers, name), MatchVariable(matchers.missing, name))
<1> PICK k, u : KeptMatches(matchers, MatchVariable(matchers.known, name),
                            MatchVariable(matchers.unknown, name))
                  = [missing |-> NoNode, known |-> k, unknown |-> u]
  BY KeptShape
<1> QED BY Zenon DEF AttributeLeadMatch, StepShape

\* A step that is not unknown is the step for which all is known.
StepAgrees(step, full) ==
  step.value.kind # "unknown" => full.value = step.value /\ full.trail.missing = step.trail.missing

LEMMA ShapeAgrees ==
  ASSUME NEW step, NEW missing, StepShape(step, missing)
  PROVE  /\ StepAgrees(step, FullStep(missing))
         /\ \/ step.value = Undecided
            \/ step = Decided(MissingAttribute)
            \/ \E path : step = Decided(UnknownOf({path}))
<1>1. CASE \E path : step = Decided(UnknownOf({path}))
  <2>1. PICK path : step = Decided(UnknownOf({path}))
    BY <1>1
  <2>2. step.value = UnknownOf({path}) /\ UnknownOf({path}).kind = "unknown"
    BY <2>1, KindsApart
  <2> QED BY <1>1, <2>2, Zenon DEF StepAgrees
<1>2. CASE \E known, unknown :
             step = WithMissing(matchers, missing,
                                [missing |-> NoNode, known |-> known, unknown |-> unknown])
  <2> PICK known, unknown :
             step = WithMissing(matchers, missing,
                                [missing |-> NoNode, known |-> known, unknown |-> unknown])
    BY <1>2
  <2>1. step = IF IsFull(matchers.missing, missing) THEN Decided(MissingAttribute)
               ELSE [value |-> Undecided,
                     trail |-> [missing |-> missing, known |-> known, unknown |-> unknown]]
    BY WithMissingShape
  <2> QED BY <2>1, FullStepShape, KindsApart DEF StepAgrees
<1> QED BY <1>1, <1>2 DEF StepShape

LEMMA NamesQualify ==
  ASSUME NEW name \in Names
  PROVE  name \in Qualifiers /\ name # Wildcard
BY DEF Names

\* What MatchOK says of a step in the shape of a step.
LEMMA StepIsSound ==
  ASSUME NEW step, NEW missing, StepShape(step, missing), NEW path, IsAttribute(path),
         MatchOK(step, path)
  PROVE  /\ StepSound(step)
         /\ step.value = Undecided => TrailFits(step.trail, path)
<1>1. \/ step.value = Undecided
      \/ step = Decided(MissingAttribute)
      \/ \E p : step = Decided(UnknownOf({p}))
  BY ShapeAgrees
<1>2. step.value = Undecided => TrailFits(step.trail, path)
  BY KindsApart DEF MatchOK, TrailFits
<1>3. ASSUME NEW p, step = Decided(UnknownOf({p}))
      PROVE  p = path
  <2>1. step.value = UnknownOf({p}) /\ step.value.kind = "unknown" /\ step.value.content = {p}
    BY <1>3, KindsApart
  <2>2. step.value # Undecided /\ step.value # MissingAttribute
    BY <2>1, KindsApart
  <2>3. step.value = UnknownOf({path})
    BY <2>2 DEF MatchOK
  <2>4. {p} = {path}
    BY <2>1, <2>3, KindsApart
  <2> QED BY <2>4
<1> QED BY <1>1, <1>2, <1>3 DEF StepSound, TrailSound

LEMMA MatchIsSound ==
  ASSUME TreesReady, NEW trail, TrailSound(trail), NEW name \in Names
  PROVE  /\ StepSound(Match(matchers, trail, name))
         /\ \A path : (TrailFits(trail, path) /\ Match(matchers, trail, name).value = Undecided) =>
              TrailFits(Match(matchers, trail, name).trail, Append(path, name))
<1> PICK step : step = Match(matchers, trail, name)
  OBVIOUS
<1>1. name \in Qualifiers /\ name # Wildcard
  BY NamesQualify
<1>2. ASSUME NEW path, TrailFits(trail, path)
      PROVE  /\ StepSound(step)
             /\ step.value = Undecided => TrailFits(step.trail, Append(path, name))
  <2>1. IsAttribute(path) /\ TrailOK(trail, path) /\ ~IsUnknownAt(path)
    BY <1>2 DEF TrailFits, IsDecidedAt
  <2>2. MatchOK(step, Append(path, name))
    BY <1>1, <2>1, NextMatchOK DEF TreesReady
  <2>3. IsAttribute(Append(path, name))
    BY <1>1, <2>1, LongerFacts
  <2>4. PICK missing : StepShape(step, missing)
    BY MatchShape
  <2> QED BY <2>2, <2>3, <2>4, StepIsSound
<1>3. CASE Plain(trail)
  <2>1. PICK missing : step = FullStep(missing)
    BY <1>3, PlainMatch, Zenon DEF FullStep
  <2>2. step = Decided(MissingAttribute) \/ (step.value = Undecided /\ Plain(step.trail))
    BY <2>1, FullStepShape DEF Plain
  <2>3. StepSound(step)
    BY <2>2 DEF StepSound, TrailSound
  <2> QED BY <1>2, <2>3
<1> QED BY <1>2, <1>3 DEF TrailSound

LEMMA VariableIsAttribute ==
  ASSUME NEW name \in Names
  PROVE  IsAttribute(<<name>>) /\ Len(<<name>>) = 1 /\ <<name>>[1] = name
<1>1. name \in Qualifiers /\ name # Wildcard
  BY NamesQualify
<1>2. <<name>> \in Seq(Qualifiers) /\ Len(<<name>>) = 1 /\ <<name>>[1] = name /\ <<name>> # <<>>
  BY <1>1
<1> QED BY <1>1, <1>2 DEF IsAttribute, IsPath

LEMMA LeadMatchIsSound ==
  ASSUME TreesReady, NEW name \in Names
  PROVE  /\ StepSound(AttributeLeadMatch(matchers, name))
         /\ AttributeLeadMatch(matchers, name).value = Undecided =>
              TrailFits(AttributeLeadMatch(matchers, name).trail, <<name>>)
<1> PICK step : step = AttributeLeadMatch(matchers, name)
  OBVIOUS
<1>1. MatchOK(step, <<name>>)
  BY VariableIsAttribute, LeadMatchOK DEF TreesReady
<1>2. PICK missing : StepShape(step, missing)
  BY LeadMatchShape
<1> QED BY <1>1, <1>2, VariableIsAttribute, StepIsSound

\* The steps of the two evaluations along trails that agree.
LEMMA MatchAgrees ==
  ASSUME DOMAIN matchers = Sorts, NEW trail, NEW full, Plain(full), full.missing = trail.missing,
         NEW name
  PROVE  StepAgrees(Match(matchers, trail, name), Match(AllKnown(matchers), full, name))
BY MatchShape, ShapeAgrees, FullMatch

LEMMA LeadMatchAgrees ==
  ASSUME DOMAIN matchers = Sorts, NEW name
  PROVE  StepAgrees(AttributeLeadMatch(matchers, name), AttributeLeadMatch(AllKnown(matchers), name))
BY LeadMatchShape, ShapeAgrees, FullLeadMatch

\* What is asked for of a value with a sound trail.
LEMMA AskedOfTrail ==
  ASSUME TreesReady, NEW trail, TrailSound(trail)
  PROVE  /\ GetNotFullUnknownMatch(matchers, trail) = PartialUnknownMatch(matchers, trail)
         /\ PartialUnknownMatch(matchers, trail) # NoNode =>
              IsAttribute(PartialUnknownMatch(matchers, trail))
<1>1. CASE Plain(trail)
  BY <1>1, NowhereIsNothing DEF Plain, GetNotFullUnknownMatch, PartialUnknownMatch
<1>2. ASSUME NEW path, TrailFits(trail, path)
      PROVE  /\ GetNotFullUnknownMatch(matchers, trail) = PartialUnknownMatch(matchers, trail)
             /\ PartialUnknownMatch(matchers, trail) \in {NoNode, path}
             /\ IsAttribute(path)
  <2>1. IsAttribute(path) /\ TrailOK(trail, path)
    BY <1>2 DEF TrailFits
  <2>2. PartialUnknownMatch(matchers, trail) \in {NoNode, path}
    BY <2>1, PartialMatchOK DEF TreesReady
  <2>3. Plain(trail) \/ trail.unknown # NoNode
    <3>1. Settled(trail, path) => Plain(trail)
      BY DEF Settled, Plain
    <3>2. PartlyUnknown(trail, path) => trail.unknown # NoNode
      BY <2>1, AttributeFacts DEF PartlyUnknown
    <3>3. UnknownButBelow(trail, path) => trail.unknown # NoNode
      BY NowhereIsNothing DEF UnknownButBelow
    <3> QED BY <2>1, <3>1, <3>2, <3>3 DEF TrailOK, MatchesOK
  <2>4. trail.unknown # NoNode =>
          GetNotFullUnknownMatch(matchers, trail) = PartialUnknownMatch(matchers, trail)
    BY DEF GetNotFullUnknownMatch, PartialUnknownMatch
  <2> QED BY <1>1, <2>1, <2>2, <2>3, <2>4
<1> QED BY <1>1, <1>2 DEF TrailSound

LEMMA NothingAskedOfPlain ==
  ASSUME NEW m, NEW trail, Plain(trail)
  PROVE  GetNotFullUnknownMatch(m, trail) = NoNode /\ PartialUnknownMatch(m, trail) = NoNode
BY NowhereIsNothing DEF Plain, GetNotFullUnknownMatch, PartialUnknownMatch

-----------------------------------------------------------------------------
(* The specification.                                                       *)

\* While the client sets its activation up, all three trees are in shape.
SetupTrees == phase = "setup" => DOMAIN matchers = Sorts /\ TreesOK

LEMMA SetUpKeepsTrees ==
  ASSUME SetupTrees, NEW sort \in Sorts, NEW tree, SetUp(sort, tree),
         TreeInv(matchers[sort]) => TreeInv(tree)
  PROVE  SetupTrees'
<1>1. DOMAIN matchers = Sorts /\ TreesOK /\ matchers' = [matchers EXCEPT ![sort] = tree]
  BY DEF SetupTrees, SetUp
<1>2. \A s \in Sorts : TreeInv(matchers[s])
  BY <1>1 DEF TreesOK, Sorts
<1>3. \A s \in Sorts : TreeInv(matchers'[s])
  BY <1>1, <1>2
<1>4. DOMAIN matchers' = Sorts
  BY <1>1
<1>5. TreesOK'
  BY <1>3 DEF TreesOK, Sorts
<1> QED BY <1>4, <1>5 DEF SetupTrees

LEMMA OperationsKeepTrees ==
  ASSUME SetupTrees, [Next]_vars
  PROVE  SetupTrees'
<1>1. ASSUME NEW sort \in Sorts, NEW p \in Patterns, AddPattern(sort, p)
      PROVE  SetupTrees'
  <2>1. SetUp(sort, UpsertAttribute(matchers[sort], p)) /\ IsPath(p)
    BY <1>1, PatternIsPath DEF AddPattern
  <2>2. TreeInv(matchers[sort]) => TreeInv(UpsertAttribute(matchers[sort], p))
    BY <2>1, Upserted
  <2> QED BY <2>1, <2>2, SetUpKeepsTrees
<1>2. ASSUME NEW p \in Patterns, InsertPattern(p)
      PROVE  SetupTrees'
  <2>1. SetUp("unknown", InsertAttribute(matchers.unknown, p).tree) /\ IsPath(p) /\ "unknown" \in Sorts
    BY <1>2, PatternIsPath DEF InsertPattern, Sorts
  <2>2. TreeInv(matchers.unknown) => TreeInv(InsertAttribute(matchers.unknown, p).tree)
    BY <2>1, Inserted
  <2> QED BY <2>1, <2>2, SetUpKeepsTrees
<1>3. ASSUME NEW p \in Patterns, RemovePattern(p)
      PROVE  SetupTrees'
  <2>1. SetUp("unknown", RemoveAttribute(matchers.unknown, p).tree) /\ "unknown" \in Sorts
    BY <1>3 DEF RemovePattern, Sorts
  <2>2. TreeInv(matchers.unknown) => TreeInv(RemoveAttribute(matchers.unknown, p).tree)
    BY Removed
  <2> QED BY <2>1, <2>2, SetUpKeepsTrees
<1>4. CASE ClearPatterns
  <2>1. SetUp("unknown", {}) /\ "unknown" \in Sorts /\ TreeInv({})
    BY <1>4, EmptyTree DEF ClearPatterns, Sorts
  <2> QED BY <2>1, SetUpKeepsTrees
<1>5. CASE Start \/ Step \/ Resolve
  <2>1. phase' # "setup"
    BY <1>5 DEF Start, Step, Resolve, Retry
  <2> QED BY <2>1 DEF SetupTrees
<1>6. CASE UNCHANGED vars
  BY <1>6 DEF vars, SetupTrees, TreesOK
<1> QED BY <1>1, <1>2, <1>3, <1>4, <1>5, <1>6 DEF Next

\* Stepping the three trees along an attribute gives what the patterns say of
\* it, whatever the client declared, in whatever order (AttributeLeadMatch,
\* AttributeTrail::Match, PartialUnknownMatch).
THEOREM TrailsMeanPatterns == Spec => []TrailMeansPatterns
<1>1. Init => SetupTrees
  <2> SUFFICES ASSUME Init PROVE SetupTrees
    OBVIOUS
  <2>1. DOMAIN matchers = Sorts /\ \A s \in Sorts : matchers[s] = {}
    BY DEF Init, NoPatterns
  <2> QED BY <2>1, EmptyTree DEF SetupTrees, TreesOK, Sorts
<1>2. SetupTrees /\ [Next]_vars => SetupTrees'
  BY OperationsKeepTrees
<1>3. SetupTrees => TrailMeansPatterns
  BY TreesSuffice DEF SetupTrees, TrailMeansPatterns
<1> QED BY <1>1, <1>2, <1>3, PTL DEF Spec
=============================================================================
