---------------------------- MODULE MatcherProofs ---------------------------
(***************************************************************************)
(* The tree of an attribute matcher implements a set of patterns that do   *)
(* not overlap, for every set of patterns and every sequence of operations. *)
(* The tree is prefix-closed, a wildcard in it is an only child and ends a  *)
(* pattern, and every node leads to the end of a pattern (TreeInv); from    *)
(* that, what a refused, a repeated and a new path mean for the patterns.   *)
(***************************************************************************)
EXTENDS PartialEvaluation, SequenceTheorems, TLAPS

-----------------------------------------------------------------------------
(* Prefixes.                                                                *)

\* One sequence is a prefix of another if it agrees with it as far as it goes.
LEMMA PrefixByElements ==
  ASSUME NEW s \in Seq(Qualifiers), NEW t \in Seq(Qualifiers)
  PROVE  IsPrefix(s, t) <=> Len(s) <= Len(t) /\ \A i \in 1 .. Len(s) : s[i] = t[i]
<1>1. ASSUME Len(s) <= Len(t)
      PROVE  /\ SubSeq(s, 1, Len(s)) = s
             /\ SubSeq(t, 1, Len(s)) \in Seq(Qualifiers)
             /\ Len(SubSeq(t, 1, Len(s))) = Len(s)
             /\ \A i \in 1 .. Len(s) : SubSeq(t, 1, Len(s))[i] = t[i]
  BY <1>1, SMTT(30)
<1>2. ASSUME Len(s) <= Len(t), \A i \in 1 .. Len(s) : s[i] = t[i]
      PROVE  s = SubSeq(t, 1, Len(s))
  <2>1. \A i \in 1 .. Len(s) : s[i] = SubSeq(t, 1, Len(s))[i]
    BY <1>1, <1>2
  <2> QED BY <1>1, <1>2, <2>1, SeqEqual, Zenon
<1> QED BY <1>1, <1>2 DEF IsPrefix

\* The first names of a sequence are a prefix of it.
LEMMA FirstNames ==
  ASSUME NEW s \in Seq(Qualifiers), NEW i \in 0 .. Len(s)
  PROVE  /\ SubSeq(s, 1, i) \in Seq(Qualifiers)
         /\ Len(SubSeq(s, 1, i)) = i
         /\ \A j \in 1 .. i : SubSeq(s, 1, i)[j] = s[j]
         /\ IsPrefix(SubSeq(s, 1, i), s)
<1>1. /\ SubSeq(s, 1, i) \in Seq(Qualifiers)
      /\ Len(SubSeq(s, 1, i)) = i
      /\ \A j \in 1 .. i : SubSeq(s, 1, i)[j] = s[j]
  BY SMTT(30)
<1>2. i <= Len(s) /\ Len(s) \in Nat
  BY LenProperties
<1> QED BY <1>1, <1>2, PrefixByElements

\* A prefix is determined by its length.
LEMMA PrefixByLength ==
  ASSUME NEW s \in Seq(Qualifiers), NEW t \in Seq(Qualifiers), IsPrefix(s, t)
  PROVE  /\ Len(s) \in 0 .. Len(t)
         /\ s = SubSeq(t, 1, Len(s))
         /\ Len(s) = Len(t) => s = t
<1>1. Len(s) \in Nat /\ Len(t) \in Nat
  BY LenProperties
<1>2. Len(s) <= Len(t) /\ \A i \in 1 .. Len(s) : s[i] = t[i]
  BY PrefixByElements
<1>3. Len(s) = Len(t) => s = t
  BY <1>2, SeqEqual
<1>4. SubSeq(t, 1, Len(s)) = s
  <2> DEFINE r == SubSeq(t, 1, Len(s))
  <2>1. Len(s) \in 0 .. Len(t)
    BY <1>1, <1>2
  <2>2. r \in Seq(Qualifiers) /\ Len(r) = Len(s) /\ \A j \in 1 .. Len(s) : r[j] = t[j]
    BY <2>1, FirstNames
  <2>3. \A j \in 1 .. Len(r) : r[j] = s[j]
    BY <1>2, <2>2
  <2> HIDE DEF r
  <2>4. r = s
    BY <2>2, <2>3, SeqEqual
  <2> QED BY <2>4 DEF r
<1> QED BY <1>1, <1>2, <1>3, <1>4

LEMMA PrefixTransitive ==
  ASSUME NEW s \in Seq(Qualifiers), NEW t \in Seq(Qualifiers), NEW u \in Seq(Qualifiers),
         IsPrefix(s, t), IsPrefix(t, u)
  PROVE  IsPrefix(s, u)
BY PrefixByElements, LenProperties

LEMMA PrefixReflexive ==
  ASSUME NEW s \in Seq(Qualifiers)
  PROVE  IsPrefix(s, s)
BY PrefixByElements, LenProperties

\* Of two prefixes of a sequence the shorter is a prefix of the longer.
LEMMA PrefixesCompare ==
  ASSUME NEW s \in Seq(Qualifiers), NEW t \in Seq(Qualifiers), NEW u \in Seq(Qualifiers),
         IsPrefix(s, u), IsPrefix(t, u), Len(s) <= Len(t)
  PROVE  IsPrefix(s, t)
BY PrefixByElements, LenProperties

-----------------------------------------------------------------------------
(* The tree of a matcher.                                                   *)

\* What ValidateAttribute accepts of the patterns of PatternsAssumption.
IsPath(p) ==
  /\ p \in Seq(Qualifiers)
  /\ p # <<>>
  /\ p[1] # Wildcard
  /\ \A i \in 1 .. Len(p) - 1 : p[i] # Wildcard

Parent(p) == SubSeq(p, 1, Len(p) - 1)

PrefixClosed(tree) == \A n \in tree : \A i \in 1 .. Len(n) : SubSeq(n, 1, i) \in tree

WildcardIsAlone(tree) ==
  \A s, t \in tree :
    s[Len(s)] = Wildcard /\ Len(t) = Len(s) /\ IsPrefix(Parent(s), t) => t = s

LeadsToAnEnd(tree) == \A n \in tree : \E l \in GetAttributes(tree) : IsPrefix(n, l)

TreeInv(tree) ==
  /\ \A n \in tree : IsPath(n)
  /\ PrefixClosed(tree)
  /\ WildcardIsAlone(tree)
  /\ LeadsToAnEnd(tree)

LEMMA PathLength ==
  ASSUME NEW p, IsPath(p)
  PROVE  /\ Len(p) \in Nat
         /\ Len(p) >= 1
         /\ p[Len(p)] = Wildcard => Len(p) >= 2
BY EmptySeq, LenProperties DEF IsPath

\* What is on the way to a node is in the tree.
LEMMA WayIsInTree ==
  ASSUME NEW tree, PrefixClosed(tree), NEW n \in tree, n \in Seq(Qualifiers),
         NEW m \in Seq(Qualifiers), m # <<>>, IsPrefix(m, n)
  PROVE  m \in tree
<1>1. Len(m) \in 1 .. Len(n) /\ m = SubSeq(n, 1, Len(m))
  BY PrefixByLength, EmptySeq, LenProperties
<1> QED BY <1>1 DEF PrefixClosed

\* The children of a node are the nodes it is the parent of.
LEMMA ChildMeans ==
  ASSUME NEW tree, \A n \in tree : n \in Seq(Qualifiers), NEW n \in Seq(Qualifiers), NEW c
  PROVE  c \in Children(tree, n) <=> c \in tree /\ Len(c) = Len(n) + 1 /\ IsPrefix(n, c)
BY DEF Children

\* A node ends a pattern if no other node is below it.
LEMMA EndMeans ==
  ASSUME NEW tree, \A n \in tree : IsPath(n), PrefixClosed(tree), NEW n \in tree
  PROVE  /\ Children(tree, n) = {} <=> \A m \in tree : IsPrefix(n, m) => m = n
         /\ n \in GetAttributes(tree) <=> \A m \in tree : IsPrefix(n, m) => m = n
<1>1. n \in Seq(Qualifiers) /\ n # <<>> /\ Len(n) \in Nat
  BY PathLength DEF IsPath
<1>2. ASSUME NEW c \in Children(tree, n)
      PROVE  c \in tree /\ IsPrefix(n, c) /\ c # n
  BY <1>1, <1>2 DEF Children
<1>3. ASSUME NEW m \in tree, IsPrefix(n, m), m # n
      PROVE  SubSeq(m, 1, Len(n) + 1) \in Children(tree, n)
  <2> DEFINE c == SubSeq(m, 1, Len(n) + 1)
  <2>1. m \in Seq(Qualifiers) /\ Len(m) \in Nat
    BY PathLength DEF IsPath
  <2>2. Len(n) + 1 \in 1 .. Len(m)
    BY <1>1, <1>3, <2>1, PrefixByLength
  <2>3. c \in Seq(Qualifiers) /\ Len(c) = Len(n) + 1 /\ IsPrefix(c, m)
    <3>1. Len(n) + 1 \in 0 .. Len(m)
      BY <1>1, <2>2
    <3> QED BY <2>1, <3>1, FirstNames
  <2>4. c \in tree
    BY <2>2 DEF PrefixClosed
  <2>5. IsPrefix(n, c)
    <3>1. Len(n) <= Len(c)
      BY <1>1, <2>3
    <3> HIDE DEF c
    <3> QED BY <1>1, <1>3, <2>1, <2>3, <3>1, PrefixesCompare
  <2> QED BY <2>3, <2>4, <2>5 DEF Children
<1> QED BY <1>1, <1>2, <1>3 DEF GetAttributes, IsFull, NoNode

\* A pattern covers another if it is a prefix, but for a wildcard at its end.
LEMMA CoversMeans ==
  ASSUME NEW p, IsPath(p), NEW q, IsPath(q)
  PROVE  Covers(p, q) <=> \/ IsPrefix(p, q)
                          \/ /\ p[Len(p)] = Wildcard
                             /\ Len(p) <= Len(q)
                             /\ IsPrefix(Parent(p), q)
<1>1. /\ p \in Seq(Qualifiers) /\ q \in Seq(Qualifiers)
      /\ Len(p) \in Nat /\ Len(q) \in Nat /\ Len(p) >= 1
      /\ \A i \in 1 .. Len(p) - 1 : p[i] # Wildcard
  BY PathLength DEF IsPath
<1>2. Covers(p, q) <=> Len(p) <= Len(q) /\ \A i \in 1 .. Len(p) : p[i] = Wildcard \/ p[i] = q[i]
  BY DEF Covers, UnknownPatterns!Covers
<1>3. /\ Parent(p) \in Seq(Qualifiers)
      /\ Len(Parent(p)) = Len(p) - 1
      /\ \A i \in 1 .. Len(p) - 1 : Parent(p)[i] = p[i]
  <2>1. Len(p) - 1 \in 0 .. Len(p)
    BY <1>1
  <2> QED BY <1>1, <2>1, FirstNames DEF Parent
<1>4. IsPrefix(Parent(p), q) <=> Len(p) - 1 <= Len(q) /\ \A i \in 1 .. Len(p) - 1 : p[i] = q[i]
  BY <1>1, <1>3, PrefixByElements
<1>5. IsPrefix(p, q) <=> Len(p) <= Len(q) /\ \A i \in 1 .. Len(p) : p[i] = q[i]
  BY <1>1, PrefixByElements
<1>6. ASSUME Len(p) <= Len(q)
      PROVE  Covers(p, q) <=> /\ \A i \in 1 .. Len(p) - 1 : p[i] = q[i]
                              /\ p[Len(p)] = Wildcard \/ p[Len(p)] = q[Len(p)]
  BY <1>1, <1>2, <1>6
<1>7. ASSUME Len(p) <= Len(q)
      PROVE  IsPrefix(p, q) <=> /\ \A i \in 1 .. Len(p) - 1 : p[i] = q[i]
                                /\ p[Len(p)] = q[Len(p)]
  BY <1>1, <1>5, <1>7
<1> QED BY <1>1, <1>2, <1>4, <1>5, <1>6, <1>7

\* The node one name below another.
LEMMA AppendMeans ==
  ASSUME NEW s \in Seq(Qualifiers), NEW x \in Qualifiers, NEW t \in Seq(Qualifiers)
  PROVE  t = Append(s, x) <=> Len(t) = Len(s) + 1 /\ IsPrefix(s, t) /\ t[Len(t)] = x
<1> DEFINE a == Append(s, x)
<1>1. /\ a \in Seq(Qualifiers) /\ Len(a) = Len(s) + 1
      /\ \A i \in 1 .. Len(s) : a[i] = s[i]
      /\ a[Len(s) + 1] = x
      /\ Len(s) \in Nat /\ Len(t) \in Nat
  <2>1. a \in Seq(Qualifiers) /\ Len(a) = Len(s) + 1
    BY AppendProperties
  <2>2. \A i \in 1 .. Len(s) : a[i] = s[i]
    BY AppendProperties
  <2>3. a[Len(s) + 1] = x
    BY AppendProperties
  <2> QED BY <2>1, <2>2, <2>3, LenProperties
<1> HIDE DEF a
<1>2. ASSUME t = a
      PROVE  Len(t) = Len(s) + 1 /\ IsPrefix(s, t) /\ t[Len(t)] = x
  <2>1. Len(s) <= Len(t) /\ \A i \in 1 .. Len(s) : s[i] = t[i]
    BY <1>1, <1>2
  <2> QED BY <1>1, <1>2, <2>1, PrefixByElements
<1>3. ASSUME Len(t) = Len(s) + 1, IsPrefix(s, t), t[Len(t)] = x
      PROVE  t = a
  <2>1. \A i \in 1 .. Len(s) : s[i] = t[i]
    BY <1>3, PrefixByElements
  <2>2. \A i \in 1 .. Len(t) : i \in 1 .. Len(s) \/ i = Len(s) + 1
    BY <1>1, <1>3
  <2>3. \A i \in 1 .. Len(t) : t[i] = a[i]
    BY <1>1, <1>3, <2>1, <2>2
  <2> QED BY <1>1, <1>3, <2>3, SeqEqual
<1> QED BY <1>2, <1>3 DEF a

\* What a path goes through is a path, without a wildcard before the end.
LEMMA WayIsPath ==
  ASSUME NEW p, IsPath(p), NEW i \in 1 .. Len(p)
  PROVE  /\ IsPath(SubSeq(p, 1, i))
         /\ Len(SubSeq(p, 1, i)) = i
         /\ IsPrefix(SubSeq(p, 1, i), p)
         /\ SubSeq(p, 1, i)[i] = p[i]
<1> DEFINE n == SubSeq(p, 1, i)
<1>1. p \in Seq(Qualifiers) /\ Len(p) \in Nat /\ Len(p) >= 1 /\ i \in 0 .. Len(p)
  BY PathLength DEF IsPath
<1>2. n \in Seq(Qualifiers) /\ Len(n) = i /\ (\A j \in 1 .. i : n[j] = p[j]) /\ IsPrefix(n, p)
  BY <1>1, FirstNames
<1>3. n # <<>>
  BY <1>2, EmptySeq
<1>4. n[1] # Wildcard /\ \A j \in 1 .. i - 1 : n[j] # Wildcard
  BY <1>1, <1>2 DEF IsPath
<1> QED BY <1>2, <1>3, <1>4 DEF IsPath

\* The parent of a node that is not a variable.
LEMMA ParentMeans ==
  ASSUME NEW p, IsPath(p), Len(p) >= 2
  PROVE  /\ IsPath(Parent(p))
         /\ Len(Parent(p)) = Len(p) - 1
         /\ IsPrefix(Parent(p), p)
<1>1. Len(p) - 1 \in 1 .. Len(p)
  BY PathLength
<1> QED BY <1>1, WayIsPath DEF Parent

\* Nothing is below a wildcard.
LEMMA WildcardIsEnd ==
  ASSUME NEW s, IsPath(s), s[Len(s)] = Wildcard, NEW t, IsPath(t), IsPrefix(s, t)
  PROVE  t = s
<1>1. s \in Seq(Qualifiers) /\ t \in Seq(Qualifiers) /\ Len(s) \in Nat /\ Len(s) >= 1 /\ Len(t) \in Nat
  BY PathLength DEF IsPath
<1>2. Len(s) <= Len(t) /\ t[Len(s)] = Wildcard
  BY <1>1, PrefixByElements
<1>3. Len(s) = Len(t)
  BY <1>1, <1>2 DEF IsPath
<1> QED BY <1>1, <1>3, PrefixByLength

-----------------------------------------------------------------------------
(* What a path means for the patterns of the tree.                          *)

Overlapped(tree, p) ==
  \E q \in GetAttributes(tree) :
    /\ q # p
    /\ \/ Covers(q, p)
       \/ p[Len(p)] = Wildcard /\ Covers(p, q)

LEMMA EndIsInTree ==
  ASSUME NEW tree, TreeInv(tree), NEW q \in GetAttributes(tree)
  PROVE  /\ q \in tree
         /\ IsPath(q)
         /\ q \in Seq(Qualifiers)
         /\ Len(q) \in Nat
         /\ \A m \in tree : IsPrefix(q, m) => m = q
BY EndMeans, PathLength DEF TreeInv, GetAttributes, IsPath

\* A path is refused only for another pattern that covers it, or that it would
\* cover with a wildcard.
LEMMA RefusedOverlaps ==
  ASSUME NEW tree, TreeInv(tree), NEW p, IsPath(p), Refused(tree, p)
  PROVE  Overlapped(tree, p)
<1> PICK i \in 1 .. Len(p) - 1 : RefusesQualifier(tree, SubSeq(p, 1, i), p[i + 1])
  BY DEF Refused
<1> DEFINE node == SubSeq(p, 1, i)
<1>1. /\ p \in Seq(Qualifiers) /\ Len(p) \in Nat /\ Len(p) >= 2
      /\ i \in 1 .. Len(p) /\ i + 1 \in 1 .. Len(p) /\ i \in Nat
  BY PathLength DEF IsPath
<1>2. /\ IsPath(node) /\ node \in Seq(Qualifiers) /\ Len(node) = i /\ IsPrefix(node, p)
  BY <1>1, WayIsPath DEF IsPath
<1>3. \A j \in 1 .. i : node[j] = p[j]
  BY <1>1, FirstNames
<1>4. /\ node \in tree
      /\ \/ Children(tree, node) = {}
         \/ p[i + 1] = Wildcard /\ Children(tree, node) \ {Append(node, Wildcard)} # {}
         \/ p[i + 1] # Wildcard /\ Append(node, Wildcard) \in Children(tree, node)
  BY DEF RefusesQualifier
<1> HIDE DEF node
<1>5. CASE Children(tree, node) = {}
  <2>1. node \in GetAttributes(tree)
    BY <1>2, <1>4, <1>5 DEF GetAttributes, IsFull, NoNode, IsPath
  <2>2. Covers(node, p) /\ node # p
    BY <1>1, <1>2, CoversMeans
  <2> QED BY <2>1, <2>2, Zenon DEF Overlapped
<1>6. CASE p[i + 1] = Wildcard /\ Children(tree, node) \ {Append(node, Wildcard)} # {}
  <2>1. Len(p) = i + 1 /\ Parent(p) = node
    BY <1>1, <1>6 DEF IsPath, Parent, node
  <2> PICK c \in Children(tree, node) : c # Append(node, Wildcard)
    BY <1>6
  <2>2. c \in tree /\ IsPath(c) /\ c \in Seq(Qualifiers) /\ Len(c) = i + 1 /\ IsPrefix(node, c)
    BY <1>2 DEF Children, TreeInv, IsPath
  <2>3. c[i + 1] # Wildcard
    <3>1. Wildcard \in Qualifiers
      BY DEF Qualifiers
    <3>2. Len(c) = Len(node) + 1
      BY <1>2, <2>2
    <3>3. c[Len(c)] # Wildcard
      BY <1>2, <2>2, <3>1, <3>2, AppendMeans
    <3> QED BY <2>2, <3>3
  <2> PICK l \in GetAttributes(tree) : IsPrefix(c, l)
    BY <2>2 DEF TreeInv, LeadsToAnEnd
  <2>4. l \in Seq(Qualifiers) /\ IsPath(l)
    BY EndIsInTree
  <2>5. /\ i + 1 <= Len(l)
        /\ l[i + 1] = c[i + 1]
        /\ IsPrefix(node, l)
    BY <1>1, <1>2, <2>2, <2>4, PrefixByElements, PrefixTransitive
  <2>6. l # p /\ Covers(p, l)
    BY <1>6, <2>1, <2>3, <2>4, <2>5, CoversMeans
  <2> QED BY <1>6, <2>1, <2>6 DEF Overlapped
<1>7. CASE p[i + 1] # Wildcard /\ Append(node, Wildcard) \in Children(tree, node)
  <2> DEFINE w == Append(node, Wildcard)
  <2>1. w \in tree /\ IsPath(w) /\ w \in Seq(Qualifiers)
    BY <1>7 DEF Children, TreeInv, IsPath
  <2>2. Len(w) = i + 1 /\ IsPrefix(node, w) /\ w[i + 1] = Wildcard
    <3>1. Len(w) = Len(node) + 1 /\ IsPrefix(node, w) /\ w[Len(w)] = Wildcard
      <4>1. Wildcard \in Qualifiers
        BY DEF Qualifiers
      <4> QED BY <1>2, <2>1, <4>1, AppendMeans
    <3> QED BY <1>2, <3>1
  <2> HIDE DEF w
  <2>3. Parent(w) = node
    <3>1. i + 1 - 1 = i
      BY <1>1
    <3>2. node = SubSeq(w, 1, i)
      BY <1>2, <2>1, <2>2, PrefixByLength
    <3> QED BY <2>2, <3>1, <3>2 DEF Parent
  <2>4. w \in GetAttributes(tree)
    <3>1. \A m \in tree : IsPrefix(w, m) => m = w
      BY <2>1, <2>2, WildcardIsEnd DEF TreeInv
    <3> QED BY <2>1, <3>1, EndMeans DEF TreeInv
  <2>5. Covers(w, p)
    BY <1>1, <1>2, <2>1, <2>2, <2>3, CoversMeans
  <2>6. w # p
    BY <1>7, <2>2
  <2> QED BY <2>4, <2>5, <2>6, Zenon DEF Overlapped
<1> QED BY <1>4, <1>5, <1>6, <1>7

LEMMA WildcardQualifies == Wildcard \in Qualifiers
BY DEF Qualifiers

\* And it is refused for each of them.
LEMMA OverlapIsRefused ==
  ASSUME NEW tree, TreeInv(tree), NEW p, IsPath(p), Overlapped(tree, p)
  PROVE  Refused(tree, p)
<1> PICK q \in GetAttributes(tree) :
      q # p /\ (Covers(q, p) \/ (p[Len(p)] = Wildcard /\ Covers(p, q)))
  BY DEF Overlapped
<1>1. /\ q \in tree /\ IsPath(q) /\ q \in Seq(Qualifiers) /\ Len(q) \in Nat /\ Len(q) >= 1
      /\ q[Len(q)] = Wildcard => Len(q) >= 2
      /\ \A m \in tree : IsPrefix(q, m) => m = q
  BY EndIsInTree, PathLength
<1>2. /\ p \in Seq(Qualifiers) /\ Len(p) \in Nat /\ Len(p) >= 1
      /\ p[Len(p)] = Wildcard => Len(p) >= 2
  BY PathLength DEF IsPath
<1>3. CASE IsPrefix(q, p)
  <2>1. Len(q) \in 1 .. Len(p) - 1 /\ SubSeq(p, 1, Len(q)) = q
    BY <1>1, <1>2, <1>3, PrefixByLength
  <2>2. Children(tree, q) = {}
    BY <1>1, EndMeans DEF TreeInv
  <2>3. RefusesQualifier(tree, q, p[Len(q) + 1])
    BY <1>1, <2>2 DEF RefusesQualifier
  <2> QED BY <2>1, <2>3 DEF Refused
<1>4. CASE /\ ~IsPrefix(q, p)
           /\ q[Len(q)] = Wildcard
           /\ Len(q) <= Len(p)
           /\ IsPrefix(Parent(q), p)
  <2> DEFINE i == Len(q) - 1
             node == Parent(q)
  <2>1. i \in 1 .. Len(p) - 1 /\ i + 1 = Len(q)
    BY <1>1, <1>2, <1>4
  <2>2. IsPath(node) /\ node \in Seq(Qualifiers) /\ Len(node) = i /\ IsPrefix(node, q)
    BY <1>1, <1>4, ParentMeans DEF IsPath
  <2>3. node = SubSeq(p, 1, i) /\ node \in tree
    BY <1>1, <1>2, <1>4, <2>2, PrefixByLength, WayIsInTree DEF TreeInv, IsPath
  <2>4. p[i + 1] # Wildcard
    <3> SUFFICES ASSUME p[Len(q)] = Wildcard PROVE FALSE
      BY <2>1
    <3>1. \A j \in 1 .. i : q[j] = p[j]
      BY <1>1, <1>2, <1>4, <2>2, PrefixByElements
    <3>2. \A j \in 1 .. Len(q) : j \in 1 .. i \/ j = Len(q)
      BY <1>1
    <3>3. \A j \in 1 .. Len(q) : q[j] = p[j]
      BY <1>4, <3>1, <3>2
    <3> QED BY <1>1, <1>2, <1>4, <3>3, PrefixByElements
  <2>5. q = Append(node, Wildcard) /\ Len(q) = Len(node) + 1
    BY <1>1, <1>4, <2>1, <2>2, AppendMeans, WildcardQualifies
  <2>6. q \in Children(tree, node)
    BY <1>1, <2>2, <2>5 DEF Children
  <2>7. RefusesQualifier(tree, node, p[i + 1])
    BY <2>3, <2>4, <2>5, <2>6 DEF RefusesQualifier
  <2> QED BY <2>1, <2>3, <2>7 DEF Refused
<1>5. CASE p[Len(p)] = Wildcard /\ Len(p) <= Len(q) /\ IsPrefix(Parent(p), q) /\ ~IsPrefix(p, q)
  <2> DEFINE i == Len(p) - 1
             node == Parent(p)
             c == SubSeq(q, 1, Len(p))
  <2>1. i \in 1 .. Len(p) - 1 /\ i + 1 = Len(p) /\ node = SubSeq(p, 1, i)
    BY <1>2, <1>5 DEF Parent
  <2>2. IsPath(node) /\ node \in Seq(Qualifiers) /\ node # <<>> /\ Len(node) = i /\ IsPrefix(node, p)
    BY <1>2, <1>5, ParentMeans DEF IsPath
  <2>3. /\ c \in tree /\ c \in Seq(Qualifiers) /\ Len(c) = Len(p) /\ IsPrefix(c, q)
    <3>1. Len(p) \in 1 .. Len(q)
      BY <1>1, <1>2, <1>5
    <3> QED BY <1>1, <3>1, WayIsPath DEF TreeInv, PrefixClosed, IsPath
  <2> HIDE DEF c
  <2>4. IsPrefix(node, c)
    <3>1. Len(node) <= Len(c)
      BY <1>2, <2>2, <2>3
    <3> QED BY <1>1, <1>5, <2>2, <2>3, <3>1, PrefixesCompare
  <2>5. c \in Children(tree, node)
    BY <2>1, <2>2, <2>3, <2>4 DEF Children
  <2>6. c # p /\ p = Append(node, Wildcard)
    BY <1>2, <1>5, <2>1, <2>2, <2>3, AppendMeans, WildcardQualifies
  <2>7. node \in tree
    BY <1>1, <1>5, <2>2, WayIsInTree DEF TreeInv
  <2>8. RefusesQualifier(tree, node, p[i + 1])
    BY <1>5, <2>1, <2>5, <2>6, <2>7 DEF RefusesQualifier
  <2> QED BY <2>1, <2>8 DEF Refused
<1>6. Covers(q, p) => \/ IsPrefix(q, p)
                      \/ q[Len(q)] = Wildcard /\ Len(q) <= Len(p) /\ IsPrefix(Parent(q), p)
  BY <1>1, CoversMeans
<1>7. (p[Len(p)] = Wildcard /\ Covers(p, q))
        => Len(p) <= Len(q) /\ IsPrefix(Parent(p), q) /\ ~IsPrefix(p, q)
  <2>1. p[Len(p)] = Wildcard => ~IsPrefix(p, q)
    BY <1>1, WildcardIsEnd
  <2> QED BY <1>1, <2>1, CoversMeans
<1> QED BY <1>3, <1>4, <1>5, <1>6, <1>7

-----------------------------------------------------------------------------
(* A new path.                                                              *)

Grown(tree, p) == tree \cup (Prefixes(p) \ {NoNode})

LEMMA GrownByPrefixes ==
  ASSUME NEW tree, NEW p, IsPath(p), NEW n
  PROVE  n \in Grown(tree, p) <=>
           n \in tree \/ (n \in Seq(Qualifiers) /\ n # <<>> /\ IsPrefix(n, p))
<1>1. p \in Seq(Qualifiers) /\ Len(p) \in Nat
  BY PathLength DEF IsPath
<1>2. ASSUME NEW i \in 0 .. Len(p), n = SubSeq(p, 1, i), n # <<>>
      PROVE  n \in Seq(Qualifiers) /\ n # <<>> /\ IsPrefix(n, p)
  BY <1>1, <1>2, FirstNames
<1>3. ASSUME n \in Seq(Qualifiers), n # <<>>, IsPrefix(n, p)
      PROVE  n \in Prefixes(p)
  BY <1>1, <1>3, PrefixByLength DEF Prefixes
<1> QED BY <1>2, <1>3 DEF Grown, Prefixes, NoNode

\* A path that is in the tree already adds nothing.
LEMMA GrownIsSame ==
  ASSUME NEW tree, TreeInv(tree), NEW p \in tree
  PROVE  Grown(tree, p) = tree
<1>1. IsPath(p) /\ p \in Seq(Qualifiers)
  BY DEF TreeInv, IsPath
<1>2. \A n : n \in Seq(Qualifiers) /\ n # <<>> /\ IsPrefix(n, p) => n \in tree
  BY <1>1, WayIsInTree DEF TreeInv
<1>3. \A n : n \in Grown(tree, p) <=> n \in tree
  BY <1>1, <1>2, GrownByPrefixes
<1> QED BY <1>3

\* A path that is not refused becomes one more pattern.
LEMMA GrownTree ==
  ASSUME NEW tree, TreeInv(tree), NEW p, IsPath(p), p \notin tree, ~Refused(tree, p)
  PROVE  /\ TreeInv(Grown(tree, p))
         /\ GetAttributes(Grown(tree, p)) = GetAttributes(tree) \cup {p}
<1> DEFINE grown == Grown(tree, p)
<1>1. p \in Seq(Qualifiers) /\ Len(p) \in Nat /\ Len(p) >= 1 /\ p # <<>>
  BY PathLength DEF IsPath
<1>2. \A n : n \in grown <=> n \in tree \/ (n \in Seq(Qualifiers) /\ n # <<>> /\ IsPrefix(n, p))
  BY GrownByPrefixes
<1>3. p \in grown
  BY <1>1, <1>2, PrefixReflexive
<1> HIDE DEF grown
<1>4. \A n \in grown : IsPath(n) /\ n \in Seq(Qualifiers) /\ Len(n) \in Nat /\ Len(n) >= 1
  <2> TAKE n \in grown
  <2>1. CASE n \in tree
    BY <2>1, PathLength DEF TreeInv, IsPath
  <2>2. CASE n \in Seq(Qualifiers) /\ n # <<>> /\ IsPrefix(n, p)
    <3>1. Len(n) \in 1 .. Len(p) /\ n = SubSeq(p, 1, Len(n))
      BY <1>1, <2>2, PrefixByLength, EmptySeq
    <3>2. IsPath(n)
      BY <3>1, WayIsPath
    <3> QED BY <2>2, <3>2, PathLength
  <2> QED BY <1>2, <2>1, <2>2
<1>5. PrefixClosed(grown)
  <2> SUFFICES ASSUME NEW n \in grown, NEW i \in 1 .. Len(n)
               PROVE  SubSeq(n, 1, i) \in grown
    BY DEF PrefixClosed
  <2>1. CASE n \in tree
    BY <1>2, <2>1 DEF TreeInv, PrefixClosed
  <2>2. CASE n \in Seq(Qualifiers) /\ n # <<>> /\ IsPrefix(n, p)
    <3> DEFINE m == SubSeq(n, 1, i)
    <3>1. m \in Seq(Qualifiers) /\ m # <<>> /\ IsPrefix(m, n)
      <4>1. IsPath(n)
        BY <1>4
      <4>2. IsPath(m) /\ IsPrefix(m, n)
        BY <4>1, WayIsPath
      <4> QED BY <4>2 DEF IsPath
    <3> HIDE DEF m
    <3>2. IsPrefix(m, p)
      BY <1>1, <2>2, <3>1, PrefixTransitive
    <3>3. m \in grown
      BY <1>2, <3>1, <3>2
    <3> QED BY <3>3 DEF m
  <2> QED BY <1>2, <2>1, <2>2
<1>6. \A q \in GetAttributes(tree) : ~Covers(q, p)
  <2>1. \A q \in GetAttributes(tree) : q # p
    BY DEF GetAttributes
  <2> QED BY <2>1, OverlapIsRefused DEF Overlapped
<1>7. ASSUME NEW m \in grown, IsPrefix(p, m)
      PROVE  m = p
  <2>1. m \notin tree
    BY <1>1, <1>7, WayIsInTree DEF TreeInv, IsPath
  <2>2. IsPrefix(m, p)
    BY <1>2, <2>1
  <2> QED BY <1>1, <1>4, <1>7, <2>2, PrefixByLength
<1>8. p \in GetAttributes(grown)
  BY <1>3, <1>4, <1>5, <1>7, EndMeans
<1>9. ASSUME NEW n \in tree
      PROVE  n \in GetAttributes(grown) <=> n \in GetAttributes(tree)
  <2>1. n \in grown
    BY <1>2
  <2>2. ASSUME n \in GetAttributes(tree), NEW m \in grown, IsPrefix(n, m)
        PROVE  m = n
    <3>1. CASE m \in tree
      BY <2>2, <3>1, EndIsInTree
    <3>2. CASE m \in Seq(Qualifiers) /\ IsPrefix(m, p)
      <4>1. IsPrefix(n, p)
        BY <1>1, <1>4, <2>1, <2>2, <3>2, PrefixTransitive
      <4>2. Covers(n, p)
        BY <1>4, <2>1, <4>1, CoversMeans
      <4> QED BY <1>6, <2>2, <4>2
    <3> QED BY <1>2, <3>1, <3>2
  <2>3. n \in GetAttributes(grown) => \A m \in tree : IsPrefix(n, m) => m = n
    BY <1>2, <1>4, <1>5, <2>1, EndMeans
  <2> QED BY <1>4, <1>5, <2>1, <2>2, <2>3, EndMeans DEF TreeInv
<1>10. GetAttributes(grown) = GetAttributes(tree) \cup {p}
  <2>1. ASSUME NEW n \in GetAttributes(grown), n \notin tree
        PROVE  n = p
    <3>1. n \in grown /\ IsPrefix(n, p)
      BY <1>2, <2>1 DEF GetAttributes
    <3> QED BY <1>3, <1>4, <1>5, <2>1, <3>1, EndMeans
  <2>2. \A n \in GetAttributes(tree) : n \in tree
    BY DEF GetAttributes
  <2> QED BY <1>8, <1>9, <2>1, <2>2
<1>11. WildcardIsAlone(grown)
  <2> SUFFICES ASSUME NEW s \in grown, NEW t \in grown, s[Len(s)] = Wildcard, Len(t) = Len(s),
                      IsPrefix(Parent(s), t)
               PROVE  t = s
    BY DEF WildcardIsAlone
  <2>1. IsPath(s) /\ IsPath(t) /\ s \in Seq(Qualifiers) /\ t \in Seq(Qualifiers) /\ Len(s) >= 2
    BY <1>4, PathLength
  <2>2. CASE s \in tree /\ t \in tree
    BY <2>2 DEF TreeInv, WildcardIsAlone
  <2>3. CASE s \in tree /\ t \notin tree
    <3>1. IsPrefix(Parent(s), p) /\ IsPrefix(t, p)
      BY <1>1, <1>2, <2>1, <2>3, ParentMeans, PrefixTransitive DEF IsPath
    <3>2. Len(s) <= Len(p)
      BY <1>1, <2>1, <3>1, PrefixByLength, LenProperties
    <3>3. Covers(s, p)
      BY <2>1, <3>1, <3>2, CoversMeans
    <3>4. s \in GetAttributes(tree)
      <4>1. \A m \in tree : IsPrefix(s, m) => m = s
        BY <2>1, WildcardIsEnd DEF TreeInv
      <4> QED BY <2>3, <4>1, EndMeans DEF TreeInv
    <3> QED BY <1>6, <3>3, <3>4
  <2>4. CASE s \notin tree
    <3>1. s \in Seq(Qualifiers) /\ IsPrefix(s, p)
      BY <1>2, <2>4
    <3>2. s = p
      BY <2>1, <3>1, WildcardIsEnd
    <3>3. CASE t \in tree
      <4> PICK l \in GetAttributes(tree) : IsPrefix(t, l)
        BY <3>3 DEF TreeInv, LeadsToAnEnd
      <4>1. IsPath(l) /\ l \in Seq(Qualifiers) /\ l \in tree /\ Len(l) \in Nat
        BY EndIsInTree
      <4>2. Len(p) <= Len(l) /\ IsPrefix(Parent(p), l)
        <5>1. Len(t) <= Len(l)
          BY <1>1, <2>1, <3>2, <4>1, PrefixByLength
        <5>2. IsPath(Parent(p)) /\ Parent(p) \in Seq(Qualifiers)
          BY <1>1, <2>1, <3>2, ParentMeans DEF IsPath
        <5> QED BY <2>1, <3>2, <4>1, <5>1, <5>2, PrefixTransitive
      <4>3. Covers(p, l) /\ l # p
        BY <3>2, <4>1, <4>2, CoversMeans
      <4>4. Overlapped(tree, p)
        BY <3>2, <4>3 DEF Overlapped
      <4> QED BY <4>4, OverlapIsRefused
    <3>4. CASE t \notin tree
      BY <1>1, <1>2, <2>1, <3>2, <3>4, PrefixByLength
    <3> QED BY <3>3, <3>4
  <2> QED BY <2>2, <2>3, <2>4
<1>12. LeadsToAnEnd(grown)
  <2> SUFFICES ASSUME NEW n \in grown
               PROVE  \E l \in GetAttributes(grown) : IsPrefix(n, l)
    BY DEF LeadsToAnEnd
  <2>1. CASE n \in tree
    BY <1>10, <2>1 DEF TreeInv, LeadsToAnEnd
  <2>2. CASE IsPrefix(n, p)
    BY <1>8, <2>2
  <2> QED BY <1>2, <2>1, <2>2
<1> QED BY <1>4, <1>5, <1>10, <1>11, <1>12 DEF TreeInv, grown

-----------------------------------------------------------------------------
(* Removals.                                                                *)

\* What is left of a tree when nodes are taken from it, of each node with all
\* that is below it.
LEMMA CutTree ==
  ASSUME NEW tree, TreeInv(tree), NEW rest \in SUBSET tree
  PROVE  /\ \A n \in rest : IsPath(n) /\ n \in Seq(Qualifiers)
         /\ WildcardIsAlone(rest)
BY DEF TreeInv, WildcardIsAlone, IsPath

\* RemoveChildren makes a node the end of a pattern.
LEMMA RemovedChildren ==
  ASSUME NEW tree, TreeInv(tree), NEW p \in tree
  PROVE  /\ TreeInv(RemoveChildren(tree, p))
         /\ GetAttributes(RemoveChildren(tree, p)) =
              {q \in GetAttributes(tree) : ~IsPrefix(p, q)} \cup {p}
<1> DEFINE rest == RemoveChildren(tree, p)
<1>1. IsPath(p) /\ p \in Seq(Qualifiers)
  BY DEF TreeInv, IsPath
<1>2. \A n : n \in rest <=> n \in tree /\ (IsPrefix(p, n) => n = p)
  BY DEF RemoveChildren
<1>3. rest \in SUBSET tree /\ p \in rest
  BY <1>2
<1> HIDE DEF rest
<1>4. (\A n \in rest : IsPath(n) /\ n \in Seq(Qualifiers)) /\ WildcardIsAlone(rest)
  BY <1>3, CutTree
<1>5. \A n \in tree : n \in Seq(Qualifiers)
  BY DEF TreeInv, IsPath
<1>6. PrefixClosed(rest)
  <2> SUFFICES ASSUME NEW n \in rest, NEW i \in 1 .. Len(n)
               PROVE  SubSeq(n, 1, i) \in rest
    BY DEF PrefixClosed
  <2> DEFINE m == SubSeq(n, 1, i)
  <2>1. m \in tree /\ IsPrefix(m, n) /\ m \in Seq(Qualifiers)
    BY <1>2, <1>4, WayIsPath DEF TreeInv, PrefixClosed, IsPath
  <2> HIDE DEF m
  <2>2. ASSUME IsPrefix(p, m)
        PROVE  m = p
    <3>1. n = p
      BY <1>1, <1>2, <1>4, <2>1, <2>2, PrefixTransitive
    <3> QED BY <1>1, <2>1, <2>2, <3>1, PrefixByLength, LenProperties
  <2>3. m \in rest
    BY <1>2, <2>1, <2>2
  <2> QED BY <2>3 DEF m
<1>7. p \in GetAttributes(rest)
  BY <1>2, <1>3, <1>4, <1>6, EndMeans
<1>8. ASSUME NEW n \in rest, n # p
      PROVE  n \in GetAttributes(rest) <=> n \in GetAttributes(tree)
  <2>1. n \in tree /\ ~IsPrefix(p, n)
    BY <1>2, <1>8
  <2>2. n \in GetAttributes(tree) => n \in GetAttributes(rest)
    BY <1>2, <1>4, <1>6, EndMeans, EndIsInTree
  <2>3. ASSUME n \in GetAttributes(rest), NEW m \in tree, IsPrefix(n, m)
        PROVE  m = n
    <3>1. CASE m \in rest
      BY <1>4, <1>6, <2>3, <3>1, EndMeans
    <3>2. CASE m \notin rest
      <4>1. IsPrefix(p, m)
        BY <1>2, <3>2
      <4>2. IsPrefix(n, p)
        <5>1. Len(n) <= Len(p) \/ Len(p) <= Len(n)
          BY <1>1, <1>4, LenProperties
        <5> QED BY <1>1, <1>4, <1>5, <2>1, <2>3, <4>1, <5>1, PrefixesCompare
      <4> QED BY <1>3, <1>4, <1>6, <1>8, <2>3, <4>2, EndMeans
    <3> QED BY <3>1, <3>2
  <2> QED BY <2>1, <2>2, <2>3, EndMeans DEF TreeInv
<1>9. GetAttributes(rest) = {q \in GetAttributes(tree) : ~IsPrefix(p, q)} \cup {p}
  <2>1. ASSUME NEW q \in GetAttributes(rest), q # p
        PROVE  q \in GetAttributes(tree) /\ ~IsPrefix(p, q)
    BY <1>2, <1>8, <2>1 DEF GetAttributes
  <2>2. ASSUME NEW q \in GetAttributes(tree), ~IsPrefix(p, q)
        PROVE  q \in GetAttributes(rest)
    <3>1. q \in rest /\ q # p
      BY <1>1, <1>2, <2>2, PrefixReflexive DEF GetAttributes
    <3> QED BY <1>8, <2>2, <3>1
  <2> QED BY <1>7, <2>1, <2>2
<1>10. LeadsToAnEnd(rest)
  <2> SUFFICES ASSUME NEW n \in rest
               PROVE  \E l \in GetAttributes(rest) : IsPrefix(n, l)
    BY DEF LeadsToAnEnd
  <2> PICK l \in GetAttributes(tree) : IsPrefix(n, l)
    BY <1>3 DEF TreeInv, LeadsToAnEnd
  <2>1. l \in Seq(Qualifiers)
    BY EndIsInTree
  <2>2. CASE ~IsPrefix(p, l)
    BY <1>9, <2>2
  <2>3. CASE IsPrefix(p, l)
    <3>1. IsPrefix(n, p)
      <4>1. CASE Len(n) <= Len(p)
        BY <1>1, <1>4, <2>1, <2>3, <4>1, PrefixesCompare
      <4>2. CASE Len(p) <= Len(n)
        <5>1. IsPrefix(p, n)
          BY <1>1, <1>4, <2>1, <2>3, <4>2, PrefixesCompare
        <5>2. n = p
          BY <1>2, <5>1
        <5> QED BY <1>1, <5>2, PrefixReflexive
      <4> QED BY <1>1, <1>4, <4>1, <4>2, LenProperties
    <3> QED BY <1>7, <3>1
  <2> QED BY <2>2, <2>3
<1> QED BY <1>4, <1>6, <1>9, <1>10 DEF TreeInv, rest

\* Remove takes the end of a pattern away, and the parents it leaves childless.
LEMMA RemovedNode ==
  ASSUME NEW tree, TreeInv(tree), NEW p \in GetAttributes(tree)
  PROVE  /\ TreeInv(RemoveNode(tree, p))
         /\ GetAttributes(RemoveNode(tree, p)) = GetAttributes(tree) \ {p}
<1> DEFINE rest == RemoveNode(tree, p)
<1>1. IsPath(p) /\ p \in Seq(Qualifiers) /\ p \in tree /\ \A m \in tree : IsPrefix(p, m) => m = p
  BY EndIsInTree
<1>2. \A n : n \in rest <=>
        n \in tree /\ (IsPrefix(n, p) => \E o \in tree : IsPrefix(n, o) /\ ~IsPrefix(o, p))
  BY DEF RemoveNode
<1>3. rest \in SUBSET tree
  BY <1>2
<1> HIDE DEF rest
<1>4. (\A n \in rest : IsPath(n) /\ n \in Seq(Qualifiers)) /\ WildcardIsAlone(rest)
  BY <1>3, CutTree
<1>5. \A n \in tree : n \in Seq(Qualifiers) /\ IsPrefix(n, n)
  BY PrefixReflexive DEF TreeInv, IsPath
<1>6. p \notin rest
  BY <1>1, <1>2, <1>5
<1>7. PrefixClosed(rest)
  <2> SUFFICES ASSUME NEW n \in rest, NEW i \in 1 .. Len(n)
               PROVE  SubSeq(n, 1, i) \in rest
    BY DEF PrefixClosed
  <2> DEFINE m == SubSeq(n, 1, i)
  <2>1. m \in tree /\ IsPrefix(m, n) /\ m \in Seq(Qualifiers)
    BY <1>2, <1>4, WayIsPath DEF TreeInv, PrefixClosed, IsPath
  <2> HIDE DEF m
  <2>2. \E o \in tree : IsPrefix(m, o) /\ ~IsPrefix(o, p)
    <3> PICK o \in tree : IsPrefix(n, o) /\ ~IsPrefix(o, p)
      BY <1>2, <1>5
    <3> QED BY <1>4, <1>5, <2>1, PrefixTransitive
  <2>3. m \in rest
    BY <1>2, <2>1, <2>2
  <2> QED BY <2>3 DEF m
<1>8. ASSUME NEW n \in rest
      PROVE  n \in GetAttributes(rest) <=> n \in GetAttributes(tree)
  <2>1. n \in tree
    BY <1>3
  <2>2. n \in GetAttributes(tree) => n \in GetAttributes(rest)
    BY <1>3, <1>4, <1>7, EndMeans, EndIsInTree
  <2>3. ASSUME n \in GetAttributes(rest), NEW m \in tree, IsPrefix(n, m)
        PROVE  m = n
    <3>1. CASE m \in rest
      BY <1>4, <1>7, <2>3, <3>1, EndMeans
    <3>2. CASE m \notin rest
      <4>1. IsPrefix(n, p)
        BY <1>1, <1>2, <1>4, <1>5, <2>3, <3>2, PrefixTransitive
      <4> PICK o \in tree : IsPrefix(n, o) /\ ~IsPrefix(o, p)
        BY <1>2, <4>1
      <4>2. o \in rest /\ o # n
        BY <1>2, <4>1
      <4> QED BY <1>4, <1>7, <2>3, <4>2, EndMeans
    <3> QED BY <3>1, <3>2
  <2> QED BY <2>1, <2>2, <2>3, EndMeans DEF TreeInv
<1>9. ASSUME NEW q \in GetAttributes(tree), q # p
      PROVE  q \in rest
  <2>1. q \in tree /\ ~IsPrefix(q, p)
    BY <1>1, <1>9, EndIsInTree
  <2> QED BY <1>2, <2>1
<1>10. GetAttributes(rest) = GetAttributes(tree) \ {p}
  BY <1>6, <1>8, <1>9 DEF GetAttributes
<1>11. LeadsToAnEnd(rest)
  <2> SUFFICES ASSUME NEW n \in rest
               PROVE  \E l \in GetAttributes(rest) : IsPrefix(n, l)
    BY DEF LeadsToAnEnd
  <2> PICK o \in tree : IsPrefix(n, o) /\ ~IsPrefix(o, p)
    BY <1>2, <1>5
  <2> PICK l \in GetAttributes(tree) : IsPrefix(o, l)
    BY DEF TreeInv, LeadsToAnEnd
  <2>1. l \in Seq(Qualifiers)
    BY EndIsInTree
  <2>2. l # p /\ IsPrefix(n, l)
    BY <1>4, <1>5, <2>1, PrefixTransitive
  <2> QED BY <1>10, <2>2
<1> QED BY <1>4, <1>7, <1>10, <1>11 DEF TreeInv, rest

-----------------------------------------------------------------------------
(* The operations.                                                          *)

\* A path leads to a tree of the same patterns, of one more, or of none.
LEMMA AddedPath ==
  ASSUME NEW tree, TreeInv(tree), NEW p, IsPath(p)
  PROVE  LET added == AddPath(tree, p) IN
         /\ Refused(tree, p) => added.tree = tree /\ added.node = NoNode
         /\ ~Refused(tree, p) =>
              /\ added.tree = Grown(tree, p)
              /\ added.node = p
              /\ added.node # NoNode
              /\ added.emplaced <=> p \notin tree
BY Zenon DEF AddPath, Grown, IsPath, NoNode

\* Two patterns of the tree do not cover each other.
LEMMA EndsAreApart ==
  ASSUME NEW tree, TreeInv(tree), NEW p \in GetAttributes(tree), NEW q \in GetAttributes(tree),
         Covers(p, q)
  PROVE  p = q
<1>1. /\ IsPath(p) /\ IsPath(q) /\ p \in Seq(Qualifiers) /\ q \in Seq(Qualifiers)
      /\ Len(p) \in Nat /\ Len(q) \in Nat /\ p \in tree /\ q \in tree
      /\ \A m \in tree : IsPrefix(p, m) => m = p
  BY EndIsInTree
<1>2. CASE IsPrefix(p, q)
  BY <1>1, <1>2
<1>3. CASE p[Len(p)] = Wildcard /\ Len(p) <= Len(q) /\ IsPrefix(Parent(p), q)
  <2> DEFINE m == SubSeq(q, 1, Len(p))
  <2>1. Len(p) >= 2 /\ Len(p) \in 1 .. Len(q)
    BY <1>1, <1>3, PathLength
  <2>2. m \in tree /\ m \in Seq(Qualifiers) /\ Len(m) = Len(p) /\ IsPrefix(m, q)
    BY <1>1, <2>1, WayIsPath DEF TreeInv, PrefixClosed, IsPath
  <2> HIDE DEF m
  <2>3. IsPath(Parent(p)) /\ Parent(p) \in Seq(Qualifiers) /\ Len(Parent(p)) <= Len(m)
    BY <1>1, <2>1, <2>2, ParentMeans DEF IsPath
  <2>4. m = p
    BY <1>1, <1>3, <2>2, <2>3, PrefixesCompare DEF TreeInv, WildcardIsAlone
  <2> QED BY <1>1, <2>2, <2>4
<1> QED BY <1>1, <1>2, <1>3, CoversMeans

\* UpsertAttribute keeps the shape of the tree, and replaces the patterns it
\* covers.
LEMMA Upserted ==
  ASSUME NEW tree, TreeInv(tree), NEW p, IsPath(p)
  PROVE  LET patterns == GetAttributes(tree)
             covered  == {q \in patterns : Covers(p, q)}
         IN  /\ TreeInv(UpsertAttribute(tree, p))
             /\ GetAttributes(UpsertAttribute(tree, p)) =
                  IF (\E q \in patterns : Covers(q, p)) \/ (p[Len(p)] = Wildcard /\ covered # {})
                  THEN patterns
                  ELSE (patterns \ covered) \cup {p}
<1> DEFINE patterns == GetAttributes(tree)
           covered  == {q \in patterns : Covers(p, q)}
           added    == AddPath(tree, p)
<1> SUFFICES
      /\ TreeInv(UpsertAttribute(tree, p))
      /\ GetAttributes(UpsertAttribute(tree, p)) =
           IF (\E q \in patterns : Covers(q, p)) \/ (p[Len(p)] = Wildcard /\ covered # {})
           THEN patterns
           ELSE (patterns \ covered) \cup {p}
  OBVIOUS
<1>1. p \in Seq(Qualifiers) /\ \A q \in patterns : q \in tree /\ IsPath(q)
  BY EndIsInTree DEF IsPath
<1>2. UpsertAttribute(tree, p) =
        IF added.node = NoNode \/ IsFull(added.tree, added.node) \/ added.emplaced
        THEN added.tree ELSE RemoveChildren(added.tree, added.node)
  BY DEF UpsertAttribute
<1>3. Covers(p, p)
  BY <1>1, CoversMeans, PrefixReflexive
<1>4. CASE Refused(tree, p)
  <2>1. UpsertAttribute(tree, p) = tree
    BY <1>2, <1>4, AddedPath
  <2>2. (\E q \in patterns : Covers(q, p)) \/ (p[Len(p)] = Wildcard /\ covered # {})
    BY <1>4, RefusedOverlaps DEF Overlapped
  <2> QED BY <2>1, <2>2
<1>5. CASE ~Refused(tree, p) /\ p \notin tree
  <2>1. UpsertAttribute(tree, p) = Grown(tree, p)
    BY <1>2, <1>5, AddedPath
  <2>2. ~ \E q \in patterns : Covers(q, p)
    BY <1>1, <1>5, OverlapIsRefused DEF Overlapped
  <2>3. covered = {}
    <3> SUFFICES ASSUME NEW q \in patterns, Covers(p, q)
                 PROVE  FALSE
      OBVIOUS
    <3>1. p[Len(p)] # Wildcard
      BY <1>1, <1>5, OverlapIsRefused DEF Overlapped
    <3>2. IsPrefix(p, q)
      BY <1>1, <3>1, CoversMeans
    <3> QED BY <1>1, <1>5, <3>2, WayIsInTree DEF TreeInv, IsPath
  <2> QED BY <1>5, <2>1, <2>2, <2>3, GrownTree
<1>6. CASE ~Refused(tree, p) /\ p \in tree /\ p \in patterns
  <2>1. added.tree = tree /\ added.node = p
    BY <1>6, AddedPath, GrownIsSame
  <2>2. UpsertAttribute(tree, p) = tree
    BY <1>2, <1>6, <2>1 DEF GetAttributes
  <2> QED BY <1>3, <1>6, <2>2
<1>7. CASE ~Refused(tree, p) /\ p \in tree /\ p \notin patterns
  <2>1. added.tree = tree /\ added.node = p /\ p # NoNode /\ ~added.emplaced
    BY <1>7, AddedPath, GrownIsSame
  <2>2. UpsertAttribute(tree, p) = RemoveChildren(tree, p)
    BY <1>2, <1>7, <2>1 DEF GetAttributes
  <2>3. ~ \E q \in patterns : Covers(q, p)
    BY <1>7, OverlapIsRefused DEF Overlapped
  <2>4. p[Len(p)] # Wildcard
    BY <1>7, WildcardIsEnd, EndMeans DEF TreeInv
  <2>5. covered = {q \in patterns : IsPrefix(p, q)}
    BY <1>1, <2>4, CoversMeans
  <2>6. {q \in patterns : ~IsPrefix(p, q)} = patterns \ covered
    BY <2>5
  <2> QED BY <1>7, <2>2, <2>3, <2>4, <2>6, RemovedChildren
<1> QED BY <1>4, <1>5, <1>6, <1>7

\* InsertAttribute keeps the shape of the tree, and adds a pattern that overlaps
\* no other.
LEMMA Inserted ==
  ASSUME NEW tree, TreeInv(tree), NEW p, IsPath(p)
  PROVE  LET patterns == GetAttributes(tree)
             inserted == InsertAttribute(tree, p).tree
         IN  /\ TreeInv(inserted)
             /\ GetAttributes(inserted) =
                  IF \E q \in patterns : Covers(q, p) \/ Covers(p, q)
                  THEN patterns ELSE patterns \cup {p}
<1> DEFINE patterns == GetAttributes(tree)
           inserted == InsertAttribute(tree, p).tree
<1> SUFFICES /\ TreeInv(inserted)
             /\ GetAttributes(inserted) =
                  IF \E q \in patterns : Covers(q, p) \/ Covers(p, q)
                  THEN patterns ELSE patterns \cup {p}
  OBVIOUS
<1>1. p \in Seq(Qualifiers) /\ \A q \in patterns : q \in tree /\ IsPath(q) /\ q \in Seq(Qualifiers)
  BY EndIsInTree DEF IsPath
<1>2. inserted = AddPath(tree, p).tree
  BY DEF InsertAttribute
<1> HIDE DEF inserted
<1>3. CASE Refused(tree, p)
  <2>1. inserted = tree
    BY <1>2, <1>3, AddedPath
  <2>2. \E q \in patterns : Covers(q, p) \/ Covers(p, q)
    BY <1>3, RefusedOverlaps DEF Overlapped
  <2> QED BY <2>1, <2>2
<1>4. CASE ~Refused(tree, p) /\ p \notin tree
  <2>1. inserted = Grown(tree, p)
    BY <1>2, <1>4, AddedPath
  <2>2. ~ \E q \in patterns : Covers(q, p)
    BY <1>1, <1>4, OverlapIsRefused DEF Overlapped
  <2>3. ASSUME NEW q \in patterns, Covers(p, q)
        PROVE  FALSE
    <3>1. p[Len(p)] # Wildcard
      BY <1>1, <1>4, <2>3, OverlapIsRefused DEF Overlapped
    <3>2. IsPrefix(p, q)
      BY <1>1, <2>3, <3>1, CoversMeans
    <3> QED BY <1>1, <1>4, <3>2, WayIsInTree DEF TreeInv, IsPath
  <2> QED BY <1>4, <2>1, <2>2, <2>3, GrownTree
<1>5. CASE ~Refused(tree, p) /\ p \in tree
  <2>1. inserted = tree
    BY <1>2, <1>5, AddedPath, GrownIsSame
  <2> PICK l \in patterns : IsPrefix(p, l)
    BY <1>5 DEF TreeInv, LeadsToAnEnd
  <2>2. Covers(p, l)
    BY <1>1, CoversMeans
  <2> QED BY <2>1, <2>2
<1> QED BY <1>3, <1>4, <1>5

\* RemoveAttribute keeps the shape of the tree, and takes one pattern away.
LEMMA Removed ==
  ASSUME NEW tree, TreeInv(tree), NEW p
  PROVE  /\ TreeInv(RemoveAttribute(tree, p).tree)
         /\ GetAttributes(RemoveAttribute(tree, p).tree) = GetAttributes(tree) \ {p}
<1>1. CASE p \in GetAttributes(tree)
  <2>1. RemoveAttribute(tree, p).tree = RemoveNode(tree, p)
    BY <1>1 DEF RemoveAttribute, GetAttributes
  <2> QED BY <1>1, <2>1, RemovedNode
<1>2. CASE p \notin GetAttributes(tree)
  <2>1. RemoveAttribute(tree, p).tree = tree
    BY <1>2 DEF RemoveAttribute, GetAttributes
  <2> QED BY <1>2, <2>1
<1> QED BY <1>1, <1>2

\* An empty matcher has no patterns.
LEMMA EmptyTree == TreeInv({}) /\ GetAttributes({}) = {}
BY DEF TreeInv, PrefixClosed, WildcardIsAlone, LeadsToAnEnd, GetAttributes

-----------------------------------------------------------------------------
(* The specification.                                                       *)

MatcherInv == DOMAIN matchers = Sorts /\ TreeInv(matchers.unknown)

LEMMA PatternIsPath ==
  ASSUME NEW p \in Patterns, ValidateAttribute(p)
  PROVE  IsPath(p)
BY PatternsAssumption DEF ValidateAttribute, IsPath

\* A call that sets one matcher up leaves the others.
LEMMA SetUpChanges ==
  ASSUME DOMAIN matchers = Sorts, NEW sort \in Sorts, NEW tree, SetUp(sort, tree)
  PROVE  /\ DOMAIN matchers' = Sorts
         /\ matchers'.unknown = IF sort = "unknown" THEN tree ELSE matchers.unknown
<1>1. matchers' = [matchers EXCEPT ![sort] = tree] /\ "unknown" \in Sorts
  BY DEF SetUp, Sorts
<1> QED BY <1>1

\* Each operation keeps the tree in shape, and does to the patterns what the
\* abstract operation does.
LEMMA AddPatternImplements ==
  ASSUME MatcherInv, NEW sort \in Sorts, NEW p \in Patterns, AddPattern(sort, p)
  PROVE  /\ MatcherInv'
         /\ sort = "unknown" => UnknownPatterns!Upsert(p)
         /\ sort # "unknown" => UNCHANGED GetAttributes(matchers.unknown)
<1>1. SetUp(sort, UpsertAttribute(matchers[sort], p)) /\ IsPath(p)
  BY PatternIsPath DEF AddPattern
<1>2. /\ DOMAIN matchers' = Sorts
      /\ matchers'.unknown = IF sort = "unknown" THEN UpsertAttribute(matchers[sort], p)
                             ELSE matchers.unknown
  BY <1>1, SetUpChanges DEF MatcherInv
<1>3. CASE sort = "unknown"
  <2>1. matchers'.unknown = UpsertAttribute(matchers.unknown, p)
    BY <1>2, <1>3
  <2>2. MatcherInv'
    BY <1>1, <1>2, <2>1, Upserted DEF MatcherInv
  <2>3. UnknownPatterns!Upsert(p)
    BY <1>1, <2>1, Upserted
       DEF MatcherInv, UnknownPatterns!Upsert, UnknownPatterns!IsWildcardPattern, Covers
  <2> QED BY <1>3, <2>2, <2>3
<1>4. CASE sort # "unknown"
  BY <1>2, <1>4 DEF MatcherInv
<1> QED BY <1>3, <1>4

LEMMA InsertPatternImplements ==
  ASSUME MatcherInv, NEW p \in Patterns, InsertPattern(p)
  PROVE  MatcherInv' /\ UnknownPatterns!Insert(p)
<1>1. SetUp("unknown", InsertAttribute(matchers.unknown, p).tree) /\ IsPath(p)
  BY PatternIsPath DEF InsertPattern
<1>2. DOMAIN matchers' = Sorts /\ matchers'.unknown = InsertAttribute(matchers.unknown, p).tree
  BY <1>1, SetUpChanges DEF MatcherInv, Sorts
<1>3. MatcherInv'
  BY <1>1, <1>2, Inserted DEF MatcherInv
<1>4. UnknownPatterns!Insert(p)
  BY <1>1, <1>2, Inserted DEF MatcherInv, UnknownPatterns!Insert, Covers
<1> QED BY <1>3, <1>4

LEMMA RemovePatternImplements ==
  ASSUME MatcherInv, NEW p \in Patterns, RemovePattern(p)
  PROVE  MatcherInv' /\ UnknownPatterns!Remove(p)
<1>1. SetUp("unknown", RemoveAttribute(matchers.unknown, p).tree)
  BY DEF RemovePattern
<1>2. DOMAIN matchers' = Sorts /\ matchers'.unknown = RemoveAttribute(matchers.unknown, p).tree
  BY <1>1, SetUpChanges DEF MatcherInv, Sorts
<1> QED BY <1>2, Removed DEF MatcherInv, UnknownPatterns!Remove

LEMMA ClearPatternsImplements ==
  ASSUME MatcherInv, ClearPatterns
  PROVE  MatcherInv' /\ UnknownPatterns!Clear
<1>1. DOMAIN matchers' = Sorts /\ matchers'.unknown = {}
  BY SetUpChanges DEF ClearPatterns, MatcherInv, Sorts
<1> QED BY <1>1, EmptyTree DEF MatcherInv, UnknownPatterns!Clear

LEMMA OthersKeepPatterns ==
  ASSUME MatcherInv, Start \/ Step \/ Resolve \/ UNCHANGED vars
  PROVE  MatcherInv' /\ UNCHANGED GetAttributes(matchers.unknown)
<1>1. CASE UNCHANGED matchers
  BY <1>1 DEF MatcherInv
<1>2. CASE Resolve
  <2>1. matchers' = [matchers EXCEPT !.known = UpsertAll(@, Outcome.content)]
        /\ "unknown" \in Sorts /\ "known" # "unknown"
    BY <1>2 DEF Resolve, Sorts
  <2>2. DOMAIN matchers' = Sorts /\ matchers'.unknown = matchers.unknown
    BY <2>1 DEF MatcherInv
  <2> QED BY <2>2 DEF MatcherInv
<1>3. Start \/ Step \/ UNCHANGED vars => UNCHANGED matchers
  BY DEF Start, Step, vars
<1> QED BY <1>1, <1>2, <1>3

\* The tree of the unknown patterns is prefix-closed, has a wildcard only as an
\* only child at the end of a pattern, and every node of it leads to an end:
\* what AttributeMatcher's operations rely on and re-establish.
THEOREM TreeShape == Spec => []MatcherInv
<1>1. Init => MatcherInv
  BY EmptyTree DEF Init, NoPatterns, MatcherInv, Sorts
<1>2. MatcherInv /\ [Next]_vars => MatcherInv'
  BY AddPatternImplements, InsertPatternImplements, RemovePatternImplements,
     ClearPatternsImplements, OthersKeepPatterns DEF Next
<1> QED BY <1>1, <1>2, PTL DEF Spec

\* The patterns of a matcher never overlap (the promise of PatternSet, which
\* AttributeMatcherNode::Add keeps by refusing a name next to a wildcard).
PatternsApart ==
  \A p, q \in GetAttributes(matchers.unknown) : Covers(p, q) => p = q

THEOREM PatternsStayApart == Spec => []PatternsApart
<1>1. MatcherInv => PatternsApart
  BY EndsAreApart DEF MatcherInv, PatternsApart
<1> QED BY <1>1, TreeShape, PTL

\* The matcher implements the set of patterns, operation by operation.
THEOREM MatcherIsPatternSet == Spec => IsPatternSet
<1>1. Init => UnknownPatterns!Init
  BY EmptyTree DEF Init, NoPatterns, Sorts, UnknownPatterns!Init
<1>2. MatcherInv /\ [Next]_vars => [UnknownPatterns!Next]_(GetAttributes(matchers.unknown))
  BY AddPatternImplements, InsertPatternImplements, RemovePatternImplements,
     ClearPatternsImplements, OthersKeepPatterns DEF Next, UnknownPatterns!Next
<1>3. MatcherInv /\ [Next]_vars => OperationsImplement
  BY AddPatternImplements, InsertPatternImplements, RemovePatternImplements,
     ClearPatternsImplements, OthersKeepPatterns DEF OperationsImplement, Sorts
<1> QED BY <1>1, <1>2, <1>3, TreeShape, PTL DEF Spec, IsPatternSet, UnknownPatterns!Spec
=============================================================================
