-------------------------- MODULE AttributeMatcher --------------------------
(***************************************************************************)
(* AttributeMatcher (base/attribute_matcher.h): the attribute patterns of   *)
(* an activation, kept as a tree of qualifiers so that an evaluation steps  *)
(* along it.  The tree is the set of the paths of its nodes, the variable   *)
(* first; a node with no children ends a pattern.  The cached number of     *)
(* patterns (attributes_), a capacity for GetAttributes, is left out.       *)
(***************************************************************************)
EXTENDS Naturals, Sequences, SequencesExt

Wildcard == "*"

\* The null node: nothing matches.
NoNode == <<>>

Children(tree, node) ==
  {n \in tree : Len(n) = Len(node) + 1 /\ IsPrefix(node, n)}

IsPartial(tree, node) == node # NoNode /\ Children(tree, node) # {}
IsFull(tree, node)    == node # NoNode /\ Children(tree, node) = {}

IsPartialWildcard(tree, node) ==
  /\ node # NoNode
  /\ Children(tree, node) = {Append(node, Wildcard)}
  /\ IsFull(tree, Append(node, Wildcard))

GetAttributes(tree) == {n \in tree : IsFull(tree, n)}

MatchVariable(tree, variable) ==
  IF <<variable>> \in tree THEN <<variable>> ELSE NoNode

MatchQualifier(tree, node, qualifier) ==
  IF node = NoNode THEN NoNode
  ELSE IF Append(node, qualifier) \in tree THEN Append(node, qualifier)
  ELSE IF Children(tree, node) = {Append(node, Wildcard)} THEN Append(node, Wildcard)
  ELSE NoNode

ValidateAttribute(pattern) ==
  /\ pattern # <<>>
  /\ \A i \in 1 .. Len(pattern) - 1 : pattern[i] # Wildcard

-----------------------------------------------------------------------------
\* AttributeMatcherNode::Add: a node that was there before takes no qualifier
\* below it if it ends a pattern, or if its children are of the other sort.
RefusesQualifier(tree, node, qualifier) ==
  LET children == Children(tree, node)
      wildcard == Append(node, Wildcard)
  IN  /\ node \in tree
      /\ \/ children = {}
         \/ qualifier = Wildcard /\ children \ {wildcard} # {}
         \/ qualifier # Wildcard /\ wildcard \in children

Refused(tree, pattern) ==
  \E i \in 1 .. Len(pattern) - 1 :
    RefusesQualifier(tree, SubSeq(pattern, 1, i), pattern[i + 1])

\* AddVariable, then Add for each qualifier.  A node just created refuses none,
\* so nothing was created before a refusal.
AddPath(tree, pattern) ==
  IF Refused(tree, pattern)
  THEN [tree |-> tree, node |-> NoNode, emplaced |-> FALSE]
  ELSE [tree |-> tree \cup (Prefixes(pattern) \ {NoNode}), node |-> pattern,
        emplaced |-> pattern \notin tree]

InsertAttribute(tree, pattern) ==
  LET added == AddPath(tree, pattern)
  IN  [tree |-> added.tree,
       status |-> IF added.node = NoNode \/ ~added.emplaced THEN "already_exists" ELSE "ok"]

RemoveChildren(tree, node) == {n \in tree : IsPrefix(node, n) => n = node}

\* Mutant: the more specific patterns stay.
UpsertAttributeOnly(tree, pattern) == AddPath(tree, pattern).tree

UpsertAttribute(tree, pattern) ==
  LET added == AddPath(tree, pattern)
  IN  IF added.node = NoNode \/ IsFull(added.tree, added.node) \/ added.emplaced
      THEN added.tree
      ELSE RemoveChildren(added.tree, added.node)

\* AttributeMatcherNode::Remove: the node and the parents it leaves childless.
RemoveNode(tree, node) ==
  {n \in tree : IsPrefix(n, node) => \E other \in tree : IsPrefix(n, other)
                                                         /\ ~IsPrefix(other, node)}

RemoveAttribute(tree, pattern) ==
  IF pattern \in tree /\ IsFull(tree, pattern)
  THEN [tree |-> RemoveNode(tree, pattern), status |-> "ok"]
  ELSE [tree |-> tree, status |-> "not_found"]
=============================================================================
