--------------------------- MODULE AttributeTrail ---------------------------
(***************************************************************************)
(* AttributeTrail and UnknownAccumulator (common/internal/attribute_trail): *)
(* a value on the stack carries the nodes its attribute has reached in the  *)
(* activation's three matchers, and each access moves them one qualifier    *)
(* on.  "m" is the record of the three trees.  The mode kPartial of Match,  *)
(* used by nobody, is left out; so are unknown function results, which the  *)
(* accumulator treats as it does attributes.                                *)
(***************************************************************************)
EXTENDS AttributeMatcher, Integers, Sequences, FiniteSets, SequencesExt, FiniteSetsExt

UnknownOf(attributes) == [kind |-> "unknown", content |-> attributes]
ErrorOf(code)         == [kind |-> "error", content |-> code]
MissingAttribute      == ErrorOf("missing_attribute")

NoTrail == [missing |-> NoNode, known |-> NoNode, unknown |-> NoNode]

\* Match either decides the value or leaves a trail to go on from.
Undecided      == [kind |-> "undecided"]
Decided(value) == [value |-> value, trail |-> NoTrail]

\* The known and unknown matches to go on with: none if nothing below can be
\* unknown, or if all of it is known.
KeptMatches(m, known, unknown) ==
  LET known_below == \/ unknown = NoNode
                     \/ IsFull(m.known, known)
                     \/ IsPartialWildcard(m.known, known)
  IN  IF known # NoNode /\ known_below
      THEN NoTrail
      ELSE [NoTrail EXCEPT !.known = known, !.unknown = unknown]

\* Missing attributes are looked at last, and only if the value is not unknown.
WithMissing(m, missing, trail) ==
  IF IsFull(m.missing, missing) THEN Decided(MissingAttribute)
  ELSE [value |-> Undecided, trail |-> [trail EXCEPT !.missing = missing]]

\* Mutant: what is unknown is not asked whether it is known.
LeadMatchUnknownOnly(m, variable) ==
  LET unknown == MatchVariable(m.unknown, variable)
  IN  IF IsFull(m.unknown, unknown)
      THEN Decided(UnknownOf({<<variable>>}))
      ELSE WithMissing(m, MatchVariable(m.missing, variable),
                       KeptMatches(m, MatchVariable(m.known, variable), unknown))

AttributeLeadMatch(m, variable) ==
  LET known   == MatchVariable(m.known, variable)
      unknown == MatchVariable(m.unknown, variable)
  IN  IF known = NoNode /\ IsFull(m.unknown, unknown)
      THEN Decided(UnknownOf({<<variable>>}))
      ELSE WithMissing(m, MatchVariable(m.missing, variable), KeptMatches(m, known, unknown))

\* Mutant: what the known patterns do not match stays undecided.
MatchBelowUnknownLeft(m, trail, qualifier) ==
  LET known == MatchQualifier(m.known, trail.known, qualifier)
  IN  WithMissing(m, MatchQualifier(m.missing, trail.missing, qualifier),
                  IF known = NoNode THEN NoTrail ELSE KeptMatches(m, known, trail.unknown))

\* Unknown in full, but for known attributes further down: only a step that
\* leaves the known patterns decides (MatchSlow).
MatchBelowUnknown(m, trail, qualifier) ==
  LET known == MatchQualifier(m.known, trail.known, qualifier)
  IN  IF known = NoNode THEN Decided(UnknownOf({Append(trail.known, qualifier)}))
      ELSE WithMissing(m, MatchQualifier(m.missing, trail.missing, qualifier),
                       KeptMatches(m, known, trail.unknown))

MatchPartial(m, trail, qualifier) ==
  LET known   == MatchQualifier(m.known, trail.known, qualifier)
      unknown == MatchQualifier(m.unknown, trail.unknown, qualifier)
  IN  IF known = NoNode /\ IsFull(m.unknown, unknown)
      THEN Decided(UnknownOf({Append(trail.unknown, qualifier)}))
      ELSE WithMissing(m, MatchQualifier(m.missing, trail.missing, qualifier),
                       KeptMatches(m, known, unknown))

\* AttributeTrail::Match<kFull>.
Match(m, trail, qualifier) ==
  IF IsFull(m.known, trail.known)
  THEN WithMissing(m, MatchQualifier(m.missing, trail.missing, qualifier), NoTrail)
  ELSE IF IsPartial(m.known, trail.known) /\ IsFull(m.unknown, trail.unknown)
  THEN MatchBelowUnknown(m, trail, qualifier)
  ELSE MatchPartial(m, trail, qualifier)

-----------------------------------------------------------------------------
\* The attribute to report for a value some of whose parts are unknown.
PartialUnknownMatch(m, trail) ==
  IF trail.unknown = NoNode \/ IsPartialWildcard(m.known, trail.known) THEN NoNode
  ELSE IF IsPartial(m.known, trail.known) THEN trail.known
  ELSE trail.unknown

GetNotFullUnknownMatch(m, trail) ==
  IF IsPartialWildcard(m.known, trail.known) THEN NoNode
  ELSE IF IsPartial(m.known, trail.known) THEN trail.known
  ELSE trail.unknown

(***************************************************************************)
(* The accumulator.  Sets of unknown values are kept in a pair until there  *)
(* is a third; "nodes" is what has been merged so far.  Accumulate returns  *)
(* the nodes, or the largest set if it has as many, and does not look at    *)
(* the pair once a node is there.                                           *)
(***************************************************************************)
NoUnknowns == [nodes |-> {}, largest |-> {}, pair |-> <<>>, added_pair |-> FALSE, empty |-> TRUE]

AddSet(acc, set) ==
  LET largest == IF Cardinality(set) > Cardinality(acc.largest) THEN set ELSE acc.largest
      merged  == IF acc.added_pair THEN acc.nodes
                 ELSE acc.nodes \cup acc.pair[1] \cup acc.pair[2]
  IN  IF Len(acc.pair) < 2
      THEN [acc EXCEPT !.pair = Append(acc.pair, set), !.largest = largest, !.empty = FALSE]
      ELSE [acc EXCEPT !.nodes = merged \cup set, !.added_pair = TRUE, !.largest = largest]

AddNode(acc, node) == [acc EXCEPT !.nodes = acc.nodes \cup {node}, !.empty = FALSE]

MaybeAddValue(acc, value) ==
  IF value.kind = "unknown" THEN AddSet(acc, value.content) ELSE acc

MaybeAddTrail(acc, m, trail) ==
  LET node == GetNotFullUnknownMatch(m, trail)
  IN  IF node = NoNode THEN acc ELSE AddNode(acc, node)

MaybeAddArgument(acc, m, argument) ==
  IF argument.value.kind = "unknown" THEN AddSet(acc, argument.value.content)
  ELSE MaybeAddTrail(acc, m, argument.trail)

Accumulate(acc) ==
  IF acc.nodes = {} THEN UNION ToSet(acc.pair)
  ELSE IF Cardinality(acc.largest) = Cardinality(acc.nodes) THEN acc.largest
  ELSE acc.nodes

MergeValues(values) == FoldLeft(MaybeAddValue, NoUnknowns, values)

PartiallyIdentifyAndMergeUnknowns(m, arguments) ==
  LET values == MergeValues([i \in DOMAIN arguments |-> arguments[i].value])
  IN  FoldLeft(LAMBDA acc, a : MaybeAddTrail(acc, m, a.trail), values, arguments)
=============================================================================
