----------------------------- MODULE PatternSet ----------------------------
(***************************************************************************)
(* What an attribute matcher promises: a set of patterns no two of which    *)
(* overlap.  A pattern is a sequence of names of which the last may be a    *)
(* wildcard; it covers another if it matches all the other matches          *)
(* (AttributePattern::IsMatch, base/attribute.h).                           *)
(***************************************************************************)
EXTENDS Naturals, Sequences

CONSTANTS
  Patterns,   \* the patterns a client may use
  Any         \* the wildcard

VARIABLE patterns

Covers(p, q) ==
  /\ Len(p) =< Len(q)
  /\ \A i \in 1 .. Len(p) : p[i] = Any \/ p[i] = q[i]

IsWildcardPattern(p) == p[Len(p)] = Any

Init == patterns = {}

\* A pattern that overlaps another is refused.
Insert(p) ==
  patterns' = IF \E q \in patterns : Covers(p, q) \/ Covers(q, p)
              THEN patterns ELSE patterns \cup {p}

\* A pattern replaces those it covers, unless it is covered itself.  A
\* wildcard over more specific patterns is ignored: the comment of
\* UpsertAttribute promises otherwise.
Upsert(p) ==
  LET covered == {q \in patterns : Covers(p, q)} IN
  patterns' = IF \/ \E q \in patterns : Covers(q, p)
                 \/ IsWildcardPattern(p) /\ covered # {}
              THEN patterns ELSE (patterns \ covered) \cup {p}

Remove(p) == patterns' = patterns \ {p}

Clear == patterns' = {}

Next ==
  \/ \E p \in Patterns : Insert(p) \/ Upsert(p) \/ Remove(p)
  \/ Clear

Spec == Init /\ [][Next]_patterns
=============================================================================
