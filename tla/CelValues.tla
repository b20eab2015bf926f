----------------------------- MODULE CelValues -----------------------------
(***************************************************************************)
(* The values an evaluation computes with (cel::Value, common/value.h), cut *)
(* down to what the evaluator's control flow tells apart: the kind, a bool  *)
(* or an integer, the identity of an error, the set of attributes an        *)
(* unknown stands for, and the identity of a list or map.                   *)
(*                                                                         *)
(* Lists and maps live in an arena (google::protobuf::Arena): a sequence of *)
(* containers, each a sequence of [key, val] entries.  A list or map value  *)
(* is a reference, the container's index, so that two values can alias one  *)
(* container, which is what MutableListAppend relies on.                    *)
(*                                                                         *)
(* Every value has the same three fields, so that any two can be compared.  *)
(***************************************************************************)
EXTENDS Integers, Sequences

CONSTANTS
  Attributes,    \* names an unknown value can be about
  IntMax         \* the largest int; the code's is 2^63 - 1

ASSUME IntMaxAssumption == IntMax \in Nat

Kinds == {"bool", "int", "null", "error", "unknown", "list", "map"}

Value == [kind : Kinds, n : Int, unknowns : SUBSET Attributes]

BoolValue(b)  == [kind |-> "bool", n |-> IF b THEN 1 ELSE 0, unknowns |-> {}]
IntValue(i)   == [kind |-> "int", n |-> i, unknowns |-> {}]
ErrorValue(e) == [kind |-> "error", n |-> e, unknowns |-> {}]
ListValue(a)  == [kind |-> "list", n |-> a, unknowns |-> {}]
MapValue(a)   == [kind |-> "map", n |-> a, unknowns |-> {}]
NullValue     == [kind |-> "null", n |-> 0, unknowns |-> {}]
UnknownValue(attrs) == [kind |-> "unknown", n |-> 0, unknowns |-> attrs]

\* The errors the evaluator creates itself.
kNoMatchingOverload == 1
kNoSuchVariable     == 2
kOverflow           == 3
kUnavailable        == 4

IsBool(v)      == v.kind = "bool"
IsTrue(v)      == v.kind = "bool" /\ v.n = 1
IsFalse(v)     == v.kind = "bool" /\ v.n = 0
IsError(v)     == v.kind = "error"
IsUnknown(v)   == v.kind = "unknown"
IsContainer(v) == v.kind \in {"list", "map"}

\* A value whose reference, if it is one, is into an arena of m containers.
ValueIn(m) == {v \in Value : IsContainer(v) => v.n \in 1 .. m}

EntryIn(m) == [key : ValueIn(m), val : ValueIn(m)]

\* The arena's containers only refer to containers of the arena.
ArenaOK(arena) == arena \in Seq(Seq(EntryIn(Len(arena))))

\* The entries of a list of the given elements: keys are positions from 0.
ListEntries(elements) ==
  [i \in 1 .. Len(elements) |-> [key |-> IntValue(i - 1), val |-> elements[i]]]

(***************************************************************************)
(* UnknownAccumulator: the union of the unknowns among the arguments; there *)
(* is something to report iff one of them is unknown.                       *)
(***************************************************************************)
AnyUnknown(args) == \E i \in DOMAIN args : IsUnknown(args[i])

MergeUnknowns(args) ==
  UnknownValue(UNION {args[i].unknowns : i \in {j \in DOMAIN args : IsUnknown(args[j])}})

AnyError(args) == \E i \in DOMAIN args : IsError(args[i])

FirstError(args) ==
  args[CHOOSE i \in DOMAIN args :
         /\ IsError(args[i])
         /\ \A j \in DOMAIN args : j < i => ~IsError(args[j])]

(***************************************************************************)
(* ValueEqualImpl: values of different kinds are unequal, containers are    *)
(* equal when they have equal entries.  A container is nested less deep     *)
(* than the arena is long, which bounds the recursion.                      *)
(***************************************************************************)
ValueEqual(arena, v, w) ==
  LET equal[d \in Nat, a \in Value, b \in Value] ==
        /\ a.kind = b.kind
        /\ IF IsContainer(a)
           THEN /\ d > 0
                /\ Len(arena[a.n]) = Len(arena[b.n])
                /\ \A i \in 1 .. Len(arena[a.n]) :
                     \E j \in 1 .. Len(arena[b.n]) :
                       /\ a.kind = "list" => j = i
                       /\ equal[d - 1, arena[a.n][i].key, arena[b.n][j].key]
                       /\ equal[d - 1, arena[a.n][i].val, arena[b.n][j].val]
           ELSE a.n = b.n
  IN  equal[Len(arena), v, w]

\* The int64 overload of _+_: an error value when the sum does not fit.
CheckedAdd(x, y) ==
  IF x + y \in -IntMax - 1 .. IntMax THEN IntValue(x + y) ELSE ErrorValue(kOverflow)
=============================================================================
