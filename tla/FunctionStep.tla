--------------------------- MODULE FunctionStep ----------------------------
(***************************************************************************)
(* Function dispatch (eval/eval/function_step.cc): which of the overloads   *)
(* registered for a call is invoked for the arguments on the stack, and     *)
(* what the call yields when none is.                                       *)
(*                                                                         *)
(* An overload is a record [kinds, strict, impl]: the parameter kinds       *)
(* ("any" for Kind::kAny), whether errors and unknowns are kept away from   *)
(* the implementation, and which implementation it has.                     *)
(***************************************************************************)
EXTENDS CelValues

\* Implementations behind the overloads (registered from outside eval/eval).
\*   add      the int64 _+_            concat   the list _+_
\*   fail     returns a non-OK status  pending  returns the unknown function
\*   is_err   a non-strict predicate            result error
Impls == {"add", "concat", "fail", "pending", "is_err"}

\* The two typed implementations are registered for the kinds they read.
Overload ==
  {o \in [kinds : Seq(Kinds \cup {"any"}), strict : BOOLEAN, impl : Impls] :
     /\ o.impl = "add" => o.kinds = <<"int", "int">>
     /\ o.impl = "concat" => o.kinds = <<"list", "list">>}

ShouldAcceptOverload(overload, args) ==
  overload.strict => ~AnyError(args) /\ ~AnyUnknown(args)

ArgumentKindsMatch(overload, args) ==
  /\ Len(overload.kinds) = Len(args)
  /\ \A i \in DOMAIN args : overload.kinds[i] \in {args[i].kind, "any"}

\* The positions of the overloads the arguments match.
Matches(overloads, args) ==
  {i \in DOMAIN overloads : ArgumentKindsMatch(overloads[i], args)}

\* The first overload that matches, if any does: a set of at most one.
ResolveStatic(overloads, args) ==
  {overloads[i] : i \in {j \in Matches(overloads, args) :
                           \A k \in Matches(overloads, args) : j <= k}}

\* The lazy candidates the activation provides an implementation for.
LazyMatches(overloads, args, provided) ==
  {i \in Matches(overloads, args) : overloads[i].impl \in provided}

\* Invoke: a status, the value, and the containers it allocated.
Invoke(impl, args, heap, functionUnknowns) ==
  CASE impl = "add" ->
         [ok |-> TRUE, value |-> CheckedAdd(args[1].n, args[2].n), alloc |-> <<>>]
    [] impl = "concat" ->
         LET elements == [i \in 1 .. Len(heap[args[1].n]) |-> heap[args[1].n][i].val]
                      \o [i \in 1 .. Len(heap[args[2].n]) |-> heap[args[2].n][i].val]
         IN  [ok |-> TRUE, value |-> ListValue(Len(heap) + 1),
              alloc |-> <<ListEntries(elements)>>]
    [] impl = "fail" ->
         [ok |-> FALSE, value |-> NullValue, alloc |-> <<>>]
    [] impl = "pending" ->
         [ok |-> TRUE,
          value |-> IF functionUnknowns THEN UnknownValue({"pending"} \cap Attributes)
                                        ELSE ErrorValue(kUnavailable),
          alloc |-> <<>>]
    [] OTHER ->
         [ok |-> TRUE, value |-> BoolValue(AnyError(args)), alloc |-> <<>>]

NoOverloadResult(args, unknownsEnabled) ==
  CASE AnyError(args) -> FirstError(args)
    [] ~AnyError(args) /\ unknownsEnabled /\ AnyUnknown(args) -> MergeUnknowns(args)
    [] OTHER -> ErrorValue(kNoMatchingOverload)
=============================================================================
