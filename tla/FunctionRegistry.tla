-------------------------- MODULE FunctionRegistry --------------------------
(***************************************************************************)
(* cel::FunctionRegistry (runtime/function_registry.cc) and the functions   *)
(* of an activation: which overloads may stand side by side under a name,   *)
(* and what a planner or a lazy call finds among them.                      *)
(***************************************************************************)
EXTENDS Naturals, Sequences

CONSTANTS
    FunctionNames,   \* function names
    Kinds,           \* argument kinds, "any" among them
    Descriptors,     \* bound: the function descriptors that are registered
    MaxOverloads     \* bound: registrations in the registry and in the activation

ASSUME RegistryAssumption ==
    /\ "any" \in Kinds
    /\ Descriptors \subseteq [receiver : BOOLEAN, types : Seq(Kinds), strict : BOOLEAN]
    /\ MaxOverloads \in Nat

VARIABLES
    functions,            \* functions_ of the registry: per name, static and lazy overloads
    activationFunctions   \* functions_ of an activation: per name, its overloads

registryVars == <<functions, activationFunctions>>

NoOverloads == [static |-> <<>>, lazy |-> <<>>]

RegistryInit ==
    /\ functions = [f \in FunctionNames |-> NoOverloads]
    /\ activationFunctions = [f \in FunctionNames |-> <<>>]

\* Two kinds stand for a common one.
KindsOverlap(k, l) == k = "any" \/ l = "any" \/ k = l

\* Equal shapes, as opposed to overlapping ones.
SameShape(d, receiver, types) ==
    /\ d.receiver = receiver
    /\ Len(d.types) = Len(types)
    /\ \A i \in DOMAIN types : d.types[i] = types[i]
ShapeMatches(d, receiver, types) ==
    /\ d.receiver = receiver
    /\ Len(d.types) = Len(types)
    /\ \A i \in DOMAIN types : KindsOverlap(d.types[i], types[i])

\* FindStaticOverloads, FindLazyOverloads: the positions of those that accept
\* the kinds.
FindOverloads(overloads, receiver, types) ==
    {i \in DOMAIN overloads : ShapeMatches(overloads[i], receiver, types)}

Overloads(f) == functions[f].static \o functions[f].lazy

\* Mutant: an overload with "any" arguments is not taken to overlap.
DescriptorRegisteredExactly(f, d) ==
    \E i \in DOMAIN Overloads(f) : SameShape(Overloads(f)[i], d.receiver, d.types)
DescriptorRegistered(f, d) ==
    \E i \in DOMAIN Overloads(f) : ShapeMatches(Overloads(f)[i], d.receiver, d.types)

FirstIsStrict(overloads) == \A i \in DOMAIN overloads : i = 1 => overloads[i].strict

\* Mutant: only overloads of the same sort are looked at.
ValidateStaticOnly(f, d) ==
    \/ functions[f].static = <<>>
    \/ d.strict /\ FirstIsStrict(functions[f].static)
ValidateNonStrictOverload(f, d) ==
    \/ Overloads(f) = <<>>
    \/ d.strict /\ FirstIsStrict(functions[f].static) /\ FirstIsStrict(functions[f].lazy)

\* The condition under which Register and RegisterLazyFunction do not return
\* kAlreadyExists.
Acceptable(f, d) == ~DescriptorRegistered(f, d) /\ ValidateNonStrictOverload(f, d)

Register(f, d) ==
    /\ Acceptable(f, d)
    /\ functions' = [functions EXCEPT ![f].static = Append(@, d)]
    /\ UNCHANGED activationFunctions

RegisterLazyFunction(f, d) ==
    /\ Acceptable(f, d)
    /\ functions' = [functions EXCEPT ![f].lazy = Append(@, d)]
    /\ UNCHANGED activationFunctions

\* A refused registration changes nothing.
RegistrationRefused(f, d) == ~Acceptable(f, d) /\ UNCHANGED registryVars

\* Activation::InsertFunction: no check of strictness.
\* Mutant: a function of the same shape is added a second time.
InsertFunctionBlindly(f, d) ==
    /\ activationFunctions' = [activationFunctions EXCEPT ![f] = Append(@, d)]
    /\ UNCHANGED functions
InsertFunction(f, d) ==
    /\ \A i \in DOMAIN activationFunctions[f] :
         ~ShapeMatches(activationFunctions[f][i], d.receiver, d.types)
    /\ activationFunctions' = [activationFunctions EXCEPT ![f] = Append(@, d)]
    /\ UNCHANGED functions

\* ActivationFunctionProviderImpl::GetFunction for a lazy overload d of f: the
\* one function of the activation that has its shape; none, or too many.
GetFunction(f, d) ==
    LET overloads == activationFunctions[f]
        matching  == FindOverloads(overloads, d.receiver, d.types)
    IN  IF matching = {} THEN [found |-> "none"]
        ELSE IF \E i \in matching : matching = {i}
             THEN [found |-> "one", overload |-> overloads[CHOOSE i \in matching : TRUE]]
             ELSE [found |-> "ambiguous"]

RegistrySize(f) == Len(Overloads(f)) + Len(activationFunctions[f])

RegistryNext ==
    \E f \in FunctionNames, d \in Descriptors :
      /\ RegistrySize(f) < MaxOverloads
      /\ \/ Register(f, d)
         \/ RegisterLazyFunction(f, d)
         \/ RegistrationRefused(f, d)
         \/ InsertFunction(f, d)
-----------------------------------------------------------------------------
Arguments(d) == [DOMAIN d.types -> Kinds \ {"any"}]

\* A call with arguments of known kinds has at most one registered overload,
\* static or lazy, whatever the order of registration: FunctionStep may take
\* the first match.
CallIsUnambiguous ==
    \A f \in FunctionNames :
      \A i, j \in DOMAIN Overloads(f) :
        i # j => ~ \E args \in Arguments(Overloads(f)[i]) :
                     /\ ShapeMatches(Overloads(f)[i], Overloads(f)[i].receiver, args)
                     /\ ShapeMatches(Overloads(f)[j], Overloads(f)[i].receiver, args)

\* A function that takes errors and unknowns as arguments is the only overload
\* of its name: dispatch decides on propagation before it knows the overload.
NonStrictIsAlone ==
    \A f \in FunctionNames :
      (\E i \in DOMAIN Overloads(f) : ~Overloads(f)[i].strict) => Len(Overloads(f)) = 1

\* A lazy call is ambiguous only if the registered overload has an "any"
\* argument: the functions of an activation are told apart by their kinds.
AmbiguousOnlyByAny ==
    \A f \in FunctionNames : \A i \in DOMAIN functions[f].lazy :
      LET d == functions[f].lazy[i] IN
        GetFunction(f, d).found = "ambiguous" => \E k \in DOMAIN d.types : d.types[k] = "any"
=============================================================================
