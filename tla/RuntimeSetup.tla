---------------------------- MODULE RuntimeSetup ----------------------------
(***************************************************************************)
(* A runtime: its function registry is filled first (RuntimeBuilder), then  *)
(* programs are planned concurrently against the shared environment.        *)
(***************************************************************************)
EXTENDS FunctionRegistry, RuntimeEnv

CONSTANT MaxPlannedOverloads   \* bound: overloads registered when planning begins

ASSUME RuntimeSetupAssumption == MaxPlannedOverloads \in Nat

\* Functions of at most two arguments in both call styles; the non-strict ones
\* take one argument.
SmallDescriptors ==
    [receiver : BOOLEAN, types : {<<>>} \union {<<k>> : k \in Kinds}, strict : BOOLEAN]
      \union [receiver : {FALSE}, types : Kinds \X Kinds, strict : {TRUE}]

setupVars == <<functions, activationFunctions, envVars>>

Init == RegistryInit /\ EnvInit

\* No plan has been begun: the builder still owns the registries.
Building == \A p \in Planners : plans[p] = 0

Terminated ==
    /\ \/ \A p \in Planners : plans[p] = MaxPlans /\ at[p] = "idle"
       \/ \E f \in FunctionNames : RegistrySize(f) = MaxOverloads
    /\ UNCHANGED setupVars

Next ==
    \/ Building /\ RegistryNext /\ UNCHANGED envVars
    \/ /\ \A f \in FunctionNames : RegistrySize(f) <= MaxPlannedOverloads
       /\ EnvNext
       /\ UNCHANGED registryVars
    \/ Terminated

Spec == Init /\ [][Next]_setupVars
=============================================================================
