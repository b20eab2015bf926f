----------------------------- MODULE RuntimeEnv -----------------------------
(***************************************************************************)
(* What programs being planned at the same time share: the memoised enum    *)
(* table of the type registry (runtime/type_registry.cc), the message       *)
(* factory of the runtime environment, created when first needed            *)
(* (runtime/internal/runtime_env.cc), and the caches that are filled and    *)
(* read under one lock (field tables of DescriptorPoolTypeIntrospector,     *)
(* adapters of ProtobufDescriptorProvider, legacy functions of              *)
(* CelFunctionRegistry): for each key, an object that planners then point   *)
(* at without a lock.                                                       *)
(*                                                                          *)
(* Objects are numbered as they are created.  RegisterEnum may be called    *)
(* while programs are planned, but not while a planner gets its table: it   *)
(* writes enum_types_ without a lock, and type_registry.h calls such calls  *)
(* a race of the caller.                                                    *)
(***************************************************************************)
EXTENDS Naturals

CONSTANTS
    Planners,      \* threads that plan programs
    NoOne,         \* nobody holds a lock
    Enums,         \* enum types
    Keys,          \* message types or functions cached by name
    KnownKeys,     \* the keys the descriptor pool knows
    MaxObjects,    \* bound: objects created
    MaxPlans       \* bound: plans made by one planner

ASSUME RuntimeEnvAssumption ==
    /\ NoOne \notin Planners
    /\ KnownKeys \subseteq Keys
    /\ MaxObjects \in Nat
    /\ MaxPlans \in Nat

VARIABLES
    enumTypes,        \* enum_types_
    registering,      \* the enum whose RegisterEnum is between its two steps, if any
    enumTable,        \* enum_value_table_, NoTable when null
    tableMutex,       \* enum_value_table_mutex_, as held by a writer
    factory,          \* message_factory, and message_factory_ptr: the owner
    factoryPtr,       \*   and what is read without the lock
    factoryMutex,     \* message_factory_mutex
    cache,            \* field_tables_, type_cache_, functions_: object per key
    created,          \* objects created so far
    at,               \* per planner: where it is
    plans,            \* per planner: plans begun
    table,            \* per planner: the table its Resolver holds
    pointers          \* per planner: factory and cached objects it points at

envVars == <<enumTypes, registering, enumTable, tableMutex, factory, factoryPtr, factoryMutex,
             cache, created, at, plans, table, pointers>>

\* A shared pointer to a table: the enums it was built from.
NoTable == <<>>
Table(enums) == <<enums>>
Null == 0

Places == {"idle", "reader", "writer", "build", "planning", "fast", "slow", "create"}

NoPointers == [factory |-> Null, cached |-> [k \in Keys |-> Null]]

EnvInit ==
    /\ enumTypes = {} /\ registering = {} /\ enumTable = NoTable /\ tableMutex = NoOne
    /\ factory = Null /\ factoryPtr = Null /\ factoryMutex = NoOne
    /\ cache = [k \in Keys |-> Null]
    /\ created = 0
    /\ at = [p \in Planners |-> "idle"]
    /\ plans = [p \in Planners |-> 0]
    /\ table = [p \in Planners |-> NoTable]
    /\ pointers = [p \in Planners |-> NoPointers]

Goto(p, place) == at' = [at EXCEPT ![p] = place]
-----------------------------------------------------------------------------
(* TypeRegistry.                                                            *)

\* Mutant: the cached table is kept.
KeptTable == enumTable
DroppedTable == NoTable

\* RegisterEnum drops the table under the lock,
DropTable(e) ==
    /\ registering = {}
    /\ tableMutex = NoOne
    /\ enumTable' = DroppedTable
    /\ registering' = {e}
    /\ UNCHANGED <<enumTypes, tableMutex, factory, factoryPtr, factoryMutex, cache, created, at,
                   plans, table, pointers>>

\* and adds the enum, or replaces the one of its name, when it has released it.
AddEnum(e) ==
    /\ registering = {e}
    /\ enumTypes' = enumTypes \union {e}
    /\ registering' = {}
    /\ UNCHANGED <<enumTable, tableMutex, factory, factoryPtr, factoryMutex, cache, created, at,
                   plans, table, pointers>>

\* A planner makes its Resolver, which calls GetEnumValueTable.
StartPlan(p) ==
    /\ at[p] = "idle"
    /\ plans[p] < MaxPlans
    /\ plans' = [plans EXCEPT ![p] = @ + 1]
    /\ Goto(p, "reader")
    /\ UNCHANGED <<enumTypes, registering, enumTable, tableMutex, factory, factoryPtr,
                   factoryMutex, cache, created, table, pointers>>

\* The first look, under the reader lock.
ReadTable(p) ==
    /\ at[p] = "reader"
    /\ tableMutex = NoOne
    /\ IF enumTable # NoTable
         THEN table' = [table EXCEPT ![p] = enumTable] /\ Goto(p, "planning")
         ELSE Goto(p, "writer") /\ UNCHANGED table
    /\ UNCHANGED <<enumTypes, registering, enumTable, tableMutex, factory, factoryPtr,
                   factoryMutex, cache, created, plans, pointers>>

\* The second, under the writer lock.
RereadTable(p) ==
    /\ at[p] = "writer"
    /\ tableMutex = NoOne
    /\ IF enumTable # NoTable
         THEN /\ table' = [table EXCEPT ![p] = enumTable]
              /\ Goto(p, "planning") /\ UNCHANGED tableMutex
         ELSE tableMutex' = p /\ Goto(p, "build") /\ UNCHANGED table
    /\ UNCHANGED <<enumTypes, registering, enumTable, factory, factoryPtr, factoryMutex, cache,
                   created, plans, pointers>>

BuildTable(p) ==
    /\ at[p] = "build"
    /\ enumTable' = Table(enumTypes)
    /\ table' = [table EXCEPT ![p] = Table(enumTypes)]
    /\ tableMutex' = NoOne
    /\ Goto(p, "planning")
    /\ UNCHANGED <<enumTypes, registering, factory, factoryPtr, factoryMutex, cache, created,
                   plans, pointers>>
-----------------------------------------------------------------------------
(* RuntimeEnv::MutableMessageFactory.                                       *)

PointAtFactory(p, f) ==
    /\ pointers' = [pointers EXCEPT ![p].factory = f]
    /\ Goto(p, "planning")

\* The load outside the lock.
LoadFactory(p) ==
    /\ at[p] = "planning"
    /\ IF factoryPtr # Null THEN PointAtFactory(p, factoryPtr)
                            ELSE Goto(p, "slow") /\ UNCHANGED pointers
    /\ UNCHANGED <<enumTypes, registering, enumTable, tableMutex, factory, factoryPtr,
                   factoryMutex, cache, created, plans, table>>

\* Mutant: no second load once the lock is held.
NotReloaded(ptr) == Null
Reloaded(ptr) == ptr

LockFactory(p) ==
    /\ at[p] = "slow"
    /\ factoryMutex = NoOne
    /\ IF Reloaded(factoryPtr) # Null
         THEN PointAtFactory(p, factoryPtr) /\ UNCHANGED factoryMutex
         ELSE factoryMutex' = p /\ Goto(p, "create") /\ UNCHANGED pointers
    /\ UNCHANGED <<enumTypes, registering, enumTable, tableMutex, factory, factoryPtr, cache,
                   created, plans, table>>

\* The factory that was owned before, if any, is destroyed.
CreateFactory(p) ==
    /\ at[p] = "create"
    /\ created < MaxObjects
    /\ created' = created + 1
    /\ factory' = created + 1
    /\ factoryPtr' = created + 1
    /\ PointAtFactory(p, created + 1)
    /\ factoryMutex' = NoOne
    /\ UNCHANGED <<enumTypes, registering, enumTable, tableMutex, cache, plans, table>>
-----------------------------------------------------------------------------
(* GetFieldTable, GetTypeAdapter, CelFunctionRegistry::FindOverloads: one   *)
(* critical section each.                                                   *)

Missing(k) == cache[k] = Null

GetCached(p, k) ==
    /\ at[p] = "planning"
    /\ \/ /\ ~Missing(k)
          /\ pointers' = [pointers EXCEPT ![p].cached[k] = cache[k]]
          /\ UNCHANGED <<cache, created>>
       \/ /\ Missing(k)
          /\ k \in KnownKeys
          /\ created < MaxObjects
          /\ created' = created + 1
          /\ cache' = [cache EXCEPT ![k] = created + 1]
          /\ pointers' = [pointers EXCEPT ![p].cached[k] = created + 1]
       \/ /\ Missing(k)
          /\ k \notin KnownKeys
          /\ UNCHANGED <<cache, created, pointers>>
    /\ UNCHANGED <<enumTypes, registering, enumTable, tableMutex, factory, factoryPtr,
                   factoryMutex, at, plans, table>>

\* The plan is done; its program keeps what it points at.
EndPlan(p) ==
    /\ at[p] = "planning"
    /\ Goto(p, "idle")
    /\ table' = [table EXCEPT ![p] = NoTable]
    /\ UNCHANGED <<enumTypes, registering, enumTable, tableMutex, factory, factoryPtr,
                   factoryMutex, cache, created, plans, pointers>>

PlanStep(p) ==
    \/ ReadTable(p) \/ RereadTable(p) \/ BuildTable(p)
    \/ LoadFactory(p) \/ LockFactory(p) \/ CreateFactory(p)
    \/ \E k \in Keys : GetCached(p, k)
    \/ EndPlan(p)

LookingUp(p) == at[p] \in {"reader", "writer", "build"}

\* The caller keeps RegisterEnum and GetEnumValueTable apart; plans go on.
EnvNext ==
    \/ \E e \in Enums : ((\A p \in Planners : ~LookingUp(p)) /\ DropTable(e)) \/ AddEnum(e)
    \/ \E p \in Planners : (registering = {} /\ StartPlan(p)) \/ PlanStep(p)
-----------------------------------------------------------------------------
\* A planner that comes out of GetEnumValueTable has a table of all the enums
\* registered so far, though the table is memoised, several planners may build
\* it, and enums are registered after other plans and during them.
TableIsCurrent ==
    [][\A p \in Planners : LookingUp(p) /\ at'[p] = "planning" => table'[p] = Table(enumTypes)]_envVars

\* Everything a planner was given a pointer to, now or in an earlier plan, is
\* still what the environment owns: no second factory or cache entry replaces,
\* and destroys, the one another thread uses.
PointersStayValid ==
    \A p \in Planners :
      /\ pointers[p].factory \in {Null, factory}
      /\ \A k \in Keys : pointers[p].cached[k] \in {Null, cache[k]}
=============================================================================
