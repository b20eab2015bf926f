----------------------------- MODULE Activation -----------------------------
(***************************************************************************)
(* cel::Activation (runtime/activation.cc) shared by evaluations on several *)
(* threads.  FindVariable reads the table without the lock; for an entry    *)
(* with a provider, ProvideValue takes the lock, looks again, calls the     *)
(* provider while holding the lock and memoises what it delivers.  A        *)
(* provider is user code: it may look up any variable of the activation,    *)
(* deliver any value, none, or an error.  The lock is not reentrant: a      *)
(* provider that looks up a variable with a provider waits for itself.      *)
(*                                                                          *)
(* The table is changed only while no lookup is in progress: the class is   *)
(* documented as thread-compatible.                                         *)
(***************************************************************************)
EXTENDS Naturals, Sequences, SequencesExt

CONSTANTS
    Threads,          \* evaluating threads
    NoOne,            \* the holder of a lock nobody holds
    Names,            \* variable names
    Lazies,           \* the names that may be bound to a provider
    Needs,            \* Needs[n]: the names the provider of n looks up
    Vals,             \* the values a variable can have
    NoValue,          \* an empty optional
    MaxAssigns,       \* bound: InsertOrAssign calls
    MaxLookups        \* bound: lookups made by one thread

\* A provider may look up every variable, its own and the provided ones too:
\* neither the class nor its documentation keeps it from doing so.
AnyNeeds == [n \in Names |-> IF n \in Lazies THEN Names ELSE {}]

ASSUME ActivationAssumption ==
    /\ NoOne \notin Threads
    /\ Lazies \subseteq Names
    /\ Needs \in [Names -> SUBSET Names]
    /\ NoValue \notin Vals
    /\ MaxAssigns \in Nat
    /\ MaxLookups \in Nat

VARIABLES
    values,        \* values_: the entry of each name
    mutex,         \* mutex_: the thread that holds it
    frames,        \* per thread: the FindVariable calls in progress, innermost last
    answer,        \* per thread: what its last outermost FindVariable returned
    assigns,       \* InsertOrAssign calls made so far
    lookups        \* per thread: outermost lookups made so far

vars == <<values, mutex, frames, answer, assigns, lookups>>

\* struct ValueEntry; "bound" is whether values_ has the name.
Entry == [bound : BOOLEAN, provider : BOOLEAN, value : Vals \union {NoValue}]
NoEntry == [bound |-> FALSE, provider |-> FALSE, value |-> NoValue]

\* The places a FindVariable call can be at: looking for the entry, reading the
\* value of an entry that has no provider, waiting for the lock, holding it
\* before the second look at the value, in the provider, storing its value.
Places == {"look", "read", "wait", "locked", "provider", "store"}

Frame == [name : Names, at : Places, asked : SUBSET Names]
At(n, place) == [name |-> n, at |-> place, asked |-> {}]

\* What an entry amounts to for whoever looks the name up.
BindingOf(entry) ==
    CASE ~entry.bound                          -> [as |-> "unbound"]
      [] entry.bound /\ entry.value = NoValue  -> [as |-> "provider"]
      [] entry.bound /\ entry.value # NoValue  -> [as |-> "value", value |-> entry.value]

SPEC == INSTANCE ActivationSpec WITH binding <- [n \in Names |-> BindingOf(values[n])]

Init ==
    /\ values = [n \in Names |-> NoEntry]
    /\ mutex = NoOne
    /\ frames = [t \in Threads |-> <<>>]
    /\ answer = [t \in Threads |-> [status |-> "none"]]
    /\ assigns = 0
    /\ lookups = [t \in Threads |-> 0]
-----------------------------------------------------------------------------
(* The owner of the activation.                                             *)

Quiescent == \A t \in Threads : frames[t] = <<>>

Assign(n, entry) ==
    /\ Quiescent
    /\ assigns < MaxAssigns
    /\ assigns' = assigns + 1
    /\ values' = [values EXCEPT ![n] = entry]
    /\ UNCHANGED <<mutex, frames, answer, lookups>>

\* Replaces whatever the name was bound to, a memoised value included.
InsertOrAssignValue(n) ==
    \E v \in Vals :
      Assign(n, [bound |-> TRUE, provider |-> FALSE, value |-> v])

InsertOrAssignValueProvider(n) ==
    /\ n \in Lazies
    /\ Assign(n, [bound |-> TRUE, provider |-> TRUE, value |-> NoValue])
-----------------------------------------------------------------------------
(* FindVariable and ProvideValue.                                           *)

Top(t) == Last(frames[t])

\* The innermost call of t returns r: to the evaluation, or to the provider
\* that made the lookup, whose own answer may be anything.
Return(t, r) ==
    /\ frames' = [frames EXCEPT ![t] = Front(@)]
    /\ answer' = IF Len(frames[t]) = 1 THEN [answer EXCEPT ![t] = r] ELSE answer

\* Where FindVariable goes after its look at the entry.
\* Mutant: the value of any entry is read under the lock.
FoundAtLocked(entry) == "wait"
FoundAt(entry) == IF entry.provider THEN "wait" ELSE "read"

\* The fields of an entry that a call reads without the lock.
\* Mutant: FindVariable looks for a memoised value before it takes the lock.
ReadsUnlockedEager(place) == CASE place = "look" -> {"provider", "value"}
                               [] place = "read" -> {"value"}
                               [] OTHER          -> {}
ReadsUnlocked(place) == CASE place = "look" -> {"provider"}
                          [] place = "read" -> {"value"}
                          [] OTHER          -> {}

Goto(t, place) == frames' = [frames EXCEPT ![t] = Append(Front(@), [Top(t) EXCEPT !.at = place])]

FindVariable(t) ==
    /\ frames[t] = <<>>
    /\ lookups[t] < MaxLookups
    /\ lookups' = [lookups EXCEPT ![t] = @ + 1]
    /\ \E n \in Names : frames' = [frames EXCEPT ![t] = <<At(n, "look")>>]
    /\ UNCHANGED <<values, mutex, answer, assigns>>

\* The provider looks up another variable of the activation.
ProviderFinds(t) ==
    /\ frames[t] # <<>>
    /\ Top(t).at = "provider"
    /\ \E n \in Needs[Top(t).name] \ Top(t).asked :
         frames' = [frames EXCEPT ![t] =
           Front(@) \o <<[Top(t) EXCEPT !.asked = @ \union {n}], At(n, "look")>>]
    /\ UNCHANGED <<values, mutex, answer, assigns, lookups>>

LookAtEntry(t) ==
    /\ frames[t] # <<>>
    /\ Top(t).at = "look"
    /\ LET entry == values[Top(t).name] IN
         \/ /\ entry.bound
            /\ Goto(t, FoundAt(entry))
            /\ UNCHANGED answer
         \/ /\ ~entry.bound
            /\ Return(t, SPEC!NotFound(Top(t).name))
    /\ UNCHANGED <<values, mutex, assigns, lookups>>

ReadValue(t) ==
    /\ frames[t] # <<>>
    /\ Top(t).at = "read"
    /\ LET value == values[Top(t).name].value IN
         Return(t, IF value # NoValue THEN SPEC!Found(Top(t).name, value)
                                      ELSE SPEC!NotFound(Top(t).name))
    /\ UNCHANGED <<values, mutex, assigns, lookups>>

Lock(t) ==
    /\ frames[t] # <<>>
    /\ Top(t).at = "wait"
    /\ mutex = NoOne
    /\ mutex' = t
    /\ Goto(t, "locked")
    /\ UNCHANGED <<values, answer, assigns, lookups>>

\* The second look, under the lock: another thread may have memoised a value.
\* Mutant: the provider is called whatever the entry holds.
MemoisedNever(entry) == FALSE
Memoised(entry) == entry.value # NoValue

ProvideValue(t) ==
    /\ frames[t] # <<>>
    /\ Top(t).at = "locked"
    /\ LET entry == values[Top(t).name] IN
         IF Memoised(entry)
           THEN /\ Return(t, SPEC!Found(Top(t).name, entry.value))
                /\ mutex' = NoOne
           ELSE /\ Goto(t, "provider")
                /\ UNCHANGED <<mutex, answer>>
    /\ UNCHANGED <<values, assigns, lookups>>

\* The provider delivers a value, which is then stored.
ProviderDelivers(t) ==
    /\ frames[t] # <<>>
    /\ Top(t).at = "provider"
    /\ Goto(t, "store")
    /\ UNCHANGED <<values, mutex, answer, assigns, lookups>>

\* It has no value, or fails: nothing is memoised and the next lookup asks again.
ProviderFails(t) ==
    /\ frames[t] # <<>>
    /\ Top(t).at = "provider"
    /\ \E r \in {SPEC!NotFound(Top(t).name), SPEC!Failed(Top(t).name)} : Return(t, r)
    /\ mutex' = NoOne
    /\ UNCHANGED <<values, assigns, lookups>>

\* What the lock is left as after the value was stored.
\* Mutant: an early return keeps the lock.
ReleasedNever(t) == t
Released(t) == NoOne

StoreValue(t) ==
    /\ frames[t] # <<>>
    /\ Top(t).at = "store"
    /\ \E v \in Vals :
         /\ values' = [values EXCEPT ![Top(t).name].value = v]
         /\ Return(t, SPEC!Found(Top(t).name, v))
    /\ mutex' = Released(t)
    /\ UNCHANGED <<assigns, lookups>>
-----------------------------------------------------------------------------
\* A step inside a call to FindVariable.
LookupStep(t) ==
    \/ LookAtEntry(t)
    \/ ReadValue(t)
    \/ Lock(t)
    \/ ProvideValue(t)
    \/ ProviderFinds(t)
    \/ ProviderDelivers(t)
    \/ ProviderFails(t)
    \/ StoreValue(t)

Waits(t) == frames[t] # <<>> /\ Top(t).at = "wait"

\* Thread u waits for the lock it holds, and always will.
SelfBlocked(u) == mutex = u /\ Waits(u)

\* Every lookup has been made, or waits for a lock that is never released.
Terminated ==
    /\ \A t \in Threads :
         \/ frames[t] = <<>> /\ lookups[t] = MaxLookups
         \/ Waits(t) /\ \E u \in Threads : SelfBlocked(u)
    /\ UNCHANGED vars

Next ==
    \/ \E n \in Names : InsertOrAssignValue(n) \/ InsertOrAssignValueProvider(n)
    \/ \E t \in Threads : FindVariable(t) \/ LookupStep(t)
    \/ Terminated

Spec == Init /\ [][Next]_vars

\* A thread inside FindVariable keeps running, and a provider returns.  The
\* lock needs strong fairness: it is free again and again while others use it,
\* and absl::Mutex does not starve a waiter.
FairSpec == Spec /\ \A t \in Threads : WF_vars(LookupStep(t)) /\ SF_vars(Lock(t))
-----------------------------------------------------------------------------
(* Properties.                                                              *)

TypeOK ==
    /\ values \in [Names -> Entry]
    /\ mutex \in Threads \union {NoOne}
    /\ frames \in [Threads -> Seq(Frame)]
    /\ answer \in [Threads -> [status : {"none"}]
                              \union [name : Names, status : {"not_found", "error"}]
                              \union [name : Names, status : {"found"}, value : Vals]]
    /\ assigns \in 0..MaxAssigns
    /\ lookups \in [Threads -> 0..MaxLookups]

\* Lookups on several threads behave as if each happened at one instant, and a
\* provider's value, once delivered, is the variable's value for everyone until
\* the name is bound anew (FindVariable, ProvideValue).
IsActivation == SPEC!Spec

\* What FindVariable reads without the lock is never being written at the same
\* time: ProvideValue stores to an entry's value, and entries with a provider
\* have theirs read under the lock only.
NoRace ==
    \A t, u \in Threads :
      \A i \in DOMAIN frames[t], j \in DOMAIN frames[u] :
        ~ /\ "value" \in ReadsUnlocked(frames[t][i].at)
          /\ frames[u][j].at = "store"
          /\ frames[t][i].name = frames[u][j].name

\* Exactly one call is past the lock, and its thread is still inside it; and a
\* thread waits for the lock it holds in one case only: its provider is looking
\* up a variable that has a provider too.  A provider's lookup of any other
\* variable never asks for the lock (FindVariable's test of entry.provider).
DeadlockOnlyByReentry ==
    /\ \A t \in Threads : \A i \in DOMAIN frames[t] :
         /\ frames[t][i].at \in {"locked", "provider", "store"} => mutex = t
         /\ frames[t][i].at = "wait" /\ mutex = t =>
              /\ i > 1 /\ frames[t][i - 1].at = "provider"
              /\ frames[t][i].name \in Needs[frames[t][i - 1].name]
              /\ values[frames[t][i].name].provider
    /\ mutex # NoOne => frames[mutex] # <<>>

\* Every call of FindVariable returns, whatever the other threads do, unless it
\* needs the lock while a provider that looked up a provided variable holds it.
LookupReturns ==
    \A t \in Threads :
      (frames[t] # <<>>) ~>
        (frames[t] = <<>> \/ (Waits(t) /\ \E u \in Threads : SelfBlocked(u)))
=============================================================================
