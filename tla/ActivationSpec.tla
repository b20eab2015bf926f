--------------------------- MODULE ActivationSpec ---------------------------
(***************************************************************************)
(* What an activation promises to evaluations that share it: every lookup   *)
(* happens at one instant, and a variable bound to a provider has one value *)
(* from the moment the provider first delivers one.  No lock, no provider   *)
(* call in progress.  Activation.tla is shown to implement this module.     *)
(***************************************************************************)
CONSTANTS
    Threads,      \* threads that look variables up
    Names,        \* variable names
    Vals          \* the values a variable can have

VARIABLES
    binding,      \* what each name is bound to
    answer        \* the last answer each thread got

vars == <<binding, answer>>

Unbound  == [as |-> "unbound"]
Provided == [as |-> "provider"]
Bound(v) == [as |-> "value", value |-> v]

Bindings == {Unbound, Provided} \union {Bound(v) : v \in Vals}

Found(n, v)   == [name |-> n, status |-> "found", value |-> v]
NotFound(n)   == [name |-> n, status |-> "not_found"]
Failed(n)     == [name |-> n, status |-> "error"]

Init ==
    /\ binding = [n \in Names |-> Unbound]
    /\ answer  = [t \in Threads |-> [status |-> "none"]]

\* The owner of the activation binds a name.
Assign(n) ==
    /\ \E b \in Bindings \ {Unbound} : binding' = [binding EXCEPT ![n] = b]
    /\ UNCHANGED answer

LookupUnbound(t, n) ==
    /\ binding[n] = Unbound
    /\ answer' = [answer EXCEPT ![t] = NotFound(n)]
    /\ UNCHANGED binding

LookupBound(t, n) ==
    /\ binding[n].as = "value"
    /\ answer' = [answer EXCEPT ![t] = Found(n, binding[n].value)]
    /\ UNCHANGED binding

\* The provider is asked: its value becomes the binding, or nothing changes.
LookupProvided(t, n) ==
    /\ binding[n] = Provided
    /\ \/ \E v \in Vals :
             /\ binding' = [binding EXCEPT ![n] = Bound(v)]
             /\ answer'  = [answer EXCEPT ![t] = Found(n, v)]
       \/ /\ \E r \in {NotFound(n), Failed(n)} : answer' = [answer EXCEPT ![t] = r]
          /\ UNCHANGED binding

Next ==
    \/ \E n \in Names : Assign(n)
    \/ \E t \in Threads, n \in Names :
         LookupUnbound(t, n) \/ LookupBound(t, n) \/ LookupProvided(t, n)

Spec == Init /\ [][Next]_vars
=============================================================================
