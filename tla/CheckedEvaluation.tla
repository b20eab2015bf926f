------------------------- MODULE CheckedEvaluation -------------------------
(***************************************************************************)
(* What the type checker promises the rest of the system: the planner finds *)
(* for every name the variable the checker found, the types it wrote down   *)
(* hold together, and what it accepts evaluates to a value of the type it   *)
(* deduced.                                                                 *)
(***************************************************************************)
EXTENDS TypeChecker, CelSemantics

CONSTANT Worlds    \* environments: name of a variable -> a value of its type

Accepted == outcome = "accepted"

\* A committed binding refers, through other bindings, to no variable of its
\* own: Substitute and FullySubstitute follow bindings until they end, and a
\* cycle that several calls close would have them never return
\* (type_inference_context.cc, Substitute, OccursWithin).
RECURSIVE VarsIn(_)
VarsIn(t) == IF IsTypeVar(t) THEN {t.id} ELSE UNION {VarsIn(t.ps[i]) : i \in DOMAIN t.ps}

RECURSIVE ReachableVars(_)
ReachableVars(vs) ==
  LET next == vs \cup UNION {VarsIn(vis.ctx.bind[v]) : v \in vs}
  IN  IF next = vs THEN vs ELSE ReachableVars(next)

SubstitutionsAreAcyclic ==
  \A v \in DOMAIN vis.ctx.bind : v \notin ReachableVars(VarsIn(vis.ctx.bind[v]))

\* A type variable keeps the type it was bound to: overloads are tried and
\* literals coalesced in contexts of their own, and what one of them makes of
\* a variable never replaces what an expression checked before relied on
\* (UpdateTypeParameterBindings).
BindingsAreFinal ==
  [][\A v \in DOMAIN vis.ctx.bind :
       vis.ctx.bind[v] # Free => vis'.ctx.bind[v] = vis.ctx.bind[v]]_vars

\* Every type the visitor asks for has been deduced, whatever was put off
\* until a chain of names was understood (GetDeducedType's internal error).
TypesAreDeduced == outcome # "internal_error"

\* The field of an optional select is a literal whose type was taken away.
ArgumentType(p) ==
  IF p \in DOMAIN vis.types THEN FinalType(p) ELSE Simple(NodeAt(tree, p).val.kind)

\* In a tree that is accepted, the final types of the arguments of a call
\* still fit every overload recorded for it, although variables were bound
\* after the call was resolved.
FinalTypesFit ==
  Accepted => \A p \in DOMAIN vis.functions :
    LET f    == vis.functions[p]
        args == [i \in DOMAIN f.args |-> ArgumentType(f.args[i])]
        again == ResolveOverload(f.decl, args, NodeAt(tree, p).t = "member" /\ ~f.namespaced,
                                 [bind |-> <<>>, legacy |-> LegacyNull])
    IN  ToSet(f.overloads) \subseteq ToSet(again.overloads)

-----------------------------------------------------------------------------
(***************************************************************************)
(* FlatExprVisitor::LookupSlot on a rewritten name: the comprehension or    *)
(* block element whose variable the planner reads, if any.                  *)
(***************************************************************************)
InScopeOf(p, q, name) ==
  LET c    == NodeAt(tree, q)
      part == p[Len(q) + 1]
  IN  /\ c.t = "compr"
      /\ \/ part \in {3, 4} /\ name \in {c.iter, c.iter2}
         \/ part \in {3, 4, 5} /\ name = c.accu

LookupSlot(p) ==
  LET a      == vis.attributes[p]
      scopes == {n \in 0 .. Len(p) - 1 : InScopeOf(p, SubSeq(p, 1, n), a.decl.name)}
      index  == {i \in 1 .. 3 : BlockName(i) = a.decl.name}
  IN  IF a.disambiguate THEN <<>>
      ELSE IF IsBlock(tree) /\ index # {} THEN <<<<1, Max(index)>>>>
      ELSE IF scopes # {} THEN <<SubSeq(p, 1, Max(scopes))>>
      ELSE <<>>

\* The planner reads, for every identifier of the rewritten tree, the variable
\* the checker typed it by, although each keeps scopes of its own and a global
\* variable may have the name of a local one.
NamesMeanTheSame ==
  Accepted => \A p \in DOMAIN vis.attributes : LookupSlot(p) = vis.attributes[p].decl.at

-----------------------------------------------------------------------------
RECURSIVE Inhabits(_, _)
Inhabits(d, t) ==
  CASE t.k \in {"list", "map"} ->
         /\ d.kind = t.k
         /\ \A i \in DOMAIN d.entries :
              /\ t.k = "map" => Inhabits(d.entries[i].key, t.ps[1])
              /\ Inhabits(d.entries[i].val, t.ps[Len(t.ps)])
    [] OTHER -> d.kind = t.k

\* Types a value is known by: neither dyn nor a wrapper (whose null the
\* checker lets pass for its primitive) is part of them.
RECURSIVE IsNarrow(_)
IsNarrow(t) ==
  t.k \in {"bool", "int", "null", "list", "map"} /\ \A i \in DOMAIN t.ps : IsNarrow(t.ps[i])

Denotable(e) ==
  \A p \in Paths(e) : LET n == NodeAt(e, p) IN
    \/ n.t \in {"const", "ident", "list", "compr"}
    \/ n.t = "call" /\ n.name \in {"_&&_", "_||_", "_?_:_", "@not_strictly_false", "!_", "_==_",
                                   "_!=_", "@in", "_+_", "cel.@block"}

Runtime == [functionUnknowns |-> FALSE, provided |-> {}]

\* An accepted expression all of whose types are narrow evaluates to a value of
\* the type deduced for it, or to an error that is not a missing overload.
CheckedIsSound ==
  Accepted /\ (\A p \in DOMAIN vis.types : IsBlockList(p) \/ IsNarrow(FinalType(p))) =>
    LET e == Rewritten(<<>>) IN
    Denotable(e) => \A env \in Worlds :
      LET d == Denote(e, env, Runtime)
      IN  d # NoOverload /\ (IsError(d) \/ Inhabits(d, FinalType(<<>>)))
=============================================================================
