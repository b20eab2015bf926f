--------------------------- MODULE TypeInference ---------------------------
(***************************************************************************)
(* TypeInferenceContext (checker/internal/type_inference_context.cc): type  *)
(* variables, what they are bound to, and when a type can be assigned to    *)
(* another.                                                                 *)
(*                                                                         *)
(* The committed bindings are a sequence, bind[v] what type variable v is   *)
(* bound to (Free while it is not); legacy is enable_legacy_null_assignment.*)
(* A substitution map holds prospective bindings, which come before the     *)
(* committed ones and are committed only when a whole list of checks        *)
(* succeeds.                                                                *)
(*                                                                         *)
(* The operators are recursive over types, so no theorem uses them.         *)
(***************************************************************************)
EXTENDS Naturals, Sequences, SequencesExt, TLC

\* name: of a struct, an opaque type or a declared type parameter;
\* id: of a type variable, 0 for every other type; ps: the parameters.
TypeOf(k, name, id, ps) == [k |-> k, name |-> name, id |-> id, ps |-> ps]

Simple(k)       == TypeOf(k, "", 0, <<>>)
ListType(t)     == TypeOf("list", "", 0, <<t>>)
MapType(k, v)   == TypeOf("map", "", 0, <<k, v>>)
OpaqueType(n, ps) == TypeOf("opaque", n, 0, ps)
OptionalType(t) == OpaqueType("optional_type", <<t>>)
TypeType(t)     == TypeOf("type", "", 0, <<t>>)
StructType(n)   == TypeOf("struct", n, 0, <<>>)
TypeParam(n)    == TypeOf("param", n, 0, <<>>)
TypeVar(v)      == TypeOf("param", "", v, <<>>)

BoolType  == Simple("bool")
IntType   == Simple("int")
NullType  == Simple("null")
DynType   == Simple("dyn")
ErrorType == Simple("error")
IntWrapperType == Simple("int_wrapper")
Free      == Simple("free")

\* A parameterless type is type(dyn).
TypeOfDyn == TypeType(DynType)

IsParam(t)    == t.k = "param"
IsTypeVar(t)  == IsParam(t) /\ t.id > 0
IsOptional(t) == t.k = "opaque" /\ t.name = "optional_type"
IsWildCardType(t)   == t.k \in {"any", "dyn", "error"}
IsLegacyNullable(t) == t.k \in {"struct", "any", "opaque"}
IsWrapper(t)        == t.k = "int_wrapper"
WrapperToPrimitive(t) == IntType
IsUnionType(t)      == IsWrapper(t) \/ t.k \in {"any", "dyn"}
IsSubsetOf(a, b)    == \/ b.k \in {"any", "dyn"}
                       \/ IsWrapper(b) /\ a \in {WrapperToPrimitive(b), NullType}

RECURSIVE HasTypeParam(_)
HasTypeParam(t) == IsParam(t) \/ \E i \in DOMAIN t.ps : HasTypeParam(t.ps[i])

NoSubstitutions == <<>>
Bind(v, t, subs) == (v :> t) @@ subs

-----------------------------------------------------------------------------
(***************************************************************************)
(* Substitution.  The code follows bindings until it meets a free variable  *)
(* or a type that is none; fuel is the number of bindings it can follow     *)
(* when none is followed twice.                                             *)
(***************************************************************************)
Fuel(ctx) == Len(ctx.bind) + 1

\* Mutant: the committed bindings are not looked up beside prospective ones.
IsBoundHere(t, subs, ctx) ==
  IsTypeVar(t) /\ (t.id \in DOMAIN subs \/ (subs = NoSubstitutions /\ ctx.bind[t.id] # Free))

IsBound(t, subs, ctx) ==
  IsTypeVar(t) /\ (t.id \in DOMAIN subs \/ ctx.bind[t.id] # Free)

Binding(t, subs, ctx) == IF t.id \in DOMAIN subs THEN subs[t.id] ELSE ctx.bind[t.id]

RECURSIVE Chase(_, _, _, _)
Chase(t, subs, ctx, fuel) ==
  IF fuel > 0 /\ IsBound(t, subs, ctx)
  THEN Chase(Binding(t, subs, ctx), subs, ctx, fuel - 1)
  ELSE t

Substitute(t, subs, ctx) ==
  LET s == Chase(t, subs, ctx, Fuel(ctx))
  IN  IF s.k = "type" /\ s.ps = <<>> THEN TypeOfDyn ELSE s

RECURSIVE SubstituteAll(_, _, _, _)
SubstituteAll(t, freeToDyn, ctx, fuel) ==
  LET s == Substitute(t, NoSubstitutions, ctx)
  IN  IF fuel = 0 THEN t
      ELSE IF ~IsParam(t)
           THEN [t EXCEPT !.ps = [i \in DOMAIN @ |-> SubstituteAll(@[i], freeToDyn, ctx, fuel)]]
      ELSE IF IsParam(s) THEN IF freeToDyn THEN DynType ELSE s
      ELSE SubstituteAll(s, freeToDyn, ctx, fuel - 1)

FullySubstitute(t, ctx) == SubstituteAll(t, FALSE, ctx, Fuel(ctx))
FinalizeType(t, ctx)    == SubstituteAll(t, TRUE, ctx, Fuel(ctx))

\* Does the variable occur in the type, under the bindings?
RECURSIVE Occurs(_, _, _, _, _)
Occurs(v, t, subs, ctx, fuel) ==
  /\ fuel > 0
  /\ IF IsParam(t)
     THEN \/ t.id = v
          \/ IsBound(t, subs, ctx) /\ Occurs(v, Binding(t, subs, ctx), subs, ctx, fuel - 1)
     ELSE \E i \in DOMAIN t.ps : Occurs(v, t.ps[i], subs, ctx, fuel)

\* Mutant: only a type that is itself the variable is looked at.
OccursAtTop(v, t, subs, ctx) == IsTypeVar(t) /\ t.id = v

OccursWithin(v, t, subs, ctx) == Occurs(v, t, subs, ctx, Fuel(ctx) + 1)

-----------------------------------------------------------------------------
(***************************************************************************)
(* Relative generality: "more", "less" or "same".                           *)
(***************************************************************************)
MostGeneral(cs) ==
  IF Contains(cs, "less") THEN "less" ELSE IF Contains(cs, "more") THEN "more" ELSE "same"

SameShape(f, t) == f.k = t.k /\ f.name = t.name /\ Len(f.ps) = Len(t.ps)

RECURSIVE CompareGenerality(_, _, _, _)
CompareGenerality(from, to, subs, ctx) ==
  LET f == Substitute(from, subs, ctx)
      t == Substitute(to, subs, ctx)
  IN  IF f = t THEN "same"
      ELSE IF IsUnionType(f) /\ IsSubsetOf(t, f) THEN "more"
      ELSE IF IsUnionType(t) THEN "less"
      ELSE IF ctx.legacy /\ IsLegacyNullable(f) /\ t = NullType THEN "more"
      ELSE IF f.k \in {"list", "map", "opaque"} /\ SameShape(f, t)
           THEN MostGeneral([i \in DOMAIN f.ps |-> CompareGenerality(f.ps[i], t.ps[i], subs, ctx)])
      ELSE "same"

-----------------------------------------------------------------------------
(***************************************************************************)
(* Assignability: whether from can be assigned to to, and the substitutions *)
(* after the check, whatever its answer.                                    *)
(***************************************************************************)
Answer(ok, subs) == [ok |-> ok, subs |-> subs]

IsAssignableWithConstraints(f, t, subs, ctx) ==
  IF IsParam(t) /\ IsParam(f)
  THEN Answer(TRUE, IF t = f THEN subs ELSE Bind(f.id, t, subs))
  ELSE IF IsParam(t) /\ ~OccursWithin(t.id, f, subs, ctx)
       THEN Answer(TRUE, Bind(t.id, f, subs))
  ELSE IF IsParam(f) /\ ~OccursWithin(f.id, t, subs, ctx)
       THEN Answer(TRUE, Bind(f.id, t, subs))
  ELSE Answer(IsWildCardType(f) \/ IsWildCardType(t), subs)

RECURSIVE IsAssignableInternal(_, _, _, _)
RECURSIVE AllAssignable(_, _, _, _)
RECURSIVE JoinTypeTypes(_, _, _, _)
RECURSIVE JoinSubstituted(_, _, _, _)
RECURSIVE JoinParams(_, _, _, _, _)
RECURSIVE JoinFirst(_, _, _, _, _, _)

\* Mutant: each parameter is checked without what the ones before it bound.
RECURSIVE AllAssignableApart(_, _, _, _)
AllAssignableApart(fs, ts, subs, ctx) ==
  IF fs = <<>> THEN Answer(TRUE, subs)
  ELSE LET first == IsAssignableInternal(Head(fs), Head(ts), NoSubstitutions, ctx)
       IN  IF first.ok THEN AllAssignableApart(Tail(fs), Tail(ts), first.subs @@ subs, ctx) ELSE first

\* Parameter lists: the first that fails ends the check, and what the ones
\* before it have bound stays bound.
AllAssignable(fs, ts, subs, ctx) ==
  IF fs = <<>> THEN Answer(TRUE, subs)
  ELSE LET first == IsAssignableInternal(Head(fs), Head(ts), subs, ctx)
       IN  IF first.ok THEN AllAssignable(Tail(fs), Tail(ts), first.subs, ctx) ELSE first

NoJoin == [joined |-> <<>>, subs |-> NoSubstitutions]

\* type(A) and type(B) join to type(dyn) unless one is assignable to the other,
\* at any depth; joined is <<>> or the type.
JoinTypeTypes(from, to, subs, ctx) ==
  JoinSubstituted(Substitute(from, subs, ctx), Substitute(to, subs, ctx), subs, ctx)

JoinRest(first, rest) == [rest EXCEPT !.ps = <<first>> \o @]

JoinedParams(t, params) ==
  IF params.changed THEN [joined |-> <<[t EXCEPT !.ps = params.ps]>>, subs |-> params.subs]
  ELSE NoJoin

JoinSubstituted(f, t, subs, ctx) ==
  IF f.k = "type" /\ t.k = "type"
  THEN IF IsAssignableInternal(f.ps[1], t.ps[1], subs, ctx).ok THEN NoJoin
       ELSE [joined |-> <<TypeOfDyn>>, subs |-> subs]
  ELSE IF ~SameShape(f, t) \/ t.ps = <<>> \/ t.k = "type" THEN NoJoin
  ELSE JoinedParams(t, JoinParams(f.ps, t.ps, subs, FALSE, ctx))

\* The joined parameters; changed is FALSE when no position needs a join or
\* another does not fit.
JoinParams(fs, ts, subs, changed, ctx) ==
  IF fs = <<>> THEN [ps |-> <<>>, subs |-> subs, changed |-> changed]
  ELSE JoinFirst(JoinTypeTypes(Head(fs), Head(ts), subs, ctx),
                 IsAssignableInternal(Head(fs), Head(ts), subs, ctx),
                 fs, ts, changed, ctx)

\* The first position with its join and its check here, then the others.
JoinFirst(join, here, fs, ts, changed, ctx) ==
  IF join.joined # <<>>
  THEN JoinRest(join.joined[1], JoinParams(Tail(fs), Tail(ts), join.subs, TRUE, ctx))
  ELSE IF here.ok
  THEN JoinRest(Head(ts), JoinParams(Tail(fs), Tail(ts), here.subs, changed, ctx))
  ELSE [ps |-> <<>>, subs |-> here.subs, changed |-> FALSE]

\* Mutant: a committed binding can be widened as well.
MayWidenAny(to, subs) == IsTypeVar(to)

MayWiden(to, subs) == IsTypeVar(to) /\ to.id \in DOMAIN subs

\* A prospective binding t of variable v gives way to f when f is more
\* general, or to what they join to.
BindAnswer(v, t, subs, ctx) ==
  IF OccursWithin(v, t, subs, ctx) THEN Answer(FALSE, subs) ELSE Answer(TRUE, Bind(v, t, subs))

WidenToJoin(v, join, ctx) ==
  IF join.joined = <<>> THEN Answer(FALSE, join.subs)
  ELSE BindAnswer(v, join.joined[1], join.subs, ctx)

WidenToGeneral(v, f, back, ctx) ==
  IF back.ok THEN BindAnswer(v, f, back.subs, ctx) ELSE back

WidenOr(joined, v, f, t, subs, ctx) ==
  IF joined.ok THEN joined
  ELSE IF CompareGenerality(f, t, subs, ctx) = "more"
       THEN WidenToGeneral(v, f, IsAssignableInternal(t, f, subs, ctx), ctx)
  ELSE Answer(FALSE, subs)

Widen(v, f, t, subs, ctx) ==
  WidenOr(WidenToJoin(v, JoinTypeTypes(f, t, subs, ctx), ctx), v, f, t, subs, ctx)

IsAssignableConcrete(to, f, t, subs, ctx) ==
  IF /\ f.k = "type" /\ t.k = "type"
     /\ ~IsParam(to) /\ ~HasTypeParam(f) /\ ~HasTypeParam(t)
  THEN Answer(TRUE, subs)
  ELSE IF IsWrapper(t)
       THEN IF f = NullType THEN Answer(TRUE, subs)
            ELSE IsAssignableInternal(WrapperToPrimitive(t), f, subs, ctx)
  ELSE IF IsWrapper(f) THEN IsAssignableInternal(WrapperToPrimitive(f), t, subs, ctx)
  ELSE IF \/ ctx.legacy /\ f = NullType /\ IsLegacyNullable(t)
          \/ ctx.legacy /\ t = NullType /\ IsLegacyNullable(f)
          \/ {f.k, t.k} = {"enum", "int"}
          \/ IsWildCardType(f) \/ IsWildCardType(t)
       THEN Answer(TRUE, subs)
  ELSE IF SameShape(f, t) THEN AllAssignable(f.ps, t.ps, subs, ctx)
  ELSE Answer(FALSE, subs)

WidenedOrConcrete(widened, to, f, t, subs, ctx) ==
  IF widened.ok THEN widened ELSE IsAssignableConcrete(to, f, t, subs, ctx)

IsAssignableSubstituted(to, f, t, subs, ctx) ==
  IF t = f THEN Answer(TRUE, subs)
  ELSE IF IsParam(t) \/ IsParam(f) THEN IsAssignableWithConstraints(f, t, subs, ctx)
  ELSE WidenedOrConcrete(IF MayWiden(to, subs) THEN Widen(to.id, f, t, subs, ctx)
                         ELSE Answer(FALSE, subs),
                         to, f, t, subs, ctx)

IsAssignableInternal(from, to, subs, ctx) ==
  IsAssignableSubstituted(to, Substitute(from, subs, ctx), Substitute(to, subs, ctx), subs, ctx)

-----------------------------------------------------------------------------
UpdateTypeParameterBindings(subs, ctx) ==
  [ctx EXCEPT !.bind = [v \in DOMAIN @ |-> IF v \in DOMAIN subs THEN subs[v] ELSE @[v]]]

\* The answer, and the context with the bindings of a check that succeeded.
Committed(a, ctx) ==
  [ok |-> a.ok, ctx |-> IF a.ok THEN UpdateTypeParameterBindings(a.subs, ctx) ELSE ctx]

IsAssignable(from, to, ctx) ==
  Committed(IsAssignableInternal(from, to, NoSubstitutions, ctx), ctx)

\* The declared parameters of a type, in the order they are met.
RECURSIVE ParamNames(_)
ParamNames(t) ==
  IF IsParam(t) THEN IF t.id = 0 THEN <<t.name>> ELSE <<>>
  ELSE FlattenSeq([i \in DOMAIN t.ps |-> ParamNames(t.ps[i])])

RECURSIVE WithVars(_, _)
WithVars(t, vars) ==
  IF IsParam(t) THEN IF t.id = 0 THEN TypeVar(vars[t.name]) ELSE t
  ELSE [t EXCEPT !.ps = [i \in DOMAIN @ |-> WithVars(@[i], vars)]]

\* Instances of some types that share their parameters: each declared
\* parameter becomes a new variable, in the order it is met.
InstantiateTypeParams(ts, ctx) ==
  LET met   == FlattenSeq([i \in DOMAIN ts |-> ParamNames(ts[i])])
      order == FoldLeft(LAMBDA acc, n : IF Contains(acc, n) THEN acc ELSE Append(acc, n),
                        <<>>, met)
      vars  == [n \in ToSet(order) |->
                  Len(ctx.bind) + (CHOOSE i \in DOMAIN order : order[i] = n)]
  IN  [ts |-> [i \in DOMAIN ts |-> WithVars(ts[i], vars)],
       ctx |-> [ctx EXCEPT !.bind = @ \o [i \in DOMAIN order |-> Free]]]

-----------------------------------------------------------------------------
(***************************************************************************)
(* ResolveOverload.  An overload is [id, member, args, result].             *)
(***************************************************************************)
IsLogicalOp(fn, argc) == fn \in {"_&&_", "_||_"} /\ argc >= 2

\* The parameter an argument is checked against.
ParamsFor(params, argc, logical) ==
  [i \in 1 .. argc |-> params[IF logical THEN 1 ELSE i]]

Shaped(ovl, argc, isReceiver, logical) ==
  ovl.member = isReceiver /\ (logical \/ Len(ovl.args) = argc)

\* One overload: instantiated, checked argument by argument, and committed
\* when every argument fits; two matches with different results give dyn.
WithOverload(res, ovl, inst, fit) ==
  IF ~fit.ok THEN [res EXCEPT !.ctx = inst.ctx]
  ELSE [ctx |-> UpdateTypeParameterBindings(fit.subs, inst.ctx),
        overloads |-> Append(res.overloads, ovl.id),
        result |-> IF res.overloads = <<>> \/ res.result = inst.ts[1] THEN inst.ts[1] ELSE DynType]

TryOverload(res, ovl, argTypes, logical) ==
  LET inst == InstantiateTypeParams(<<ovl.result>> \o ovl.args, res.ctx)
  IN  WithOverload(res, ovl, inst,
        AllAssignable(argTypes, ParamsFor(Tail(inst.ts), Len(argTypes), logical),
                      NoSubstitutions, inst.ctx))

\* No overloads: nothing matched.
WithFinalResult(res) == [res EXCEPT !.result = FullySubstitute(@, res.ctx)]

ResolveOverload(decl, argTypes, isReceiver, ctx) ==
  LET logical == IsLogicalOp(decl.name, Len(argTypes))
      try(res, ovl) == IF Shaped(ovl, Len(argTypes), isReceiver, logical)
                       THEN TryOverload(res, ovl, argTypes, logical) ELSE res
  IN  WithFinalResult(
        FoldLeft(try, [ctx |-> ctx, overloads |-> <<>>, result |-> ErrorType], decl.overloads))
=============================================================================
