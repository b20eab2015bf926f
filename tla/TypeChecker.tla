---------------------------- MODULE TypeChecker ----------------------------
(***************************************************************************)
(* TypeCheckerImpl::Check (checker/internal/type_checker_impl.cc): a visitor *)
(* (ResolveVisitor) driven by an AstTraversal deduces a type for every      *)
(* expression and resolves every name and call, committing what it learns   *)
(* about type variables as it goes; a rewriter (ResolveRewriter) then puts  *)
(* the resolved names into the tree and the final types into its type map.  *)
(*                                                                         *)
(* A name in the tree is one string; Spelling gives its segments when it    *)
(* has several or starts with a dot.  An identifier is a single segment, as *)
(* the parser makes it, with a dot in front when it is root-relative.       *)
(***************************************************************************)
EXTENDS CelMacros, TypeInference, FiniteSetsExt

CONSTANTS
  Container,     \* the segments of the expression container
  Aliases,       \* segment -> the segments it stands for
  Trees,         \* the expressions to check
  Spelling,      \* name of several segments, or root-relative -> its segments
  Variables,     \* segments -> [name, type]: the declared variables
  TypeNames,     \* segments -> [name, type, wellKnown, fields: field -> type]: what the
                 \* type providers find, wellKnown for google.protobuf's own messages
  EnumConstants, \* segments -> [name, type]: the values of enum types
  FunctionDecls, \* segments -> [name, overloads: sequence of [id, member, args, result]]
  LegacyNull,    \* enable_legacy_null_assignment
  MaxNodes,      \* max_expression_node_count
  MaxErrors,     \* max_error_issues
  Expected       \* what is expected of the result: sequences of at most one type

VARIABLES
  tree,          \* the expression
  expected,      \* the type expected of it, if any
  stack,         \* the traversal's records, the top first
  steps,         \* calls of AstTraversal::Step
  vis,           \* the visitor's state
  outcome        \* "none" until CheckImpl returns

vars == <<tree, expected, stack, steps, vis, outcome>>

-----------------------------------------------------------------------------
(***************************************************************************)
(* AstTraversal (common/ast_traverse.cc): a traversal without recursion.    *)
(* The stack holds records that are visited twice, before and after their   *)
(* dependencies; the argument of a call and each part of a comprehension    *)
(* has a record of its own around the record of its expression.             *)
(*                                                                         *)
(* An expression is named by its path, the child positions from the root.   *)
(***************************************************************************)
NodeAt(ast, path) ==
  LET at[i \in 0 .. Len(path)] == IF i = 0 THEN ast ELSE at[i - 1].args[path[i]]
  IN  at[Len(path)]

Parent(path) == SubSeq(path, 1, Len(path) - 1)

\* kind: "expr", "arg" (ArgRecord) or "part" (ComprehensionRecord).
StackRecord(kind, path) == [kind |-> kind, path |-> path, visited |-> FALSE]

Create == <<StackRecord("expr", <<>>)>>

\* The records a record waits for, in the order they are visited.
Dependencies(record, ast) ==
  LET node == NodeAt(ast, record.path)
      kind == CASE node.t \in {"call", "member"} -> "arg"
                [] node.t = "compr" -> "part"
                [] OTHER -> "expr"
  IN  IF record.kind # "expr" THEN <<StackRecord("expr", record.path)>>
      ELSE [i \in DOMAIN node.args |-> StackRecord(kind, Append(record.path, i))]

PushDependencies(records, ast) ==
  Dependencies(Head(records), ast) \o <<[Head(records) EXCEPT !.visited = TRUE]>> \o Tail(records)

\* Every path of a tree.
RECURSIVE Paths(_)
Paths(ast) ==
  {<<>>} \cup UNION {{<<i>> \o p : p \in Paths(ast.args[i])} : i \in DOMAIN ast.args}

-----------------------------------------------------------------------------
(***************************************************************************)
(* NamespaceGenerator (checker/internal/namespace_generator.cc,             *)
(* common/container.h): what a name in an expression may refer to, in the   *)
(* order the checker tries it.                                              *)
(*                                                                         *)
(* A name is the sequence of its segments, with "." in front when it is     *)
(* root-relative.  A container a.b puts a.b and a in front of a name; an    *)
(* alias replaces the first segment and turns the container off.            *)
(***************************************************************************)
IsRootRelative(name) == name[1] = "."
WithoutRoot(name)    == IF IsRootRelative(name) THEN Tail(name) ELSE name
HasAlias(name)       == WithoutRoot(name)[1] \in DOMAIN Aliases
Unaliased(name)      == Aliases[WithoutRoot(name)[1]]

\* The container and the containers around it, from the inside out.
ContainerPrefixes ==
  [i \in 1 .. Len(Container) + 1 |-> SubSeq(Container, 1, Len(Container) + 1 - i)]

PrefixesOf(name) == IF IsRootRelative(name) THEN <<<<>>>> ELSE ContainerPrefixes

\* A name that is taken as a whole: a function, a message type.
SimpleCandidates(name) ==
  LET n == WithoutRoot(name) IN
  IF HasAlias(name) THEN <<Unaliased(name) \o Tail(n)>>
  ELSE [i \in DOMAIN PrefixesOf(name) |-> PrefixesOf(name)[i] \o n]

\* The longest part of the name first: what follows it selects fields.
\* at: the position of the last segment that is part of the variable's name.
FieldSelectCandidates(prefix, segments, at) ==
  [i \in DOMAIN segments |->
     [name |-> prefix \o SubSeq(segments, 1, Len(segments) + 1 - i),
      at   |-> at + Len(segments) + 1 - i]]

QualifiedCandidates(name) ==
  LET n == WithoutRoot(name) IN
  IF HasAlias(name)
  THEN FieldSelectCandidates(Unaliased(name), Tail(n), 1)
         \o <<[name |-> Unaliased(name), at |-> 1]>>
  ELSE FlattenSeq([i \in DOMAIN PrefixesOf(name) |->
                     FieldSelectCandidates(PrefixesOf(name)[i], n, 0)])

-----------------------------------------------------------------------------
(***************************************************************************)
(* The visitor's state: the inference context, the types, variables and     *)
(* overloads found so far by path, the selects and receiver calls put off   *)
(* until it is known what their names mean, the variables in scope with the *)
(* innermost last, the scopes of the comprehensions being visited, the      *)
(* number of errors, and status_: "ok", "internal_error" when a type was     *)
(* never deduced, "malformed" for an optional select no parser makes.       *)
(***************************************************************************)
InitialVisitor ==
  [ctx |-> [bind |-> <<>>, legacy |-> LegacyNull], types |-> <<>>, attributes |-> <<>>,
   functions |-> <<>>, structTypes |-> <<>>, deferred |-> {}, namespaced |-> <<>>,
   scope |-> <<>>, scopes |-> <<>>, errors |-> 0, status |-> "ok"]

Typed(v, p, t)     == [v EXCEPT !.types = (p :> t) @@ @]
ReportError(v)     == [v EXCEPT !.errors = @ + 1]
Failed(v, p)       == Typed(ReportError(v), p, ErrorType)
WithContext(v, ctx) == [v EXCEPT !.ctx = ctx]
Instance(v, t)     == InstantiateTypeParams(<<t>>, v.ctx)

\* The first status that is not OK is kept.
UpdateStatus(v, status) == [v EXCEPT !.status = IF @ = "ok" THEN status ELSE @]

\* GetDeducedType: a type that is asked for and was never deduced is dyn, and
\* ends the check with an internal error (see Asked).
Deduced(v, p)  == IF p \in DOMAIN v.types THEN v.types[p] ELSE DynType
Asked(v, ps)   == IF ps \subseteq DOMAIN v.types THEN v ELSE UpdateStatus(v, "internal_error")
Child(p, i)    == Append(p, i)

\* A check that commits its bindings, and counts an error when it fails.
CommitOrReport(v, a) == IF a.ok THEN WithContext(v, a.ctx) ELSE ReportError(v)

CheckAssignable(v, from, to) == CommitOrReport(v, IsAssignable(from, to, v.ctx))

-----------------------------------------------------------------------------
(***************************************************************************)
(* Names.  A local is declared at the path of the comprehension or block    *)
(* element that binds it; a global has no such path.                        *)
(***************************************************************************)
Local(name, type, at) == [name |-> name, type |-> type, at |-> <<at>>]
Global(name, type)    == [name |-> name, type |-> type, at |-> <<>>]

LocalsNamed(v, x) == {i \in DOMAIN v.scope : v.scope[i].name = x}

Segments(name) == IF name \in DOMAIN Spelling THEN Spelling[name] ELSE <<name>>

\* Only a segment can name a local variable.
LookupLocalIdentifier(v, x) ==
  IF LocalsNamed(v, x) = {} THEN <<>> ELSE <<v.scope[Max(LocalsNamed(v, x))]>>

\* An enum is just an int to the checker.
EnumAsInt(t) == IF t.k = "enum" THEN IntType ELSE t

\* The name of a variable, of a type or of an enum's value.
LookupGlobalIdentifier(segments) ==
  CASE segments \in DOMAIN Variables ->
         <<Global(Variables[segments].name, Variables[segments].type)>>
    [] segments \in DOMAIN TypeNames \ DOMAIN Variables ->
         <<Global(TypeNames[segments].name, TypeType(TypeNames[segments].type))>>
    [] segments \in DOMAIN EnumConstants \ (DOMAIN Variables \cup DOMAIN TypeNames) ->
         <<Global(EnumConstants[segments].name, EnumAsInt(EnumConstants[segments].type))>>
    [] OTHER -> <<>>

\* The first candidate that is declared, as a sequence of at most one.
FirstDeclared(candidates, lookup(_)) ==
  LET found == {i \in DOMAIN candidates : lookup(candidates[i]) # <<>>}
  IN  IF found = {} THEN <<>> ELSE <<candidates[Min(found)]>>

\* Mutant: a name that a local variable hides is not marked.
NeverDisambiguated(v, name) == FALSE

\* A root-relative name whose first segment is a local variable here.
RequiresDisambiguation(v, name) ==
  IsRootRelative(name) /\ LookupLocalIdentifier(v, name[2]) # <<>>

Attribute(v, p, decl, disambiguate) ==
  LET inst == Instance(v, decl.type)
  IN  [Typed(WithContext(v, inst.ctx), p, inst.ts[1]) EXCEPT
         !.attributes = (p :> [decl |-> decl, disambiguate |-> disambiguate]) @@ @]

-----------------------------------------------------------------------------
(***************************************************************************)
(* Field access.  CheckFieldType gives the type of a field as a sequence of *)
(* at most one; a type variable, free or not, is asked to take dyn.         *)
(***************************************************************************)
TypedDynamically(v, dyn) ==
  IF dyn.ok THEN [v |-> WithContext(v, dyn.ctx), type |-> <<DynType>>]
  ELSE [v |-> ReportError(v), type |-> <<>>]

CheckFieldType(v, t, field) ==
  LET name == Segments(t.name)
  IN  CASE t.k \in {"dyn", "any"} -> [v |-> v, type |-> <<DynType>>]
        [] t.k = "struct" /\ field \in DOMAIN TypeNames[name].fields ->
             [v |-> v, type |-> <<EnumAsInt(TypeNames[name].fields[field])>>]
        [] t.k = "map" -> [v |-> v, type |-> <<t.ps[2]>>]
        [] t.k = "param" -> TypedDynamically(v, IsAssignable(DynType, t, v.ctx))
        [] OTHER -> [v |-> ReportError(v), type |-> <<>>]

FieldOf(v, operand, name) ==
  CheckFieldType(v, IF IsOptional(operand) THEN operand.ps[1] ELSE operand, name)

TypedByField(p, operand, field) ==
  Typed(field.v, p,
        IF field.type = <<>> THEN ErrorType
        ELSE IF NodeAt(tree, p).t = "has" THEN BoolType
        ELSE IF IsOptional(operand) THEN OptionalType(field.type[1])
        ELSE field.type[1])

ResolveSelectOperation(v0, p) ==
  LET v       == Asked(v0, {Child(p, 1)})
      operand == Deduced(v, Child(p, 1))
  IN  TypedByField(p, operand, FieldOf(v, operand, NodeAt(tree, p).name))

\* The path of the n-th operand below a chain of selects.
OperandPath(p, n) == p \o [i \in 1 .. n |-> 1]

\* The name of the segments of a chain of selects that ends at p: a local
\* variable, or the longest declared candidate; what is left selects fields.
ResolveQualifiedIdentifier(v, p, name) ==
  LET n     == Len(WithoutRoot(name))
      local == IF IsRootRelative(name) THEN <<>> ELSE LookupLocalIdentifier(v, name[1])
      lookup(c) == LookupGlobalIdentifier(c.name)
      found == FirstDeclared(QualifiedCandidates(name), lookup)
      rest  == n - (IF local # <<>> THEN 1 ELSE found[1].at)
      decl  == IF local # <<>> THEN local[1] ELSE lookup(found[1])[1]
      root  == Attribute(v, OperandPath(p, rest), decl,
                         local = <<>> /\ RequiresDisambiguation(v, name))
      select(w, i) == ResolveSelectOperation(w, OperandPath(p, rest - i))
  IN  IF local = <<>> /\ found = <<>> THEN Failed(v, p)
      ELSE FoldLeft(select, root, [i \in 1 .. rest |-> i])

\* The chain of selects an identifier at p is the operand of: its root, the
\* selects on the way, and the receiver call its root is the target of, if any.
RECURSIVE SelectChain(_)
SelectChain(chain) ==
  LET up   == Parent(chain.root)
      node == NodeAt(tree, up)
  IN  IF chain.root = <<>> THEN chain
      ELSE IF node.t = "member" /\ chain.root = Child(up, 1)
           THEN [chain EXCEPT !.receiver = <<up>>]
      ELSE IF node.t = "select" THEN
           SelectChain([chain EXCEPT !.root = up, !.name = Append(@, node.name),
                                     !.selects = @ \cup {up}])
      ELSE IF node.t = "has" THEN
           [chain EXCEPT !.root = up, !.name = Append(@, node.name), !.selects = @ \cup {up}]
      ELSE chain

PostVisitIdent(v, p) ==
  LET chain == SelectChain([root |-> p, name |-> Segments(NodeAt(tree, p).name),
                            selects |-> {}, receiver |-> <<>>])
      put   == [v EXCEPT !.deferred = @ \cup chain.selects]
  IN  IF chain.receiver = <<>> THEN ResolveQualifiedIdentifier(put, chain.root, chain.name)
      ELSE [put EXCEPT !.namespaced = (chain.receiver[1] :> chain.name) @@ @]

PostVisitSelect(v, p) == IF p \in v.deferred THEN v ELSE ResolveSelectOperation(v, p)

-----------------------------------------------------------------------------
(***************************************************************************)
(* Calls.                                                                   *)
(***************************************************************************)
\* The first candidate declared with an overload of this shape.
ResolveFunctionCallShape(name, argc, isReceiver) ==
  LET lookup(c) ==
        IF c \notin DOMAIN FunctionDecls THEN <<>>
        ELSE LET d == FunctionDecls[c] IN
             IF \E i \in DOMAIN d.overloads :
                  Shaped(d.overloads[i], argc, isReceiver, IsLogicalOp(d.name, argc))
             THEN <<d>> ELSE <<>>
      found == FirstDeclared(SimpleCandidates(name), lookup)
  IN  IF found = <<>> THEN <<>> ELSE lookup(found[1])

Resolved(v, p, res, call) ==
  LET w == WithContext(v, res.ctx)
  IN  IF res.overloads = <<>> THEN Failed(w, p)
      ELSE [Typed(w, p, res.result) EXCEPT
              !.functions = (p :> (("overloads" :> res.overloads) @@ call)) @@ @]

ResolveFunctionOverloads(v0, p, decl, argPaths, isReceiver, isNamespaced) ==
  LET v == Asked(v0, ToSet(argPaths))
  IN  Resolved(v, p,
               ResolveOverload(decl, [i \in DOMAIN argPaths |-> Deduced(v, argPaths[i])],
                               isReceiver, v.ctx),
               [decl |-> decl, args |-> argPaths, namespaced |-> isNamespaced])

ArgPaths(p, first) == [i \in 1 .. Len(NodeAt(tree, p).args) + 1 - first |-> Child(p, first - 1 + i)]

\* operand.?field: the field is a string literal that loses its type, and the
\* call is resolved to all overloads of its function, if that is declared.
OptSelectResolution(args) ==
  IF <<"_?._">> \notin DOMAIN FunctionDecls THEN <<>>
  ELSE LET decl == FunctionDecls[<<"_?._">>]
       IN  <<[overloads |-> [i \in DOMAIN decl.overloads |-> decl.overloads[i].id],
              decl |-> decl, args |-> args, namespaced |-> FALSE]>>

TypedOptional(p, args, field) ==
  LET resolution == OptSelectResolution(args)
  IN  IF field.type = <<>> THEN Typed(field.v, p, ErrorType)
      ELSE [Typed(field.v, p, OptionalType(field.type[1])) EXCEPT
              !.types = [q \in DOMAIN @ \ {args[2]} |-> @[q]],
              !.functions = IF resolution = <<>> THEN @ ELSE (p :> resolution[1]) @@ @]

IsStringConst(node) == node.t = "const" /\ node.val.kind = "string"

\* The target of a call is no argument; the literal's text is its node's name.
HandleOptSelect(v0, p) ==
  LET args == ArgPaths(p, IF NodeAt(tree, p).t = "member" THEN 2 ELSE 1)
      v    == Asked(v0, {args[1]})
  IN  IF Len(args) # 2 \/ ~IsStringConst(NodeAt(tree, args[2]))
      THEN UpdateStatus(v0, "malformed")
      ELSE TypedOptional(p, args, FieldOf(v, Deduced(v, args[1]), NodeAt(tree, args[2]).name))

\* Mutant: the target stays unresolved.
TargetLeft(v, p) == v

ResolveTarget(v, p) == ResolveQualifiedIdentifier(v, Child(p, 1), v.namespaced[p])

\* A receiver call whose target is a chain of names is a call of a namespaced
\* function if there is one; else the target is resolved first.
NamespacedFunction(v, p) ==
  LET node == NodeAt(tree, p)
  IN  IF p \notin DOMAIN v.namespaced THEN <<>>
      ELSE ResolveFunctionCallShape(Append(v.namespaced[p], node.name), Len(node.args) - 1, FALSE)

ResolveFunction(v, p, namespaced) ==
  LET node       == NodeAt(tree, p)
      isReceiver == node.t = "member" /\ namespaced = <<>>
      decl       == IF namespaced # <<>> THEN namespaced
                    ELSE ResolveFunctionCallShape(Segments(node.name), Len(node.args), isReceiver)
  IN  IF decl = <<>> THEN Failed(v, p)
      ELSE ResolveFunctionOverloads(v, p, decl[1],
             ArgPaths(p, IF namespaced = <<>> THEN 1 ELSE 2), isReceiver, namespaced # <<>>)

ResolveCall(v, p, namespaced) ==
  ResolveFunction(IF p \in DOMAIN v.namespaced /\ namespaced = <<>>
                  THEN ResolveTarget(v, p) ELSE v,
                  p, namespaced)

PostVisitCall(v, p) ==
  IF NodeAt(tree, p).name = "_?._" THEN HandleOptSelect(v, p)
  ELSE ResolveCall(v, p, NamespacedFunction(v, p))

-----------------------------------------------------------------------------
(***************************************************************************)
(* Literals.                                                                *)
(***************************************************************************)
PostVisitConst(v, p) == Typed(v, p, Simple(NodeAt(tree, p).val.kind))

\* The types of the elements at some positions; a ?-element that is not an
\* optional is an error and is left out.
ElementTypes(v, p, positions) ==
  LET optional(i) == i \in NodeAt(tree, p).optional
      type(i)     == Deduced(v, Child(p, i))
      bad         == {i \in ToSet(positions) : optional(i) /\ ~IsOptional(type(i))}
      good        == SelectSeq(positions, LAMBDA i : i \notin bad)
  IN  [types |-> [j \in DOMAIN good |-> IF optional(good[j]) THEN type(good[j]).ps[1]
                                        ELSE type(good[j])],
       errors |-> Cardinality(bad)]

\* The elements are checked one after the other against one type, which
\* becomes dyn when one does not fit; bindings made before that are kept for
\* the checks that follow.
Coalesce(types, overall, ctx) ==
  LET next(acc, t) ==
        LET after(a) == [overall |-> IF a.ok THEN acc.overall ELSE DynType, subs |-> a.subs]
        IN  after(IsAssignableInternal(t, acc.overall, acc.subs, ctx))
  IN  FoldLeft(next, [overall |-> overall, subs |-> NoSubstitutions], types)

\* ... and committed unless the type is dyn.
CoalesceAndCommit(types, overall, ctx) ==
  LET commit(c) ==
        [overall |-> c.overall,
         ctx |-> IF c.overall = DynType THEN ctx ELSE UpdateTypeParameterBindings(c.subs, ctx)]
  IN  commit(Coalesce(types, overall, ctx))

\* The same, but each check is committed on its own (PostVisitMap's values).
CoalesceEach(types, overall, ctx) ==
  LET next(acc, t) ==
        LET after(a) == [overall |-> IF a.ok THEN acc.overall ELSE DynType, ctx |-> a.ctx]
        IN  after(IsAssignable(t, acc.overall, acc.ctx))
  IN  FoldLeft(next, [overall |-> overall, ctx |-> ctx], types)

IsBlock(node) == node.t = "call" /\ node.name = "cel.@block"
IsBlockList(p) == p = <<1>> /\ IsBlock(tree)

\* A literal in a context where its elements were coalesced, with the errors
\* found among them.
TypedLiteral(v, p, type, ctx, errors) ==
  Typed([WithContext(Asked(v, ToSet(ArgPaths(p, 1))), ctx) EXCEPT !.errors = @ + errors],
        p, FullySubstitute(type, ctx))

PostVisitList(v, p) ==
  LET elems     == ElementTypes(v, p, [i \in DOMAIN NodeAt(tree, p).args |-> i])
      elem      == Instance(v, TypeParam("E"))
      typed(all) == TypedLiteral(v, p, ListType(all.overall), all.ctx, elems.errors)
  IN  IF IsBlockList(p) THEN Typed(v, p, ListType(DynType))
      ELSE typed(CoalesceAndCommit(elems.types, elem.ts[1], elem.ctx))

PostVisitMap(v, p) ==
  LET n      == Len(NodeAt(tree, p).args) \div 2
      keys   == [i \in 1 .. n |-> Deduced(v, Child(p, 2 * i - 1))]
      values == ElementTypes(v, p, [i \in 1 .. n |-> 2 * i])
      inst   == InstantiateTypeParams(<<TypeParam("K"), TypeParam("V")>>, v.ctx)
      typed(key, value) ==
        TypedLiteral(v, p, MapType(key.overall, value.overall), value.ctx, values.errors)
      keyed(key) == typed(key, CoalesceEach(values.types, inst.ts[2], key.ctx))
  IN  keyed(CoalesceAndCommit(keys, inst.ts[1], inst.ctx))

CheckFieldAssignment(v, p, i, fields) ==
  LET node == NodeAt(tree, p)
      name == node.fields[i]
      type == IF i \in node.optional THEN OptionalType(fields[name]) ELSE fields[name]
      w    == Asked(v, {Child(p, i)})
  IN  IF name \notin DOMAIN fields THEN ReportError(w)
      ELSE CheckAssignable(w, Deduced(v, Child(p, i)), type)

PostVisitStruct(v, p) ==
  LET node  == NodeAt(tree, p)
      lookup(c) == IF c \in DOMAIN TypeNames THEN <<TypeNames[c]>> ELSE <<>>
      found == FirstDeclared(SimpleCandidates(Segments(node.name)), lookup)
      type  == lookup(found[1])[1]
      typed == [Typed(v, p, type.type) EXCEPT
                  !.structTypes = (p :> type.name) @@ @]
      field(w, i) == CheckFieldAssignment(w, p, i, type.fields)
  IN  \* Not the name of a type, or of one of which there are no messages.
      IF found = <<>> \/ (type.type.k # "struct" /\ ~type.wellKnown) THEN Failed(v, p)
      ELSE FoldLeft(field, typed, [i \in DOMAIN node.args |-> i])

-----------------------------------------------------------------------------
(***************************************************************************)
(* Comprehensions: iter_range, accu_init, loop_condition, loop_step and     *)
(* result are the parts 1 to 5.                                             *)
(***************************************************************************)
PreVisitComprehension(v, p) ==
  [v EXCEPT !.scopes = Append(@, [parent |-> v.scope, accu |-> <<>>, iter |-> <<>>])]

PartScope(s, part) ==
  CASE part \in {3, 5} -> s.parent \o s.accu
    [] part = 4 -> s.parent \o s.accu \o s.iter
    [] OTHER -> s.parent

PreVisitPart(v, part) == [v EXCEPT !.scope = PartScope(Last(v.scopes), part)]

WithAccu(v, p, type) ==
  [v EXCEPT !.scopes[Len(v.scopes)].accu = <<Local(NodeAt(tree, p).accu, type, p)>>]

\* The types of the iteration variables; a range whose type is not known yet
\* is made dyn.
RangeChecked(v, range) ==
  CASE range.k = "param" -> WithContext(v, IsAssignable(DynType, range, v.ctx).ctx)
    [] range.k \in {"list", "map", "dyn", "error"} -> v
    [] OTHER -> ReportError(v)

IterationVars(p, range) ==
  LET c     == NodeAt(tree, p)
      types == CASE range.k = "list" -> <<range.ps[1], IntType, range.ps[1]>>
                 [] range.k = "map"  -> <<range.ps[1], range.ps[1], range.ps[2]>>
                 [] OTHER -> <<DynType, DynType, DynType>>
  IN  IF c.iter2 = "" THEN <<Local(c.iter, types[1], p)>>
      ELSE IF c.iter2 = c.iter THEN <<Local(c.iter, types[2], p)>>
      ELSE <<Local(c.iter, types[2], p), Local(c.iter2, types[3], p)>>

WithIterVars(v, iter) == [v EXCEPT !.scopes[Len(v.scopes)].iter = iter]

WithIter(v, p) ==
  LET with(range) == WithIterVars(RangeChecked(v, range), IterationVars(p, range))
  IN  with(FullySubstitute(Deduced(v, Child(p, 1)), v.ctx))

PostVisitPart(v0, path) ==
  LET p    == Parent(path)
      part == Last(path)
      v    == [Asked(v0, IF part \in 1 .. 3 THEN {path} ELSE {}) EXCEPT
                 !.scope = Last(v0.scopes).parent]
  IN  CASE part = 1 -> WithIter(v, p)
        [] part = 2 -> WithAccu(v, p, Deduced(v, path))
        [] part = 3 -> CheckAssignable(v, Deduced(v, path), BoolType)
        [] OTHER -> v

PostVisitComprehension(v, p) ==
  LET w == Asked(v, {Child(p, 5)})
  IN  Typed([w EXCEPT !.scopes = Front(@)], p, FullySubstitute(Deduced(w, Child(p, 5)), w.ctx))

\* PostVisitExpr: an element of a block's list comes into scope after it.
HandleBlockIndex(v, p) ==
  IF Len(p) # 2 \/ ~IsBlockList(Parent(p)) THEN v
  ELSE [Asked(v, {p}) EXCEPT
          !.scope = Append(@, Local(BlockName(p[2]), FinalizeType(Deduced(v, p), v.ctx), p))]

-----------------------------------------------------------------------------
(***************************************************************************)
(* CheckImpl: one action for each callback of the visitor.                  *)
(***************************************************************************)
Init ==
  /\ tree \in Trees
  /\ expected \in Expected
  /\ stack = Create
  /\ steps = 0
  /\ vis = InitialVisitor
  /\ outcome = "none"

Looping ==
  /\ outcome = "none" /\ stack # <<>> /\ steps < 2 * MaxNodes
  /\ vis.status = "ok" /\ vis.errors <= MaxErrors

Stepped(v, st) ==
  /\ vis' = v
  /\ stack' = st
  /\ steps' = steps + 1
  /\ UNCHANGED <<tree, expected, outcome>>

Top     == Head(stack)
TopNode == NodeAt(tree, Top.path)

PreVisit ==
  /\ Looping
  /\ ~Top.visited
  /\ Stepped(CASE Top.kind = "part" -> PreVisitPart(vis, Last(Top.path))
               [] Top.kind = "expr" /\ TopNode.t = "compr" -> PreVisitComprehension(vis, Top.path)
               [] OTHER -> vis,
             PushDependencies(stack, tree))

\* An expression of kind t whose children are done.
PostVisit(ts, handler(_, _)) ==
  /\ Looping
  /\ Top.visited /\ Top.kind = "expr" /\ TopNode.t \in ts
  /\ Stepped(HandleBlockIndex(handler(vis, Top.path), Top.path), Tail(stack))

VisitConst         == PostVisit({"const"}, PostVisitConst)
VisitIdent         == PostVisit({"ident"}, PostVisitIdent)
VisitSelect        == PostVisit({"select", "has"}, PostVisitSelect)
VisitCall          == PostVisit({"call", "member"}, PostVisitCall)
VisitList          == PostVisit({"list"}, PostVisitList)
VisitMap           == PostVisit({"map"}, PostVisitMap)
VisitStruct        == PostVisit({"struct"}, PostVisitStruct)
VisitComprehension == PostVisit({"compr"}, PostVisitComprehension)

\* ResolveVisitor does nothing after an argument.
VisitArg ==
  /\ Looping
  /\ Top.visited /\ Top.kind = "arg"
  /\ Stepped(vis, Tail(stack))

VisitPart ==
  /\ Looping
  /\ Top.visited /\ Top.kind = "part"
  /\ Stepped(PostVisitPart(vis, Top.path), Tail(stack))

\* AssertExpectedType, when the whole tree was checked.
Asserted ==
  IF expected = <<>> THEN vis
  ELSE CheckAssignable(Asked(vis, {<<>>}), Deduced(vis, <<>>), expected[1])

Conclude ==
  /\ outcome = "none" /\ ~Looping
  /\ LET limit == vis.errors > MaxErrors
         ok    == vis.status = "ok"
     IN  /\ vis' = IF ok /\ stack = <<>> /\ ~limit THEN Asserted ELSE vis
         /\ outcome' = IF ~ok THEN vis.status
                       ELSE IF stack # <<>> /\ ~limit THEN "too_many_nodes"
                       ELSE IF vis'.errors > 0 THEN "rejected" ELSE "accepted"
  /\ UNCHANGED <<tree, expected, stack, steps>>

Next ==
  \/ PreVisit \/ VisitConst \/ VisitIdent \/ VisitSelect \/ VisitCall \/ VisitList
  \/ VisitMap \/ VisitStruct \/ VisitComprehension \/ VisitArg \/ VisitPart \/ Conclude

Spec == Init /\ [][Next]_vars

-----------------------------------------------------------------------------
(***************************************************************************)
(* ResolveRewriter: the tree with the resolved names, and the type map.     *)
(***************************************************************************)
FinalType(p) == FinalizeType(vis.types[p], vis.ctx)

RootRelative(name) ==
  CHOOSE n \in DOMAIN Spelling : Spelling[n] = <<".">> \o Segments(name)

RewrittenName(a) == IF a.disambiguate THEN RootRelative(a.decl.name) ELSE a.decl.name

RECURSIVE Rewritten(_)
Rewritten(p) ==
  LET node == NodeAt(tree, p)
      kids == [node EXCEPT !.args = [i \in DOMAIN @ |-> Rewritten(Child(p, i))]]
  IN  IF p \in DOMAIN vis.attributes THEN Ident(RewrittenName(vis.attributes[p]))
      ELSE IF p \in DOMAIN vis.functions
           THEN LET f == vis.functions[p] IN
                [kids EXCEPT !.name = f.decl.name,
                             !.t    = IF f.namespaced THEN "call" ELSE @,
                             !.args = IF f.namespaced THEN Tail(@) ELSE @]
      ELSE IF p \in DOMAIN vis.structTypes THEN [kids EXCEPT !.name = vis.structTypes[p]]
      ELSE kids
=============================================================================
