---------------------------- MODULE CelSemantics ----------------------------
(***************************************************************************)
(* What an expression denotes, as a function of the values of its free      *)
(* identifiers: no steps, jumps, slots, stacks or arena, every variable a   *)
(* plain substitution and every subexpression evaluated.  This is the       *)
(* reference the planned program is compared with.                          *)
(*                                                                         *)
(* A denotation is a value with its entries written out: [kind, n, unknowns,*)
(* entries], entries a sequence of [key, val] for a list or a map.          *)
(***************************************************************************)
EXTENDS CelMacros, SequencesExt

Pure(v, entries) ==
  [kind |-> v.kind, n |-> IF IsContainer(v) THEN 0 ELSE v.n, unknowns |-> v.unknowns,
   entries |-> entries]

Scalar(v) == Pure(v, <<>>)

\* The value v denotes in an arena.
RECURSIVE Denoted(_, _)
Denoted(arena, v) ==
  Pure(v, IF ~IsContainer(v) THEN <<>>
          ELSE [i \in 1 .. Len(arena[v.n]) |->
                  [key |-> Denoted(arena, arena[v.n][i].key),
                   val |-> Denoted(arena, arena[v.n][i].val)]])

NoOverload == Scalar(ErrorValue(kNoMatchingOverload))

PureList(elements) ==
  Pure(ListValue(0),
       [i \in 1 .. Len(elements) |->
          [key |-> Scalar(IntValue(i - 1)), val |-> elements[i]]])

Elements(v) == [i \in DOMAIN v.entries |-> v.entries[i].val]

\* A strict operation: the first error, else all the unknowns, else f.
StrictOp(args, result) ==
  IF AnyError(args) THEN FirstError(args)
  ELSE IF AnyUnknown(args) THEN Scalar(MergeUnknowns(args)) ELSE result

\* && and ||: commutative up to which error is reported, and one argument
\* that decides is enough, whatever the others are.
Logic(args, deciding) ==
  LET bad == {i \in DOMAIN args : args[i].kind \notin {"bool", "unknown"}}
      first == args[CHOOSE i \in bad : \A j \in bad : i <= j]
  IN  CASE \E i \in DOMAIN args : args[i] = Scalar(BoolValue(deciding)) ->
             Scalar(BoolValue(deciding))
        [] OTHER -> IF AnyUnknown(args) THEN Scalar(MergeUnknowns(args))
                    ELSE IF bad = {} THEN Scalar(BoolValue(~deciding))
                    ELSE IF IsError(first) THEN first ELSE NoOverload

\* A condition that is not a bool is the result of the whole expression.
Undecided(c) == IF IsError(c) \/ IsUnknown(c) THEN c ELSE NoOverload

PlusOp(x, y) ==
  CASE x.kind = "int" /\ y.kind = "int" -> Scalar(CheckedAdd(x.n, y.n))
    [] x.kind = "list" /\ y.kind = "list" -> PureList(Elements(x) \o Elements(y))
    [] OTHER -> NoOverload

InOp(x, y) ==
  CASE y.kind = "list" -> Scalar(BoolValue(Contains(Elements(y), x)))
    [] y.kind = "map" /\ x.kind \in {"bool", "int"} ->
         Scalar(BoolValue(\E i \in DOMAIN y.entries : y.entries[i].key = x))
    [] OTHER -> NoOverload

\* rt.functionUnknowns: a pending function yields an unknown, else an error;
\* rt.provided: the implementations the activation provides.
Apply(f, args, rt) ==
  CASE f = "_&&_"  -> Logic(args, FALSE)
    [] f = "_||_"  -> Logic(args, TRUE)
    [] f = "_?_:_" -> IF IsTrue(args[1]) THEN args[2]
                      ELSE IF IsFalse(args[1]) THEN args[3] ELSE Undecided(args[1])
    [] f = "@not_strictly_false" ->
         IF IsBool(args[1]) THEN args[1]
         ELSE IF IsError(args[1]) \/ IsUnknown(args[1]) THEN Scalar(BoolValue(TRUE))
         ELSE NoOverload
    [] f = "!_"   -> StrictOp(args, IF IsBool(args[1]) THEN Scalar(BoolValue(IsFalse(args[1])))
                                    ELSE NoOverload)
    [] f = "_==_" -> StrictOp(args, Scalar(BoolValue(args[1] = args[2])))
    [] f = "_!=_" -> StrictOp(args, Scalar(BoolValue(args[1] # args[2])))
    [] f = "@in"  -> StrictOp(args, InOp(args[1], args[2]))
    [] f = "_+_"  -> StrictOp(args, PlusOp(args[1], args[2]))
    [] f = "plus" -> StrictOp(args, IF "add" \in rt.provided THEN PlusOp(args[1], args[2])
                                                             ELSE NoOverload)
    [] f = "is_err" -> Scalar(BoolValue(AnyError(args)))
    [] f = "pending" ->
         StrictOp(args, IF rt.functionUnknowns THEN Scalar(UnknownValue({"pending"}))
                                            ELSE Scalar(ErrorValue(kUnavailable)))

\* The environment with x bound to v.
Bound(env, x, v) == [y \in DOMAIN env \cup {x} |-> IF y = x THEN v ELSE env[y]]

RECURSIVE Denote(_, _, _)

DenoteAll(es, env, rt) == [i \in DOMAIN es |-> Denote(es[i], env, rt)]

\* The loop of a comprehension from its i-th entry, accu being the accumulator.
RECURSIVE Loop(_, _, _, _, _, _)
Loop(c, entries, i, accu, env, rt) ==
  LET outer == Bound(env, c.accu, accu)
      it    == entries[i]
      inner == IF c.iter2 = "" THEN Bound(outer, c.iter, it.val)
               ELSE Bound(Bound(outer, c.iter, it.key), c.iter2, it.val)
      cond  == Denote(c.args[3], inner, rt)
  IN  IF i > Len(entries) THEN Denote(c.args[5], outer, rt)
      ELSE IF IsFalse(cond) THEN Denote(c.args[5], outer, rt)
      ELSE IF IsTrue(cond)
           THEN Loop(c, entries, i + 1, Denote(c.args[4], inner, rt), env, rt)
      ELSE Undecided(cond)

\* One variable iterates over the elements of a list and the keys of a map.
IterationEntries(c, range) ==
  IF range.kind = "map" /\ c.iter2 = ""
  THEN [i \in DOMAIN range.entries |-> [key |-> range.entries[i].key,
                                        val |-> range.entries[i].key]]
  ELSE range.entries

RECURSIVE DenoteBlock(_, _, _, _)
DenoteBlock(bindings, i, env, rt) ==
  IF i > Len(bindings) THEN env
  ELSE DenoteBlock(bindings, i + 1,
                   Bound(env, BlockName(i), Denote(bindings[i], env, rt)), rt)

Denote(e, env, rt) ==
  CASE e.t = "const" -> Scalar(e.val)
    [] e.t = "ident" -> env[e.name]
    [] e.t = "list"  -> LET args == DenoteAll(e.args, env, rt)
                        IN  StrictOp(args, PureList(args))
    [] e.t = "call" /\ e.name = "cel.@block" ->
         Denote(e.args[2], DenoteBlock(e.args[1].args, 1, env, rt), rt)
    [] e.t = "call" /\ e.name # "cel.@block" ->
         Apply(e.name, DenoteAll(e.args, env, rt), rt)
    [] e.t = "compr" ->
         LET range == Denote(e.args[1], env, rt) IN
         IF ~IsContainer(range) THEN Undecided(range)
         ELSE Loop(e, IterationEntries(e, range), 1, Denote(e.args[2], env, rt), env, rt)
=============================================================================
