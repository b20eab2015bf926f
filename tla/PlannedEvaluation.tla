------------------------- MODULE PlannedEvaluation -------------------------
(***************************************************************************)
(* Planner and evaluator together: each program the machine runs is what    *)
(* FlatExprBuilder makes of an AST, so that the properties are about        *)
(* expressions and not about hand-written steps.                            *)
(***************************************************************************)
EXTENDS StackDiscipline, FlatExprBuilder, CelSemantics

CONSTANT Cases    \* sequence of [ast, opt]: expressions and planner options

\* A definition rather than the constant, so that TLC evaluates it once.
CaseTable == Cases

\* Planner options that differ in what the properties are about.
PlannerOptions(shortCircuiting, listAppend, inlining, unknowns) ==
  [shortCircuiting |-> shortCircuiting, listAppend |-> listAppend, inlining |-> inlining,
   unknowns |-> unknowns, constantFolding |-> FALSE, maxIterations |-> 0]

\* The programs of the cases; planning an expression that is rejected gives
\* no program, so such cases are left out before.
PlannedPrograms ==
  LET cases == Cases
  IN  [i \in DOMAIN cases |-> CreateExpression(cases[i].ast, cases[i].opt)]

\* Programs from elsewhere may follow those of the cases.
ASSUME CasesAssumption == SubSeq(Programs, 1, Len(Cases)) = PlannedPrograms

(***************************************************************************)
(* The certificate of a program, inferred: the heights and the loops at a   *)
(* position are those any earlier step that leads there gives it.           *)
(***************************************************************************)
\* The value of f at each of the first n positions; a sequence and not the
\* function, so that TLC evaluates it once.
Tabulated(n, f(_)) == <<>> \o [i \in 1 .. n |-> f(i)]

\* The steps that lead to position q.
Origins(code) ==
  LET targets == Tabulated(Len(code), LAMBDA i : {e.pc : e \in Edges(code[i], i - 1, 0, 0)})
  IN  Tabulated(Len(code) + 1, LAMBDA i : {r \in DOMAIN code : i - 1 \in targets[r]})

RECURSIVE Heights(_, _, _)
Heights(code, origins, known) ==
  LET q    == Len(known)
      into == {e \in UNION {Edges(code[r], r - 1, known[r].depth, known[r].iters) :
                              r \in origins[q + 1] \cap (1 .. q)} : e.pc = q}
  IN  IF q > Len(code) THEN known
      ELSE Heights(code, origins, Append(known, IF into = {} THEN [pc |-> q, depth |-> 0, iters |-> 0]
                                                ELSE CHOOSE e \in into : TRUE))

RECURSIVE Loops(_, _, _, _)
Loops(p, code, origins, known) ==
  LET q    == Len(known)
      into == {e \in UNION {Flows(p, code[r], r - 1, known[r], {}) :
                              r \in origins[q + 1] \cap (1 .. q)} : e.pc = q}
  IN  IF q > Len(code) THEN known
      ELSE Loops(p, code, origins,
                 Append(known, IF into = {} THEN <<>> ELSE (CHOOSE e \in into : TRUE).loops))

\* One pass over path k that adds to the owners at each position (one after
\* the other in done, and in known before the pass) what leads there.
RECURSIVE OwnersAlong(_, _, _, _, _, _)
OwnersAlong(p, k, loops, origins, known, done) ==
  LET q     == Len(done)
      code  == p.paths[k]
      at(r) == IF r <= q THEN done[r] ELSE known[k][r]
      end(r) == known[code[r].sub][Len(p.paths[code[r].sub]) + 1]
      flows(r) == {e \in Flows(p, code[r], r - 1, loops[r], at(r)) : e.pc = q}
      lazy  == {r \in origins[q + 1] : code[r].op = "kLazyInit"}
      calls == {x \in UNION {{<<j, r>> : r \in DOMAIN p.paths[j]} : j \in DOMAIN p.paths} :
                  LET call == p.paths[x[1]][x[2]] IN call.op = "kLazyInit" /\ call.sub = k}
  IN  IF q > Len(code) THEN done
      ELSE OwnersAlong(p, k, loops, origins, known,
             Append(done, UNION ({known[k][q + 1]}
                                 \cup {UNION {e.owners : e \in flows(r)} : r \in origins[q + 1]}
                                 \cup {Returned(end(r), code[r]) : r \in lazy}
                                 \cup (IF q > 0 THEN {} ELSE {known[x[1]][x[2]] : x \in calls}))))

\* Passes over all paths until nothing is new.
RECURSIVE Owners(_, _, _, _)
Owners(p, loops, origins, known) ==
  LET next == Tabulated(Len(p.paths), LAMBDA k :
                          OwnersAlong(p, k, loops[k], origins[k], known, <<>>))
  IN  IF next = known THEN known ELSE Owners(p, loops, origins, next)

\* The most path k adds, given the heights at the positions of all the paths.
RECURSIVE Capacity(_, _, _)
Capacity(paths, heights, k) ==
  Max({heights[k][q] : q \in DOMAIN heights[k]}
      \cup {heights[k][q] + Capacity(paths, heights, paths[k][q + 1].sub) :
             q \in {r \in 0 .. Len(paths[k]) - 1 : paths[k][r + 1].op = "kLazyInit"}})

Certificate(p) ==
  LET n     == Len(p.paths)
      from  == Tabulated(n, LAMBDA k : Origins(p.paths[k]))
      enter == [pc |-> 0, depth |-> 0, iters |-> 0]
      all   == Tabulated(n, LAMBDA k : Heights(p.paths[k], from[k], <<enter>>))
      loops == Tabulated(n, LAMBDA k : Loops(p, p.paths[k], from[k], <<<<>>>>))
      owners == Owners(p, loops, from, Tabulated(n, LAMBDA k :
                         Tabulated(Len(p.paths[k]) + 1, LAMBDA q : {})))
      at(k, f(_)) == [q \in 0 .. Len(p.paths[k]) |-> f(q + 1)]
      depth == [k \in 1 .. n |-> at(k, LAMBDA i : all[k][i].depth)]
      iters == [k \in 1 .. n |-> at(k, LAMBDA i : all[k][i].iters)]
  IN  [depth  |-> depth, iters |-> iters,
       cap    |-> [k \in 1 .. n |-> Capacity(p.paths, depth, k)],
       icap   |-> [k \in 1 .. n |-> Capacity(p.paths, iters, k)],
       loops  |-> [k \in 1 .. n |-> at(k, LAMBDA i : loops[k][i])],
       owners |-> [k \in 1 .. n |-> at(k, LAMBDA i : owners[k][i])]]

InferredCertificates ==
  LET programs == Programs IN [i \in DOMAIN programs |-> Certificate(programs[i])]

\* A lazily initialised variable shares its slot with an iteration variable.
ReusesIterationSlot(p) ==
  \E i, j \in DOMAIN p.paths : \E k \in DOMAIN p.paths[i], l \in DOMAIN p.paths[j] :
    LET lazy == p.paths[i][k]
        init == p.paths[j][l]
    IN  /\ lazy.op = "kLazyInit"
        /\ init.op = "kComprehensionInit"
        /\ lazy.slot \in init.slot .. init.slot + (IF init.v2 THEN 1 ELSE 0)

-----------------------------------------------------------------------------
\* What the identifiers may stand for in an evaluation: one choice for each.
IdentifierValue(a, x, found) ==
  IF UnknownsEnabled /\ x \in a.unknown THEN Scalar(UnknownValue({x}))
  ELSE IF found = Unbound THEN Scalar(ErrorValue(kNoSuchVariable))
  ELSE Denoted(a.arena, found)

Environments(a) ==
  LET choices == {f \in [Identifiers -> UNION {a.vars[x] : x \in Identifiers}] :
                    \A x \in Identifiers : f[x] \in a.vars[x] \ {Failing}}
  IN  {[x \in Identifiers |-> IdentifierValue(a, x, f[x])] : f \in choices}

\* An evaluation that ends well yields what the expression denotes, for one
\* value of each identifier: jumps, slots, lazy initialisation, in-place list
\* appends and the reuse of the evaluator state by the next evaluation
\* (Evaluate, EvaluateWithCallback) do not change the result.
OutcomeIsDenotation ==
  (phase = "idle" /\ outcome.status = "ok" /\ program \in DOMAIN CaseTable) =>
    Denoted(arena, outcome.value) \in
      {Denote(CaseTable[program].ast, env,
              [functionUnknowns |-> FunctionUnknowns, provided |-> activation.functions]) :
         env \in Environments(activation)}

\* The planner's program keeps the stack discipline: the branches into every
\* step agree on the heights of the stacks, every step finds the arguments it
\* takes, every jump stays in its path, and EstimateMaxStackSize and
\* IterStackRequirement cover the most the paths can push, with what they
\* call; no step clears a slot FinishExpression gave to an identifier; and on
\* every way to a lazily initialised variable its slot is empty or its own.
\* Checked once per program, before it is first evaluated.
PlanIsCertified ==
  evaluations = 0 => WellFormed(P, C) /\ IdentifiersKeepSlots(P) /\ SlotsAreOwned(P, C)

\* An evaluator state that is used again is as good as new: whatever ended the
\* evaluation before (a provider, function or iterator that failed, the listener,
\* the budget) and whichever loops and callers it left behind, a
\* planned program starts on empty stacks and keeps to its certified heights
\* (Reset, EvaluateWithCallback).
ReuseKeepsDiscipline == program \in DOMAIN CaseTable => StackInv

\* An evaluation that is stopped for its number of iterations made more of
\* them than max_iterations allows, as runtime_options.h has it.
BudgetIsUsable == abortStatus = "budget" => iterations > P.maxIterations

\* Every evaluation that starts comes to an end (Interpret runs out of steps).
EvaluationTerminates == (phase # "idle") ~> (phase = "idle")
=============================================================================
