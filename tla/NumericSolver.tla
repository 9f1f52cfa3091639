---------------------------- MODULE NumericSolver ----------------------------
(***************************************************************************)
(* Goals about numeric types, rewritten to simpler goals under assumptions *)
(* until they are solved, found unsolvable, or stuck: quickSolver of       *)
(* src/Cryptol/TypeCheck/Solve.hs with simplifyStep and the rules of       *)
(* Solver/Numeric.hs and Solver/Numeric/Fin.hs, of which NumericRules has  *)
(* those that build no types; the loop itself is in QuickSolver.           *)
(***************************************************************************)
EXTENDS SimpType, QuickSolver, FiniteSets, SequencesExt

CONSTANT FreeTVar           \* the variables that inference may still choose

ASSUME SolverAssumption == FreeTVar \subseteq TVar

-----------------------------------------------------------------------------
(* The rules that build types, and the order of all of them *)

Relation(rel, x, y) == <<rel, x, y>>

Vars(t) == LET leaves(u) == IF tIsVar(u) THEN {u[2]} ELSE {}
               below(u) == IF IsLeaf(u) THEN leaves(u)
                           ELSE UNION {leaves(Arg(u, n)) : n \in 1 .. 3}
           IN  IF IsLeaf(t) THEN leaves(t) ELSE UNION {below(Arg(t, n)) : n \in 1 .. 3}
noFreeVariables(t) == Vars(t) \cap FreeTVar = {}
aFreeTVar(t) == tIsVar(t) /\ t[2] \in FreeTVar

tryAddConst_OtherSide(rel, l, r) ==
  Try(IsSumK(l) /\ IsSumK(r),
      LET k1 == l[2][2]  k2 == r[2][2]
      IN  SolvedIf(<<IF k1 > k2 THEN Relation(rel, l[3], tAdd(Num(k1 - k2), r[3]))
                                ELSE Relation(rel, tAdd(Num(k2 - k1), l[3]), r[3])>>))

tryAddConst(rel, l, r) ==
  Try(IsSumK(l) /\ IsSumK(r),
      LET k1 == l[2][2]  k2 == r[2][2]
      IN  SolvedIf(<<IF k1 > k2 THEN Relation(rel, tAdd(Num(k1 - k2), l[3]), r[3])
                                ELSE Relation(rel, l[3], tAdd(Num(k2 - k1), r[3]))>>))

\* Products are split into factors, and the first variable (they are sorted) that
\* both sides have and that is positive and finite is dropped from both.
RECURSIVE splitMul(_)
splitMul(t) == IF tIs("Mul", t) THEN splitMul(t[2]) \o splitMul(t[3]) ELSE <<t>>
term(fs) == IF fs = <<>> THEN Num(1)
            ELSE FoldRight(LAMBDA f, acc : tMul(f, acc), Front(fs), Last(fs))
tryCancelVar(rel, l, r) ==
  LET Cancellable(x) == iIsPosFin(tvarInterval(intervals, x))
      common == {x \in TVar : Cancellable(x) /\ Contains(splitMul(l), Var(x))
                                             /\ Contains(splitMul(r), Var(x))}
      least  == Var(CHOOSE x \in common : \A y \in common : x <= y)
  IN  Try(common # {}, SolvedIf(<<Relation(rel, term(RemoveFirst(splitMul(l), least)),
                                                term(RemoveFirst(splitMul(r), least)))>>))

-----------------------------------------------------------------------------
(* t1 >= t2 *)

cryIsGeq(x, y) == FirstMatch(<<
  pBin(x, y, Leq(y[2], x[2])),
  IF aNat0(x) THEN tryGeqKThan(y, x[2]) ELSE NoMatch,
  IF aNat0(y) THEN tryGeqThanK(x, y[2]) ELSE NoMatch,
  tryGeqThanVar(x, y), tryGeqThanSub(x, y), geqByInterval(x, y), trySame(x, y),
  tryAddConst("geq", x, y), tryCancelVar("geq", x, y), tryMinIsGeq(x, y)>>)

-----------------------------------------------------------------------------
(* t1 = t2 *)

\* The rules of tryEqVar; the third is for a = K + min a t.
tryEqPlusMin(ty, x) ==
  LET AddTo(t) == SolvedIf(<<Equal(x, tAdd(ty[2], t))>>)
  IN  IF IsSumK(ty) /\ ty[2][2] >= 1 /\ tIs("Min", ty[3])
      THEN Either(Try(ty[3][2] = x, AddTo(ty[3][3])), Try(ty[3][3] = x, AddTo(ty[3][2])))
      ELSE NoMatch
tryEqVar(ty, x) == FirstOf(<<tryEqPlus(ty, x), tryEqMinPlus(ty, x), tryEqPlusMin(ty, x)>>)

\* t1 = min (K + t1) t2, also in a minimum of several terms
RECURSIVE splitMin(_)
splitMin(t) == IF tIs("Min", t) THEN splitMin(t[2]) \o splitMin(t[3]) ELSE <<t>>
tryEqMins_Unchanged(x, y) ==
  LET IsGt(t) == IsSumK(t) /\ t[2][2] > 0 /\ t[3] = x
      kept == SelectSeq(splitMin(y), LAMBDA t : ~IsGt(t))
      rest == IF kept = <<>> THEN Num(Inf) ELSE FoldRight(LAMBDA t, acc : tMin(t, acc), Front(kept), Last(kept))
  IN  IF ~tIs("Min", y) THEN NoMatch
      ELSE IF Len(kept) <= Len(splitMin(y)) THEN SolvedIf(<<Equal(x, rest)>>) ELSE Unsolved

tryEqMins(x, y) ==
  LET IsGt(t) == IsSumK(t) /\ t[2][2] > 0 /\ t[3] = x
      kept == SelectSeq(splitMin(y), LAMBDA t : ~IsGt(t))
      rest == IF kept = <<>> THEN Num(Inf) ELSE FoldRight(LAMBDA t, acc : tMin(t, acc), Front(kept), Last(kept))
  IN  IF ~tIs("Min", y) THEN NoMatch
      ELSE IF Len(kept) < Len(splitMin(y)) THEN SolvedIf(<<Equal(x, rest)>>) ELSE Unsolved

\* matchLinear: a number plus terms with a factor that is a number
RECURSIVE Linear(_), Parts(_)
Linear(t) == aNat(t) \/ (tIs("Mul", t) /\ aNat(t[2]))
             \/ (tIs("Add", t) /\ Linear(t[2]) /\ Linear(t[3]))
Parts(t) == IF tIs("Add", t) THEN Parts(t[2]) \o Parts(t[3])
            ELSE IF aNat(t) THEN <<[k |-> t[2], t |-> Num(1)]>> ELSE <<[k |-> t[2][2], t |-> t[3]]>>
Divides(d, t) == \A n \in DOMAIN Parts(t) : Parts(t)[n].k % d = 0
tryEqMulConst(l, r) ==
  IF ~(Linear(l) /\ Linear(r)) THEN NoMatch
  ELSE LET largest == Parts(l)[1].k + Parts(r)[1].k
           common == {d \in 2 .. largest : Divides(d, l) /\ Divides(d, r)}
           d == CHOOSE n \in common : \A m \in common : m <= n
           Build(t) == FoldRight(LAMBDA p, acc : tAdd(tMul(Num(p.k \div d), p.t), acc), Parts(t), Num(0))
       IN  Try(common # {}, SolvedIf(<<Equal(Build(l), Build(r))>>))

\* s1 = ?a + s2
RECURSIVE matchLinearUnifier(_, _)
matchLinearUnifier(xs, t) ==
  IF aFreeTVar(t) THEN IF xs = <<>> THEN <<>> ELSE <<[a |-> t, xs |-> xs]>>
  ELSE IF ~tIs("Add", t) THEN <<>>
  ELSE IF aFreeTVar(t[2]) /\ noFreeVariables(t[3])
       THEN <<[a |-> t[2], xs |-> Append(Reverse(xs), t[3])]>>
  ELSE IF noFreeVariables(t[2]) THEN matchLinearUnifier(<<t[2]>> \o xs, t[3]) ELSE <<>>
tryLinearSolution(s1, t) ==
  LET found == matchLinearUnifier(<<>>, t)
      s2 == FoldRight(LAMBDA u, acc : tAdd(u, acc), Front(found[1].xs), Last(found[1].xs))
  IN  Try(found # <<>> /\ noFreeVariables(s1),
          SolvedIf(<<Equal(found[1].a, tSub(s1, s2)), Geq(s1, s2)>>))

cryIsEqual(x, y) == FirstMatch(<<
  pBin(x, y, x[2] = y[2]),
  IF aNat0(x) THEN tryEqK(y, x[2]) ELSE NoMatch,
  IF aNat0(y) THEN tryEqK(x, y[2]) ELSE NoMatch,
  IF tIsVar(x) THEN tryEqVar(y, x) ELSE NoMatch,
  IF tIsVar(y) THEN tryEqVar(x, y) ELSE NoMatch,
  trySame(x, y), tryEqMin(x, y), tryEqMin(y, x), tryEqMins(x, y), tryEqMins(y, x),
  tryEqMulConst(x, y), tryEqAddInf(x, y), tryAddConst("equal", x, y),
  tryCancelVar("equal", x, y), tryLinearSolution(x, y), tryLinearSolution(y, x)>>)

-----------------------------------------------------------------------------
(* simplifyStep, and the loop of quickSolver *)

simplifyStep(p) ==
  CASE p = True       -> SolvedIf(<<>>)
    [] p[1] = "fin"   -> cryIsFinType(p[2])
    [] p[1] = "equal" -> cryIsEqual(p[2], p[3])
    [] p[1] = "geq"   -> cryIsGeq(p[2], p[3])
    [] OTHER          -> Unsolved

\* A goal is put into normal form before the solver sees it.
Rebuilt(p) == [n \in DOMAIN p |-> IF n = 1 THEN p[1] ELSE tRebuild(p[n])]

Ask(g) == AskFor(g, Rebuilt(g))

Rewrite == goals # <<>> /\ \E step \in {simplifyStep(Head(goals))} : Take(step)

\* The context first, then one goal.
SolverNext ==
  \/ MakeContext
  \/ \E g \in Goals : Ask(g)
  \/ DropAssumed \/ Rewrite \/ Conclude

SolverSpec == SolverInit /\ [][SolverNext]_<<vars, solverVars>>
FairSolverSpec == SolverSpec /\ WF_<<vars, solverVars>>(SolverNext)

-----------------------------------------------------------------------------
(* Properties *)

\* Every step of the solver is one that RightSpec allows: whatever rule answers,
\* it is right about the first goal wherever the goal that was asked has a
\* meaning, and so is the normal form that a goal is brought into.
StepsAreRight == RightSpec

\* The rules do not rewrite a goal forever.
RewritingEnds == <>(verdict # "open")
=============================================================================
