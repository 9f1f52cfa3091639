---------------------------- MODULE QuickSolver ----------------------------
(***************************************************************************)
(* The loop of quickSolver (src/Cryptol/TypeCheck/Solve.hs): goals wait in *)
(* a list, each is dropped if it is assumed, replaced by what a rule says  *)
(* of it, or put aside, until none is left or one cannot be solved.        *)
(*                                                                         *)
(* Two specifications of it: RightSpec, with any rewriting that is right,  *)
(* which the solver of NumericSolver implements, and PlainSpec, with the   *)
(* rules of NumericRules, which build no types.                            *)
(***************************************************************************)
EXTENDS NumericRules

CONSTANTS Goals,            \* goals to ask for
          None              \* no goal asked yet

ASSUME QuickSolverAssumption == None \notin Goals

VARIABLES goal,             \* the goal as it was written
          goals,            \* the goals that are left to be rewritten
          unsolved,         \* the goals that no rule applies to
          verdict           \* "open", "solved", "unsolvable" or "stuck"

solverVars == <<goal, goals, unsolved, verdict>>

-----------------------------------------------------------------------------
(* The steps of the loop *)

SolverInit ==
  /\ Init
  /\ goal = None /\ goals = <<>> /\ unsolved = {} /\ verdict = "open"

\* The context is computed first.
MakeContext ==
  \/ Learn /\ UNCHANGED solverVars
  \/ updateInterval /\ UNCHANGED solverVars
  \/ NextRound /\ UNCHANGED solverVars
  \/ Settle /\ UNCHANGED solverVars

\* quickSolver is called with the context that was built from the assumptions;
\* g reaches it in the form p.
AskFor(g, p) ==
  /\ outcome # "working" /\ goal = None
  /\ goal' = g
  /\ goals' = <<p>>
  /\ UNCHANGED <<vars, unsolved, verdict>>

Assumed == goals # <<>> /\ \E n \in DOMAIN asmps : asmps[n] = Head(goals)

DropAssumed ==
  /\ verdict = "open" /\ Assumed
  /\ goals' = Tail(goals)
  /\ UNCHANGED <<vars, goal, unsolved, verdict>>

Follow(step) ==
  \/ /\ step.result = "SolvedIf"
     /\ goals' = step.props \o Tail(goals)
     /\ UNCHANGED <<goal, unsolved, verdict>>
  \/ /\ step.result = "Unsolved"
     /\ goals' = Tail(goals) /\ unsolved' = unsolved \cup {Head(goals)}
     /\ UNCHANGED <<goal, verdict>>
  \/ /\ step.result = "Unsolvable"
     /\ verdict' = "unsolvable"
     /\ UNCHANGED <<goal, goals, unsolved>>

\* A rule has answered step for the first goal.
Take(step) ==
  /\ verdict = "open" /\ ~Assumed
  /\ Follow(step)
  /\ UNCHANGED vars

\* Nothing left to rewrite; what is unsolved then goes to the improvements of
\* Solver/Improve.hs and to the external solver.
Conclude ==
  /\ verdict = "open" /\ goal # None /\ goals = <<>>
  /\ verdict' = IF unsolved = {} THEN "solved" ELSE "stuck"
  /\ UNCHANGED <<vars, goal, goals, unsolved>>

-----------------------------------------------------------------------------
(* The loop with any rewriting that is right, wherever the goal that was    *)
(* asked has a meaning                                                      *)

Meant(s) == goal # None /\ Satisfies(s) /\ Defined(s, goal)

\* No values that make the goal true have been lost on the way.
Lossless ==
  \A s \in [TVar -> Values] :
    Meant(s) /\ (\E n \in DOMAIN goals : Refuted(s, goals[n])) => Refuted(s, goal)

RightAsk ==
  /\ goal' \in Goals /\ AskFor(goal', Head(goals'))
  /\ \A s \in [TVar -> Values] :
       Satisfies(s) /\ Defined(s, goal') => RightFor(s, SolvedIf(goals'), goal')

\* The first goal follows from what the rule puts in its place, and it is called
\* unsolvable only if it is false and nothing has been lost.
RightAnswer(r) ==
  /\ \A s \in [TVar -> Values] : Meant(s) => RightFor(s, r, Head(goals))
  /\ r = Unsolvable => Lossless

IsList(gs) == gs \in Seq({gs[n] : n \in DOMAIN gs})

RightRewrite ==
  /\ goals # <<>> /\ IsList(goals')
  /\ \E r \in {Unsolved, Unsolvable} \cup {SolvedIf(SubSeq(goals', 1, n)) : n \in 0 .. Len(goals')} :
       Take(r) /\ RightAnswer(r)

RightNext == MakeContext \/ RightAsk \/ DropAssumed \/ RightRewrite \/ Conclude

RightSpec == SolverInit /\ [][RightNext]_<<vars, solverVars>>

-----------------------------------------------------------------------------
(* The loop with the rules that build no types, in any order *)

GeqRules(x, y) ==
  {pBin(x, y, Leq(y[2], x[2])),
   IF aNat0(x) THEN tryGeqKThan(y, x[2]) ELSE NoMatch,
   IF aNat0(y) THEN tryGeqThanK(x, y[2]) ELSE NoMatch,
   tryGeqThanVar(x, y), tryGeqThanSub(x, y), geqByInterval(x, y), trySame(x, y),
   tryMinIsGeq(x, y)}

EqualRules(x, y) ==
  {pBin(x, y, x[2] = y[2]),
   IF aNat0(x) THEN tryEqK(y, x[2]) ELSE NoMatch,
   IF aNat0(y) THEN tryEqK(x, y[2]) ELSE NoMatch,
   tryEqPlus(y, x), tryEqMinPlus(y, x), tryEqPlus(x, y), tryEqMinPlus(x, y),
   trySame(x, y), tryEqMin(x, y), tryEqMin(y, x), tryEqAddInf(x, y)}

PlainAnswers(p) ==
  CASE p = True       -> {SolvedIf(<<>>)}
    [] p[1] = "fin"   -> {cryIsFinType(p[2]), Unsolved}
    [] p[1] = "equal" -> EqualRules(p[2], p[3]) \cup {Unsolved}
    [] p[1] = "geq"   -> GeqRules(p[2], p[3]) \cup {Unsolved}
    [] OTHER          -> {Unsolved}

PlainNext ==
  \/ MakeContext
  \/ \E g \in Goals : AskFor(g, g)
  \/ DropAssumed
  \/ goals # <<>> /\ \E step \in PlainAnswers(Head(goals)) : Take(step)
  \/ Conclude

PlainSpec == SolverInit /\ [][PlainNext]_<<vars, solverVars>>

-----------------------------------------------------------------------------
(* Properties *)

\* Whatever values make the assumptions true, and give the goal a meaning, make
\* the goal true if they make what is left of it true ("Solved, assuming the
\* sub-goals", Solver/Types.hs:24); with nothing left the goal is proved.  A goal
\* is called unsolvable only if no such values make it true ("The goal can
\* never be solved", :26).
DecisionsSound ==
  goal # None =>
    \A s \in [TVar -> Values] : Satisfies(s) /\ Defined(s, goal) =>
      IF verdict = "unsolvable" THEN ~Holds(s, goal)
      ELSE (\A p \in {goals[n] : n \in DOMAIN goals} \cup unsolved : Holds(s, p))
             => Holds(s, goal)
=============================================================================
