------------------------------ MODULE Intervals ------------------------------
(***************************************************************************)
(* What the type checker concludes about numeric type variables from the   *)
(* constraints that it may assume: an interval for each variable           *)
(* (src/Cryptol/TypeCheck/Solver/Numeric/Interval.hs), computed once from  *)
(* the assumptions of a signature and then used to decide goals.           *)
(*                                                                         *)
(* Types are tuples <<operator, argument, ...>> and nest at most three     *)
(* operators deep; type variables are numbers, as they are ordered.        *)
(***************************************************************************)
EXTENDS InfNat, Sequences

CONSTANTS TVar,             \* type variables
          Ops,              \* the operators that constraints are made of
          Values,           \* the values that variables are tried with
          Assumptions,      \* the lists of constraints to start from
          Rounds            \* how often the list is gone through again (3 in the code)

-----------------------------------------------------------------------------
(* Types and constraints *)

Num(n) == <<"Num", n>>
Var(x) == <<"Var", x>>

Unary   == {"Width"}
Binary  == {"Add", "Sub", "Mul", "Div", "Mod", "Exp", "Min", "Max", "CeilDiv", "CeilMod"}
Ternary == {"LenFromThenTo"}

IsLeaf(t) == t[1] \in {"Num", "Var"}
tIsVar(t) == t[1] = "Var"
Arg(t, n) == IF n < Len(t) THEN t[n + 1] ELSE Num(0)

\* A malformed type: it has no value.
Error == <<"Error">>

\* The patterns of rules on types (TypePat.hs).
aNat(t) == t[1] = "Num" /\ t[2] # Inf
aInf(t) == t = Num(Inf)
aNat0(t) == t[1] = "Num"                    \* aNat': a number or inf
tIs(op, t) == t[1] = op
IsSumK(t) == tIs("Add", t) /\ aNat(t[2])

Fin(t)           == <<"fin", t>>
Equal(l, r)      == <<"equal", l, r>>
Geq(l, r)        == <<"geq", l, r>>
ValidFloat(e, p) == <<"float", e, p>>
True             == <<"true">>
False            == <<"false">>

\* An operator with all of its arguments.
Applied(t) == Len(t) = IF t[1] \in Unary THEN 2 ELSE IF t[1] \in Binary THEN 3 ELSE 4
Operation(t) == t[1] \in Ops /\ Applied(t)

\* Types whose operators nest at most three deep, and constraints on them.
LeafType(t) == \/ t[1] = "Num" /\ t[2] \in InfNat
               \/ t[1] = "Var" /\ t[2] \in TVar
FlatType(t) == LeafType(t) \/ (Operation(t) /\ \A n \in 1 .. 3 : LeafType(Arg(t, n)))
DeepType(t) == LeafType(t) \/ (Operation(t) /\ \A n \in 1 .. 3 : FlatType(Arg(t, n)))
IsType(t)   == LeafType(t) \/ (Operation(t) /\ \A n \in 1 .. 3 : DeepType(Arg(t, n)))
IsProp(p)   == /\ p[1] \in {"fin", "equal", "geq", "float"}
               /\ Len(p) = IF p[1] = "fin" THEN 2 ELSE 3
               /\ \A n \in 2 .. Len(p) : IsType(p[n])

ASSUME IntervalsAssumption ==
  /\ TVar \subseteq Nat /\ Rounds \in Nat /\ Values \subseteq InfNat
  /\ Ops \subseteq Unary \cup Binary \cup Ternary
  /\ \A ps \in Assumptions : /\ ps \in Seq({ps[n] : n \in DOMAIN ps})
                             /\ \A n \in DOMAIN ps : IsProp(ps[n])

\* The value of an operator, Nothing when it is not defined on its arguments.
vApply(op, x, y, z) ==
  IF Nothing \in {x, y, z} THEN Nothing
  ELSE CASE op = "Add"     -> nAdd(x, y)
         [] op = "Sub"     -> nSub(x, y)
         [] op = "Mul"     -> nMul(x, y)
         [] op = "Div"     -> nDiv(x, y)
         [] op = "Mod"     -> nMod(x, y)
         [] op = "Exp"     -> nExp(x, y)
         [] op = "Min"     -> nMin(x, y)
         [] op = "Max"     -> nMax(x, y)
         [] op = "CeilDiv" -> nCeilDiv(x, y)
         [] op = "CeilMod" -> nCeilMod(x, y)
         [] op = "Width"   -> nWidth(x)
         [] op = "LenFromThenTo" -> nLenFromThenTo(x, y, z)
         [] OTHER          -> Nothing

\* The value of a type when the variables have the values s.
LeafValue(s, t) == IF tIsVar(t) THEN s[t[2]] ELSE t[2]
FlatValue(s, t) ==
  IF IsLeaf(t) THEN LeafValue(s, t)
  ELSE vApply(t[1], LeafValue(s, Arg(t, 1)), LeafValue(s, Arg(t, 2)), LeafValue(s, Arg(t, 3)))
DeepValue(s, t) ==
  IF IsLeaf(t) THEN LeafValue(s, t)
  ELSE vApply(t[1], FlatValue(s, Arg(t, 1)), FlatValue(s, Arg(t, 2)), FlatValue(s, Arg(t, 3)))
Value(s, t) ==
  IF IsLeaf(t) THEN LeafValue(s, t)
  ELSE vApply(t[1], DeepValue(s, Arg(t, 1)), DeepValue(s, Arg(t, 2)), DeepValue(s, Arg(t, 3)))

\* Whether a constraint has a meaning, and whether it is true, for the values s.
Defined(s, p) == \A n \in 2 .. Len(p) : Value(s, p[n]) # Nothing
Holds(s, p) ==
  /\ p # False /\ Defined(s, p)
  /\ p[1] \in {"fin", "float"} => Value(s, p[2]) # Inf
  /\ p[1] = "float" => Value(s, p[3]) # Inf
  /\ p[1] = "equal" => Value(s, p[2]) = Value(s, p[3])
  /\ p[1] = "geq" => Leq(Value(s, p[3]), Value(s, p[2]))

-----------------------------------------------------------------------------
(* Intervals *)

\* An upper bound Nothing stands for all natural numbers, Inf not among them.
Interval == [lower: InfNat, upper: InfNat \cup {Nothing}]
Between(l, u) == [lower |-> l, upper |-> u]

iAny == Between(0, Inf)
iAnyFin == Between(0, Nothing)
iConst(n) == Between(n, n)
iIsExact(i) == i.lower = i.upper
iIsFin(i) == i.upper # Inf
iIsPosFin(i) == Leq(1, i.lower) /\ iIsFin(i)

NoInterval == Between(Nothing, Nothing)

iIntersect(i, j) ==
  LET lower  == nMax(i.lower, j.lower)
      uppers == {i.upper, j.upper}
      upper  == IF Nothing \notin uppers THEN nMin(i.upper, j.upper)
                ELSE IF uppers \subseteq {Nothing, Inf} THEN Nothing
                ELSE IF i.upper = Nothing THEN j.upper ELSE i.upper
  IN  IF upper = Inf \/ (lower # Inf /\ (upper = Nothing \/ lower <= upper))
      THEN Between(lower, upper) ELSE NoInterval

\* The upper bound of a monotone operator when one argument is only known to be
\* finite; keep are the bounds of the other one that make up for it.
iUpper(i, j, op, keep) ==
  IF Nothing \notin {i.upper, j.upper} THEN op
  ELSE IF i.upper # Nothing /\ i.upper \in keep THEN i.upper
  ELSE IF j.upper # Nothing /\ j.upper \in keep THEN j.upper ELSE Nothing

iAdd(i, j) == Between(nAdd(i.lower, j.lower), iUpper(i, j, nAdd(i.upper, j.upper), {Inf}))
iMul(i, j) == Between(nMul(i.lower, j.lower), iUpper(i, j, nMul(i.upper, j.upper), {Inf, 0}))
iMin(i, j) == Between(nMin(i.lower, j.lower), iUpper(i, j, nMin(i.upper, j.upper), Nat))
iMax(i, j) == Between(nMax(i.lower, j.lower), iUpper(i, j, nMax(i.upper, j.upper), {Inf}))
iExp(i, j) ==
  Between(nExp(i.lower, j.lower),
          IF i.upper = Nothing /\ j.upper = 0 THEN 1
          ELSE IF i.upper # Nothing /\ j.upper = Nothing
               THEN IF i.upper \in {Inf, 0, 1} THEN i.upper ELSE Nothing
          ELSE iUpper(i, j, nExp(i.upper, j.upper), {Inf}))

\* What a partial operation gives, and what is assumed where it is malformed.
Default(x, d) == IF x = Nothing THEN d ELSE x

iSub_SameBounds(i, j) ==
  Between(Default(nSub(i.lower, j.lower), 0),
          IF i.upper = Nothing THEN Nothing ELSE Default(nSub(i.upper, j.lower), Inf))
iSub(i, j) ==
  Between(IF j.upper = Nothing THEN 0 ELSE Default(nSub(i.lower, j.upper), 0),
          IF i.upper = Nothing THEN Nothing ELSE Default(nSub(i.upper, j.lower), Inf))
iDiv(i, j) ==
  Between(IF j.upper = Nothing THEN 0 ELSE Default(nDiv(i.lower, j.upper), 0),
          IF i.upper = Nothing THEN Nothing
          ELSE Default(nDiv(i.upper, nMax(i.lower, 1)), Inf))
iMod(i, j) == Between(0, IF j.upper \in {Nothing, Inf, 0} THEN Nothing ELSE j.upper - 1)
iCeilDiv(i, j) ==
  Between(IF j.upper = Nothing THEN nMin(i.lower, 1) ELSE Default(nCeilDiv(i.lower, j.upper), 0),
          IF i.upper = Nothing THEN Nothing
          ELSE Default(nCeilDiv(i.upper, nMax(i.lower, 1)), Inf))
iWidth(i) == Between(nWidth(i.lower), IF i.upper = Nothing THEN Nothing ELSE nWidth(i.upper))
iLenFromThenTo(i, j, k) ==
  LET length == nLenFromThenTo(i.lower, j.lower, k.lower)
  IN  IF iIsExact(i) /\ iIsExact(j) /\ iIsExact(k) /\ length # Nothing
      THEN iConst(length) ELSE iAnyFin

iApply(op, i, j, k) ==
  CASE op = "Add"     -> iAdd(i, j)
    [] op = "Sub"     -> iSub(i, j)
    [] op = "Mul"     -> iMul(i, j)
    [] op = "Div"     -> iDiv(i, j)
    [] op = "Mod"     -> iMod(i, j)
    [] op = "Exp"     -> iExp(i, j)
    [] op = "Min"     -> iMin(i, j)
    [] op = "Max"     -> iMax(i, j)
    [] op = "CeilDiv" -> iCeilDiv(i, j)
    [] op = "CeilMod" -> iMod(i, j)
    [] op = "Width"   -> iWidth(i)
    [] op = "LenFromThenTo" -> iLenFromThenTo(i, j, k)
    [] OTHER          -> iAny

\* The interval of a type: the recursion of the code, for types of Type.
tvarInterval(known, x) == IF x \in DOMAIN known THEN known[x] ELSE iAny
LeafInterval(known, t) == IF tIsVar(t) THEN tvarInterval(known, t[2]) ELSE iConst(t[2])
FlatInterval(known, t) ==
  IF IsLeaf(t) THEN LeafInterval(known, t)
  ELSE iApply(t[1], LeafInterval(known, Arg(t, 1)), LeafInterval(known, Arg(t, 2)),
                    LeafInterval(known, Arg(t, 3)))
DeepInterval(known, t) ==
  IF IsLeaf(t) THEN LeafInterval(known, t)
  ELSE iApply(t[1], FlatInterval(known, Arg(t, 1)), FlatInterval(known, Arg(t, 2)),
                    FlatInterval(known, Arg(t, 3)))
typeInterval(known, t) ==
  IF IsLeaf(t) THEN LeafInterval(known, t)
  ELSE iApply(t[1], DeepInterval(known, Arg(t, 1)), DeepInterval(known, Arg(t, 2)),
                    DeepInterval(known, Arg(t, 3)))

-----------------------------------------------------------------------------
(* What one constraint says of its variables, on top of what is known *)

Entry(t, i) == IF tIsVar(t) THEN <<[var |-> t[2], int |-> i]>> ELSE <<>>

\* k >= width x bounds x by 2 ^ k - 1 if k is one number, and this one is small;
\* if it is not, Nothing is taken for "no exact bound".
Cutoff == 128
widthBound(i) ==
  IF iIsExact(i) THEN IF i.lower # Inf /\ i.lower < Cutoff THEN 2 ^ i.lower - 1
                      ELSE IF i.lower = Inf THEN Inf ELSE Nothing
  ELSE Nothing

propInterval(known, p) ==
  CASE p[1] = "fin"   -> Entry(p[2], iAnyFin)
    [] p[1] = "equal" -> Entry(p[2], typeInterval(known, p[3])) \o
                         Entry(p[3], typeInterval(known, p[2]))
    [] p[1] = "geq"   -> Entry(p[2], Between(typeInterval(known, p[3]).lower, Inf)) \o
                         Entry(p[3], Between(0, typeInterval(known, p[2]).upper)) \o
                         (IF p[3][1] = "Width"
                          THEN Entry(p[3][2], Between(0, widthBound(typeInterval(known, p[2]))))
                          ELSE <<>>)
    [] p[1] = "float" -> Entry(p[2], iAnyFin) \o Entry(p[3], iAnyFin)
    [] OTHER          -> <<>>

-----------------------------------------------------------------------------
(* computePropIntervals, one equation of its loops at a time *)

VARIABLES asmps,            \* ps0, the constraints that may be assumed
          ints,             \* is, the intervals so far: a map of some variables
          todo,             \* the constraints that this round has not seen
          learned,          \* what the last constraint said, to be added to ints
          new,              \* whether this round has changed an interval
          rounds,           \* n, the rounds that are left
          outcome           \* "working" or the constructor of IntervalUpdate

vars == <<asmps, ints, todo, learned, new, rounds, outcome>>

Init ==
  /\ asmps \in Assumptions
  /\ ints = <<>>
  /\ todo = asmps
  /\ learned = <<>>
  /\ new = FALSE
  /\ rounds = Rounds
  /\ outcome = "working"

\* go with a constraint left: what it says is computed from the intervals
\* before it, also if it speaks of two variables.
Learn ==
  /\ outcome = "working" /\ learned = <<>> /\ todo # <<>>
  /\ learned' = propInterval(ints, Head(todo))
  /\ todo' = Tail(todo)
  /\ UNCHANGED <<asmps, ints, new, rounds, outcome>>

\* updateInterval, for one entry of the list that add goes through.
updateInterval ==
  /\ outcome = "working" /\ learned # <<>>
  /\ LET x      == Head(learned).var
         int    == Head(learned).int
         common == IF x \in DOMAIN ints THEN iIntersect(int, ints[x]) ELSE int
     IN  IF common = NoInterval
         THEN /\ outcome' = "InvalidInterval"
              /\ UNCHANGED <<ints, new>>
         ELSE /\ ints' = [y \in DOMAIN ints \cup {x} |-> IF y = x THEN common ELSE ints[y]]
              /\ new' = (new \/ x \notin DOMAIN ints \/ common # ints[x])
              /\ UNCHANGED outcome
  /\ learned' = Tail(learned)
  /\ UNCHANGED <<asmps, todo, rounds>>

NextRound ==
  /\ outcome = "working" /\ learned = <<>> /\ todo = <<>>
  /\ new /\ rounds > 0
  /\ rounds' = rounds - 1
  /\ todo' = asmps
  /\ new' = FALSE
  /\ UNCHANGED <<asmps, ints, learned, outcome>>

\* Nothing new in a whole round, or no round left.
Settle ==
  /\ outcome = "working" /\ learned = <<>> /\ todo = <<>>
  /\ ~new \/ rounds = 0
  /\ outcome' = IF ~new /\ rounds = Rounds THEN "NoChange" ELSE "NewIntervals"
  /\ UNCHANGED <<asmps, ints, todo, learned, new, rounds>>

Next == Learn \/ updateInterval \/ NextRound \/ Settle

Spec == Init /\ [][Next]_vars

\* assumptionIntervals of buildSolverCtxt: the intervals that goals are decided with.
intervals == IF outcome = "NewIntervals" THEN ints ELSE <<>>

-----------------------------------------------------------------------------
(* Properties *)

TypeOK ==
  /\ asmps \in Assumptions
  /\ \E n \in 1 .. Len(asmps) + 1 : todo = SubSeq(asmps, n, Len(asmps))
  /\ DOMAIN ints \subseteq TVar
  /\ \A x \in DOMAIN ints : ints[x] \in Interval
  /\ learned \in Seq([var: TVar, int: Interval])
  /\ new \in BOOLEAN /\ rounds \in 0 .. Rounds
  /\ outcome \in {"working", "NoChange", "InvalidInterval", "NewIntervals"}

\* A value is within an interval: both bounds are inclusive (the comments on the
\* fields of Interval).
In(v, i) == Leq(i.lower, v) /\ IF i.upper = Nothing THEN v # Inf ELSE Leq(v, i.upper)

\* The ways to give values to the variables that make all assumptions true.
Satisfies(s) == \A n \in DOMAIN asmps : Holds(s, asmps[n])

\* No interval excludes a value that its variable can have, and the assumptions
\* are only called invalid when nothing satisfies them: computePropIntervals
\* may lose no solution, or constraints would be decided wrongly.
KeepsSolutions ==
  \A s \in [TVar -> Values] : Satisfies(s) =>
    /\ outcome # "InvalidInterval"
    /\ \A x \in DOMAIN ints : In(s[x], ints[x])
=============================================================================
