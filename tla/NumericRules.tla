---------------------------- MODULE NumericRules ----------------------------
(***************************************************************************)
(* The rules that rewrite goals about numeric types to simpler goals and   *)
(* take them to pieces without building new types: those of                *)
(* Solver/Numeric/Fin.hs, and of Solver/Numeric.hs the ones that evaluate, *)
(* compare with a number, or look at intervals.                            *)
(***************************************************************************)
EXTENDS Intervals

-----------------------------------------------------------------------------
(* What a rule says of a goal (Solver/Types.hs); a rule that does not match *)
(* leaves the goal to the next one.                                         *)

SolvedIf(ps) == [result |-> "SolvedIf", props |-> ps]
Unsolved     == [result |-> "Unsolved", props |-> <<>>]
Unsolvable   == [result |-> "Unsolvable", props |-> <<>>]
NoMatch      == [result |-> "NoMatch", props |-> <<>>]

\* r1 <|> r2 <|> ..., and matchDefault Unsolved of it
FirstOf(rules) ==
  IF \A n \in DOMAIN rules : rules[n] = NoMatch THEN NoMatch
  ELSE rules[CHOOSE n \in DOMAIN rules :
               rules[n] # NoMatch /\ \A m \in 1 .. n - 1 : rules[m] = NoMatch]
FirstMatch(rules) == FirstOf(Append(rules, Unsolved))
Try(guard, result) == IF guard THEN result ELSE NoMatch
Either(first, second) == IF first # NoMatch THEN first ELSE second

AtLeast(n, x) == Leq(n, x)
pFin(t) == IF aNat(t) THEN True ELSE IF aInf(t) THEN False ELSE Fin(t)

-----------------------------------------------------------------------------
(* fin t *)

\* i1 and i2 are the intervals of the arguments of t.
finRule(t, i1, i2) ==
  LET first == pFin(Arg(t, 1))
      second == pFin(Arg(t, 2))
  IN  CASE t[1] = "Var" -> IF t[2] \in DOMAIN intervals /\ iIsFin(intervals[t[2]])
                           THEN SolvedIf(<<>>) ELSE Unsolved
        [] t[1] = "Num" -> IF aNat(t) THEN SolvedIf(<<>>) ELSE Unsolvable
        [] t[1] \in {"Add", "Max"} -> SolvedIf(<<first, second>>)
        [] t[1] \in {"Sub", "Width", "CeilDiv"} -> SolvedIf(<<first>>)
        [] t[1] \in {"Div", "Mod", "CeilMod", "LenFromThenTo"} -> SolvedIf(<<>>)
        [] t[1] = "Mul" -> FirstMatch(<<
             Try(iIsPosFin(i1), SolvedIf(<<second>>)),
             Try(iIsPosFin(i2), SolvedIf(<<first>>)),
             Try(AtLeast(1, i1.lower) /\ AtLeast(1, i2.lower), SolvedIf(<<first, second>>)),
             Try(iIsFin(i1) /\ iIsFin(i2), SolvedIf(<<>>))>>)
        [] t[1] = "Exp" -> FirstMatch(<<
             Try(i1.lower = Inf, SolvedIf(<<Equal(Arg(t, 2), Num(0))>>)),
             Try(i2.lower = Inf, SolvedIf(<<Geq(Num(1), Arg(t, 1))>>)),
             Try(AtLeast(2, i1.lower) \/ AtLeast(1, i2.lower), SolvedIf(<<first, second>>)),
             Try(i1.upper \in {0, 1} \/ i2.upper = 0, SolvedIf(<<>>))>>)
        [] t[1] = "Min" -> FirstMatch(<<
             Try(iIsFin(i1) \/ iIsFin(i2), SolvedIf(<<>>)),
             Try(i1.upper # Nothing /\ Leq(i1.upper, i2.lower), SolvedIf(<<first>>)),
             Try(i2.upper # Nothing /\ Leq(i2.upper, i1.lower), SolvedIf(<<second>>))>>)
        [] OTHER -> Unsolved

cryIsFinType(t) ==
  finRule(t, typeInterval(intervals, Arg(t, 1)), typeInterval(intervals, Arg(t, 2)))

-----------------------------------------------------------------------------
(* Rules for >= and = together, and for t1 >= t2 *)

\* Relations between numbers are evaluated, and errors never hold.
pBin(x, y, holds) ==
  IF Error \in {x, y} THEN Unsolvable
  ELSE Try(aNat0(x) /\ aNat0(y), IF holds THEN SolvedIf(<<>>) ELSE Unsolvable)

trySame(x, y) == Try(x = y, SolvedIf(<<>>))

tryGeqKThan_RoundsUp(ty, k) ==
  IF k = Inf THEN SolvedIf(<<>>)
  ELSE Try(tIs("Mul", ty) /\ aNat0(ty[2]),
           LET m == ty[2][2]
           IN  SolvedIf(IF m = 0 THEN <<>>
                        ELSE IF m = Inf THEN <<Equal(ty[3], Num(0))>>
                        ELSE <<Geq(Num(nCeilDiv(k, m)), ty[3])>>))

tryGeqKThan(ty, k) ==
  IF k = Inf THEN SolvedIf(<<>>)
  ELSE Try(tIs("Mul", ty) /\ aNat0(ty[2]),
           LET m == ty[2][2]
           IN  SolvedIf(IF m = 0 THEN <<>>
                        ELSE IF m = Inf THEN <<Equal(ty[3], Num(0))>>
                        ELSE <<Geq(Num(k \div m), ty[3])>>))

tryGeqThanK(ty, k) ==
  IF k = Inf THEN SolvedIf(<<Equal(ty, Num(Inf))>>)
  ELSE Try(IsSumK(ty), SolvedIf(IF ty[2][2] >= k THEN <<>>
                                ELSE <<Geq(ty[3], Num(k - ty[2][2]))>>))

\* (t + a) >= a and t1 >= t1 - t2
tryGeqThanVar(x, y) == Try(tIsVar(y) /\ tIs("Add", x) /\ y \in {x[2], x[3]}, SolvedIf(<<>>))
tryGeqThanSub(x, y) == Try(tIs("Sub", y) /\ y[2] = x, SolvedIf(<<>>))

geqByInterval(x, y) ==
  LET upper == typeInterval(intervals, y).upper
  IN  Try(upper # Nothing /\ Leq(upper, typeInterval(intervals, x).lower), SolvedIf(<<>>))

tryMinIsGeq(x, y) ==
  Try(tIs("Min", x) /\ aNat(x[2]) /\ aNat(y),
      IF x[2][2] >= y[2] THEN SolvedIf(<<Geq(x[3], y)>>) ELSE Unsolvable)

-----------------------------------------------------------------------------
(* t1 = t2 *)

\* K1 = K2 * t
tryEqMulK(t, lk, rk) ==
  IF lk = Inf THEN SolvedIf(<<IF rk = Inf THEN Geq(t, Num(1)) ELSE Equal(t, Num(Inf))>>)
  ELSE IF rk = Inf THEN IF lk = 0 THEN SolvedIf(<<Equal(t, Num(0))>>) ELSE Unsolvable
  ELSE IF rk = 0 THEN SolvedIf(<<Equal(Num(lk), Num(0))>>)
  ELSE IF lk % rk = 0 THEN SolvedIf(<<Equal(t, Num(lk \div rk))>>) ELSE Unsolvable

\* K1 = K2 ^^ t
tryEqExpK(t, lk, rk) ==
  LET isOne == rk = 0 /\ lk = 1
      power == rk >= 2 /\ lk > 0 /\ genLog(lk, rk).exact
  IN  IF lk = Inf /\ rk > 1 THEN SolvedIf(<<Equal(t, Num(Inf))>>)
      ELSE IF isOne THEN SolvedIf(<<Equal(t, Num(0))>>)
      ELSE IF power THEN SolvedIf(<<Equal(t, Num(genLog(lk, rk).log))>>) ELSE Unsolvable

tryEqK(ty, lk) ==
  LET Finite(t) == iIsFin(typeInterval(intervals, t))
  IN  FirstOf(<<
        IF lk = Inf /\ tIs("Add", ty)
        THEN Either(Try(Finite(ty[2]), SolvedIf(<<Equal(ty[3], Num(Inf))>>)),
                    Try(Finite(ty[3]), SolvedIf(<<Equal(ty[2], Num(Inf))>>)))
        ELSE NoMatch,
        IF tIs("Add", ty) /\ aNat0(ty[2])
        THEN IF nSub(lk, ty[2][2]) = Nothing THEN Unsolvable
             ELSE SolvedIf(<<Equal(ty[3], Num(nSub(lk, ty[2][2])))>>)
        ELSE NoMatch,
        Try(tIs("Sub", ty) /\ aNat0(ty[3]), SolvedIf(<<Equal(ty[2], Num(nAdd(lk, ty[3][2])))>>)),
        Try(tIs("Mul", ty) /\ aNat0(ty[2]), tryEqMulK(ty[3], lk, ty[2][2])),
        Try(tIs("Exp", ty) /\ aNat(ty[2]), tryEqExpK(ty[3], lk, ty[2][2]))>>)

\* K + a with K at least 1
Bigger(t, a) == tIs("Add", t) /\ aNat0(t[2]) /\ AtLeast(1, t[2][2]) /\ t[3] = a

\* a = K + a, and a = min (K + a) t
tryEqPlus(ty, x) == Try(Bigger(ty, x) /\ aNat(ty[2]), SolvedIf(<<Equal(x, Num(Inf))>>))
tryEqMinPlus(ty, x) ==
  IF tIs("Min", ty)
  THEN Either(Try(Bigger(ty[2], x), SolvedIf(<<Equal(x, ty[3])>>)),
              Try(Bigger(ty[3], x), SolvedIf(<<Equal(x, ty[2])>>)))
  ELSE NoMatch

tryEqMin(x, y) ==
  IF tIs("Min", x)
  THEN Either(Try(x[2] = y, SolvedIf(<<Geq(x[3], x[2])>>)),
              Try(x[3] = y, SolvedIf(<<Geq(x[2], x[3])>>)))
  ELSE NoMatch

tryEqAddInf(l, r) ==
  LET Finite(t) == iIsFin(typeInterval(intervals, t))
      Check(x, y) ==
        IF ~tIs("Add", x) \/ ~aInf(y) THEN NoMatch
        ELSE IF Finite(x[2]) THEN SolvedIf(<<Equal(x[3], y)>>)
        ELSE IF Finite(x[3]) THEN SolvedIf(<<Equal(x[2], y)>>) ELSE Unsolved
  IN  Either(Check(l, r), Check(r, l))

-----------------------------------------------------------------------------
(* What a rule promises *)

\* A goal that has a meaning and is false.
Refuted(s, p) == Defined(s, p) /\ ~Holds(s, p)

\* With the values s, what a rule says of a goal is true: the goal holds if the
\* sub-goals do ("Solved, assuming the sub-goals", Solver/Types.hs:24), and a
\* goal that is called unsolvable is false (:26).
RightFor(s, r, p) ==
  /\ r.result = "SolvedIf" => ((\A n \in DOMAIN r.props : Holds(s, r.props[n])) => Holds(s, p))
  /\ r.result = "Unsolvable" => Refuted(s, p)

\* A rule loses the values s if they make the goal true and a sub-goal false.
KeepsFor(s, r, p) ==
  r.result = "SolvedIf" => ((\E n \in DOMAIN r.props : Refuted(s, r.props[n])) => Refuted(s, p))
=============================================================================
