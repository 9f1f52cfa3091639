------------------------------ MODULE SimpType ------------------------------
(***************************************************************************)
(* The constructors of numeric types: every type that inference or a       *)
(* substitution builds goes through them, and they put it into a normal    *)
(* form with its constants to the left (src/Cryptol/TypeCheck/SimpType.hs).*)
(***************************************************************************)
EXTENDS Intervals

tNum(n) == IF n = Nothing THEN Error ELSE Num(n)

\* tOp: an operator on errors or on numbers is evaluated at once, with the
\* functions of InfNat.
HasError(ts) == \E n \in DOMAIN ts : ts[n] = Error
Evaluates(ts) == HasError(ts) \/ \A n \in DOMAIN ts : tIs("Num", ts[n])
tOp(op, ts) ==
  LET value(n) == IF n <= Len(ts) THEN ts[n][2] ELSE 0
  IN  IF HasError(ts) THEN Error ELSE tNum(vApply(op, value(1), value(2), value(3)))

\* A sum or product of two variables is sorted.
Sorted(op, x, y) == IF tIsVar(x) /\ tIsVar(y) /\ y[2] < x[2] THEN <<op, y, x>> ELSE <<op, x, y>>

\* tCon builds a type of an operator and its arguments.  The constructors start
\* with tOp and call each other: the rules below are what each does after that.
RECURSIVE tCon(_, _)
tAdd(x, y) == tCon("Add", <<x, y>>)
tSub(x, y) == tCon("Sub", <<x, y>>)
tMul(x, y) == tCon("Mul", <<x, y>>)
tMod(x, y) == tCon("Mod", <<x, y>>)
tExp(x, y) == tCon("Exp", <<x, y>>)
tMin(x, y) == tCon("Min", <<x, y>>)
tMax(x, y) == tCon("Max", <<x, y>>)

addK(n, t) ==
  IF n = 0 THEN t
  ELSE IF IsSumK(t) THEN <<"Add", Num(n + t[2][2]), t[3]>>
  ELSE IF tIs("Sub", t) /\ aNat(t[3])
       THEN IF n >= t[3][2] THEN tAdd(Num(n - t[3][2]), t[2]) ELSE tSub(t[2], Num(t[3][2] - n))
  ELSE IF tIs("Sub", t) /\ aNat(t[2]) THEN tSub(Num(t[2][2] + n), t[3])
  ELSE IF tIs("Min", t) THEN tMin(tAdd(Num(n), t[2]), tAdd(Num(n), t[3]))
  ELSE <<"Add", Num(n), t>>

addRule(x, y) ==
  IF aInf(x) \/ aInf(y) THEN Num(Inf)
  ELSE IF aNat(x) THEN addK(x[2], y)
  ELSE IF aNat(y) THEN addK(y[2], x)
  ELSE IF IsSumK(x) THEN addK(x[2][2], tAdd(x[3], y))
  ELSE IF IsSumK(y) THEN addK(y[2][2], tAdd(x, y[3]))
  ELSE IF tIs("Sub", y) /\ x = y[3] THEN y[2]
  ELSE IF tIs("Sub", x) /\ x[3] = y THEN x[2]
  ELSE IF tIs("Mul", x) /\ tIs("Mul", y) /\ x[2] = y[2] THEN tMul(x[2], tAdd(x[3], y[3]))
  ELSE IF x = y THEN tMul(Num(2), x)
  ELSE Sorted("Add", x, y)

subRule(x, y) ==
  IF aInf(y) THEN Error
  ELSE IF y = Num(0) THEN x
  ELSE IF aNat(y) /\ IsSumK(x)
       THEN LET k == y[2]  n == x[2][2]
            IN  IF k = n THEN x[3]
                ELSE IF k < n THEN <<"Add", Num(n - k), x[3]>> ELSE tSub(x[3], Num(k - n))
  ELSE IF tIs("Add", x) /\ x[2] = y THEN x[3]
  ELSE IF tIs("Add", x) /\ x[3] = y THEN x[2]
  ELSE IF tIs("Sub", y) THEN tSub(tAdd(x, y[3]), y[2])
  ELSE <<"Sub", x, y>>

mulK(n, t) ==
  IF n = 0 THEN Num(0)
  ELSE IF n = 1 THEN t
  ELSE IF tIs("Mul", t) /\ aInf(t[2]) THEN t
  ELSE IF tIs("Mul", t) /\ aNat(t[2]) THEN <<"Mul", Num(n * t[2][2]), t[3]>>
  ELSE IF tIs("Div", t) /\ t[3] = Num(n)
       THEN tSub(t[2], tMod(t[2], t[3]))
  ELSE <<"Mul", Num(n), t>>

mulRule(x, y) ==
  IF aNat(x) THEN mulK(x[2], y)
  ELSE IF aNat(y) THEN mulK(y[2], x)
  ELSE Sorted("Mul", x, y)

expRule(x, y) ==
  IF y = Num(0) THEN Num(1)
  ELSE IF tIs("Exp", y) THEN tExp(x, tMul(y[2], y[3]))
  ELSE <<"Exp", x, y>>

IsMinK(t) == tIs("Min", t) /\ tIs("Num", t[2])
minK(k, t) ==
  IF k = Inf THEN t
  ELSE IF k = 0 THEN Num(0)
  ELSE IF tIs("Min", t) /\ aNat(t[2]) THEN <<"Min", Num(nMin(k, t[2][2])), t[3]>>
  ELSE <<"Min", Num(k), t>>

\* min (k + t) t is t
MinPlusK(x, y) == IsSumK(x) /\ x[2][2] >= 1 /\ x[3] = y

minRule(x, y) ==
  IF tIs("Num", x) THEN minK(x[2], y)
  ELSE IF tIs("Num", y) THEN minK(y[2], x)
  ELSE IF MinPlusK(x, y) THEN y
  ELSE IF MinPlusK(y, x) THEN x
  ELSE IF IsMinK(x) THEN minK(x[2][2], tMin(x[3], y))
  ELSE IF IsMinK(y) THEN minK(y[2][2], tMin(x, y[3]))
  ELSE IF IsSumK(x) /\ IsSumK(y) /\ x[3] = y[3] THEN tAdd(Num(nMin(x[2][2], y[2][2])), x[3])
  ELSE IF x = y THEN x
  ELSE <<"Min", x, y>>

maxK(k, t) ==
  IF k = Inf THEN Num(Inf)
  ELSE IF k = 0 THEN t
  ELSE IF IsSumK(t)
       THEN IF k <= t[2][2] THEN t ELSE tAdd(t[2], tMax(Num(k - t[2][2]), t[3]))
  ELSE IF tIs("Sub", t) /\ tIs("Num", t[2])
       THEN IF aInf(t[2]) THEN t
            ELSE IF k >= t[2][2] THEN Num(k) ELSE tSub(t[2], tMin(Num(t[2][2] - k), t[3]))
  ELSE IF tIs("Max", t) /\ aNat(t[2]) THEN <<"Max", Num(nMax(k, t[2][2])), t[3]>>
  ELSE <<"Max", Num(k), t>>

maxRule(x, y) ==
  IF tIs("Num", x) THEN maxK(x[2], y)
  ELSE IF tIs("Num", y) THEN maxK(y[2], x)
  ELSE <<"Max", x, y>>

\* Malformed quotients and remainders: of inf, by inf if rounded up, or by zero.
partialRule(op, x, y) ==
  IF \/ op \in {"Div", "Mod"} /\ (aInf(x) \/ y = Num(0))
     \/ op = "CeilDiv" /\ (aInf(y) \/ y = Num(0))
     \/ op = "CeilMod" /\ (aInf(y) \/ x = Num(0))
  THEN Error ELSE <<op, x, y>>

tCon(op, ts) ==
  IF Evaluates(ts) THEN tOp(op, ts)
  ELSE CASE op = "Add" -> addRule(ts[1], ts[2])
         [] op = "Sub" -> subRule(ts[1], ts[2])
         [] op = "Mul" -> mulRule(ts[1], ts[2])
         [] op = "Exp" -> expRule(ts[1], ts[2])
         [] op = "Min" -> minRule(ts[1], ts[2])
         [] op = "Max" -> maxRule(ts[1], ts[2])
         [] op \in {"Div", "Mod", "CeilDiv", "CeilMod"} -> partialRule(op, ts[1], ts[2])
         [] op \in {"Width", "LenFromThenTo"} -> <<op>> \o ts

\* A type built again from its leaves.
RECURSIVE tRebuild(_)
tRebuild(t) ==
  IF IsLeaf(t) THEN t ELSE tCon(t[1], [n \in 1..(Len(t) - 1) |-> tRebuild(t[n + 1])])
=============================================================================
