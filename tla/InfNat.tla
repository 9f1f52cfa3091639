------------------------------- MODULE InfNat -------------------------------
(***************************************************************************)
(* Natural numbers with infinity, the values of Cryptol's numeric types    *)
(* (src/Cryptol/TypeCheck/Solver/InfNat.hs).  Inf and Nothing are numbers  *)
(* outside Nat.                                                            *)
(***************************************************************************)
EXTENDS Integers

Inf     == -1
Nothing == -2               \* an operation that has no result

InfNat == Nat \cup {Inf}

\* The order that is derived for Nat': Inf is declared last.
Leq(x, y) == y = Inf \/ (x # Inf /\ x <= y)

nAdd(x, y) == IF Inf \in {x, y} THEN Inf ELSE x + y

nMul(x, y) == IF 0 \in {x, y} THEN 0 ELSE IF Inf \in {x, y} THEN Inf ELSE x * y

nExp(x, y) ==
  IF y = 0 THEN 1
  ELSE IF x = Inf THEN Inf
  ELSE IF y = Inf THEN IF x \in {0, 1} THEN x ELSE Inf
  ELSE x ^ y

nMin(x, y) == IF Leq(x, y) THEN x ELSE y

nMax(x, y) == IF Leq(x, y) THEN y ELSE x

nSub(x, y) ==
  IF y = Inf THEN Nothing
  ELSE IF x = Inf THEN Inf
  ELSE IF x >= y THEN x - y ELSE Nothing

nDiv(x, y) ==
  IF y = 0 \/ x = Inf THEN Nothing ELSE IF y = Inf THEN 0 ELSE x \div y

nMod(x, y) ==
  IF y = 0 \/ x = Inf THEN Nothing ELSE IF y = Inf THEN x ELSE x % y

nCeilDiv(x, y) ==
  IF y \in {0, Inf} THEN Nothing ELSE IF x = Inf THEN Inf ELSE -((-x) \div y)

nCeilMod(x, y) ==
  IF y \in {0, Inf} THEN Nothing ELSE IF x = Inf THEN 0 ELSE (-x) % y

\* The code shifts by 32 bits while it can, and then by one.
widthInteger[n \in Nat] == IF n = 0 THEN 0 ELSE 1 + widthInteger[n \div 2]

nWidth(x) == IF x = Inf THEN Inf ELSE widthInteger[x]

\* The logarithm rounded down, and whether it is exact.  exactLoop divides as
\* long as no remainder is left and underLoop goes on when one is, so a result
\* is exact when it powers back.  For a base of at least 2 and x > 0.
genLog(x, base) ==
  LET loop[i \in Nat] == IF i < base THEN 0 ELSE 1 + loop[i \div base]
  IN  [log |-> loop[x], exact |-> base ^ loop[x] = x]

nLenFromThenTo(x, y, z) ==
  LET Distance(m, n) == IF m > n THEN m - n ELSE n - m
  IN  IF Inf \in {x, y, z} \/ x = y THEN Nothing
      ELSE IF (x > y /\ z > x) \/ (x < y /\ z < x) THEN 0
      ELSE (Distance(x, z) \div Distance(x, y)) + 1
=============================================================================
