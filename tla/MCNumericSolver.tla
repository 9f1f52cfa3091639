--------------------------- MODULE MCNumericSolver ---------------------------
(***************************************************************************)
(* Types, assumptions and goals for the model checker.                     *)
(***************************************************************************)
EXTENDS NumericSolver

MCTVar == {1, 2}
MCFreeTVar == {2}
MCValues == {0, 1, 2, 5, Inf}

a == Var(1)
b == Var(2)
K(n) == Num(n)
inf == Num(Inf)
Add(s, t) == <<"Add", s, t>>
Sub(s, t) == <<"Sub", s, t>>
Mul(s, t) == <<"Mul", s, t>>
MinOf(s, t) == <<"Min", s, t>>
MaxOf(s, t) == <<"Max", s, t>>
Width(t) == <<"Width", t>>
Div(s, t) == <<"Div", s, t>>
Exp(s, t) == <<"Exp", s, t>>

AllOps == Unary \cup Binary \cup Ternary
\* Without the operators whose intervals are not sound.
SoundOps == AllOps \ {"Div", "CeilDiv", "Exp"}

MCAssumptions == {
  <<>>,
  <<Fin(a)>>,
  <<Fin(a), Fin(b), Geq(a, K(1)), Geq(b, K(1))>>,
  <<Equal(a, Add(b, K(1))), Geq(K(2), a), Geq(a, K(1))>>,
  <<Geq(a, Add(b, K(1))), Geq(b, Add(a, K(1)))>>,
  <<Equal(a, Mul(b, K(2))), Fin(a), Geq(K(3), b)>>,
  <<Equal(a, MinOf(b, K(3)))>>,
  <<Equal(a, Sub(K(5), b)), Geq(b, K(2)), Geq(K(5), b)>>,
  <<Geq(K(2), Width(a)), Equal(b, Width(a))>>,
  <<Equal(a, <<"Mod", b, K(3)>>), Fin(b)>>,
  <<ValidFloat(a, b), Geq(a, K(2))>>,
  <<Geq(b, MaxOf(a, K(2))), Equal(a, inf)>>}

Simple == {K(1), K(3), inf, a, b}
Sums == {Add(a, b), Add(K(1), a), Add(K(2), b), Sub(a, b), Sub(a, K(1)), Sub(K(3), a)}
Products == {Mul(a, b), Mul(K(2), a), Mul(K(2), Add(a, K(1)))}
Others == {
  MinOf(a, b), MinOf(K(2), a), Add(K(1), MinOf(a, b)), MaxOf(K(2), b),
  <<"Mod", a, K(2)>>, Width(a), Add(Sub(a, b), b),
  <<"LenFromThenTo", K(0), K(1), a>>}

Related(S, T) == {<<rel, s, t>> : rel \in {"equal", "geq"}, s \in S, t \in T}

\* Every type against the simple ones, and types of one kind against each other.
MCGoals ==
  LET all == Simple \cup Sums \cup Products \cup Others
  IN  {Fin(t) : t \in all} \cup Related(all, Simple) \cup Related(Simple, all)
      \cup Related(Sums, Sums) \cup Related(Products, Products)

\* Quotients by a variable that is positive and finite.
PositiveDivisor == {<<Fin(b), Geq(b, K(1))>>}
Quotients == {Fin(Div(K(5), b)), Geq(K(5), Div(K(5), b)), Geq(K(1), Div(K(5), b))}

=============================================================================
