--------------------------- MODULE IntervalsProofs ---------------------------
(***************************************************************************)
(* That the intervals of type variables lose no solution of the            *)
(* assumptions, that the rules of NumericRules which read these intervals  *)
(* are right about every goal and lose no solution either, that the loop   *)
(* of quickSolver is right with them and with any rules that are, for      *)
(* every list of assumptions over the operators of ProvedOps, and three    *)
(* facts about numbers with infinity that the comments of InfNat.hs state. *)
(***************************************************************************)
EXTENDS QuickSolver, SequenceTheorems, FiniteSetTheorems, WellFoundedInduction, TLAPS

\* The operators whose intervals are proved sound.  Div, CeilDiv and Exp are left
\* out because theirs are not sound.
ProvedOps == {"Add", "Sub", "Mul", "Mod", "Min", "Max", "CeilMod", "Width", "LenFromThenTo"}

\* The bounds of widths are numbers.  From k >= width x for another k the code takes
\* x to be finite, also where k may be inf.
WidthBounds ==
  \A ps \in Assumptions : \A n \in DOMAIN ps :
    ps[n][1] = "geq" /\ ps[n][3][1] = "Width" => tIs("Num", ps[n][2])

-----------------------------------------------------------------------------
(* Numbers with infinity *)

\* nSub x y is z exactly when z is the only number with y + z = x
\* (the comment of nSub, InfNat.hs:88).
THEOREM SubIsUnique ==
  ASSUME NEW x \in InfNat, NEW y \in InfNat, NEW z \in InfNat
  PROVE  nSub(x, y) = z <=> /\ nAdd(y, z) = x
                            /\ \A w \in InfNat : nAdd(y, w) = x => w = z
<1>1. CASE y = Inf
  <2>1. /\ nAdd(y, 0) = Inf /\ nAdd(y, 1) = Inf /\ nAdd(y, z) = Inf
        /\ 0 \in InfNat /\ 1 \in InfNat /\ 0 # 1
    BY <1>1 DEF nAdd, InfNat
  <2>2. nSub(x, y) # z
    BY <1>1 DEF nSub, InfNat, Nothing, Inf
  <2> QED BY <2>1, <2>2
<1>2. CASE y # Inf
  BY <1>2 DEF nSub, nAdd, InfNat, Inf, Nothing
<1> QED BY <1>1, <1>2

\* nCeilDiv x y is the least n with x <= y * n (the comment of nCeilDiv, :124).
THEOREM CeilDivIsLeast ==
  ASSUME NEW x \in Nat, NEW y \in Nat \ {0}
  PROVE  /\ nCeilDiv(x, y) \in Nat
         /\ x <= y * nCeilDiv(x, y)
         /\ \A m \in Nat : x <= y * m => nCeilDiv(x, y) <= m
<1> DEFINE q == (-x) \div y
           r == (-x) % y
<1>1. /\ q \in Int /\ r \in 0 .. y - 1 /\ -x = y * q + r
  OBVIOUS
<1>2. nCeilDiv(x, y) = -q
  BY DEF nCeilDiv, Inf
<1>3. x = y * (-q) - r /\ r >= 0 /\ r < y
  BY <1>1
<1> HIDE DEF q, r
<1>4. -q >= 0
  <2>1. SUFFICES ASSUME q >= 1 PROVE FALSE
    BY <1>1
  <2>2. y * q >= y
    BY <2>1, <1>1
  <2> QED BY <2>2, <1>1
<1>5. ASSUME NEW m \in Nat, x <= y * m PROVE -q <= m
  <2>1. SUFFICES ASSUME -q >= m + 1 PROVE FALSE
    BY <1>1
  <2>2. y * (-q) >= y * (m + 1)
    BY <2>1, <1>1
  <2>3. y * (m + 1) = y * m + y
    OBVIOUS
  <2> QED BY <2>2, <2>3, <1>3, <1>5, <1>1
<1> QED BY <1>1, <1>2, <1>3, <1>4, <1>5

-----------------------------------------------------------------------------
(* Numbers of bits *)

\* Powers of two, which are numbers of subsets.
LEMMA PowersOfTwo ==
  /\ 2 ^ 0 = 1
  /\ \A n \in Nat : 2 ^ n \in Nat /\ 2 ^ n >= 1 /\ 2 ^ (n + 1) = 2 * (2 ^ n)
<1> DEFINE Sets(n) == SUBSET (1 .. n)
<1>1. ASSUME NEW n \in Nat
      PROVE  /\ IsFiniteSet(Sets(n)) /\ Cardinality(Sets(n)) = 2 ^ n
             /\ 2 ^ n \in Nat /\ 2 ^ n >= 1
  <2>1. IsFiniteSet(1 .. n) /\ Cardinality(1 .. n) = n
    BY FS_Interval
  <2>2. IsFiniteSet(Sets(n)) /\ Cardinality(Sets(n)) = 2 ^ n
    BY <2>1, FS_SUBSET
  <2>3. {} \in Sets(n)
    OBVIOUS
  <2>4. Cardinality(Sets(n)) \in Nat /\ Cardinality(Sets(n)) # 0
    BY <2>2, <2>3, FS_CardinalityType, FS_EmptySet
  <2> HIDE DEF Sets
  <2> QED BY <2>2, <2>4
<1>2. 2 ^ 0 = 1
  <2>1. Sets(0) = {{}}
    OBVIOUS
  <2>2. Cardinality(Sets(0)) = 1
    BY <2>1, FS_Singleton
  <2> QED BY <1>1, <2>2
<1>3. ASSUME NEW n \in Nat PROVE 2 ^ (n + 1) = 2 * (2 ^ n)
  <2> DEFINE With(S) == S \cup {n + 1}
             Larger == {With(S) : S \in Sets(n)}
             add == [S \in Sets(n) |-> With(S)]
  <2>1. n + 1 \in Nat /\ 1 .. n + 1 = (1 .. n) \cup {n + 1} /\ n + 1 \notin 1 .. n
    OBVIOUS
  <2>2. Sets(n + 1) = Sets(n) \cup Larger
    <3>1. ASSUME NEW S \in Sets(n + 1), n + 1 \in S
          PROVE  S \ {n + 1} \in Sets(n) /\ S = With(S \ {n + 1})
      BY <2>1, <3>1
    <3>2. ASSUME NEW S \in Sets(n + 1), n + 1 \notin S PROVE S \in Sets(n)
      BY <2>1, <3>2
    <3>3. ASSUME NEW S \in Sets(n) PROVE S \in Sets(n + 1) /\ With(S) \in Sets(n + 1)
      BY <2>1, <3>3
    <3> HIDE DEF Sets, With
    <3> QED BY <3>1, <3>2, <3>3
  <2>3. Sets(n) \cap Larger = {}
    BY <2>1
  <2>4. IsFiniteSet(Larger) /\ Cardinality(Larger) = Cardinality(Sets(n))
    <3>1. ASSUME NEW S \in Sets(n), NEW T \in Sets(n), With(S) = With(T) PROVE S = T
      <4>1. S = With(S) \ {n + 1} /\ T = With(T) \ {n + 1}
        BY <2>1
      <4> HIDE DEF With
      <4> QED BY <3>1, <4>1
    <3>2. add \in Bijection(Sets(n), Larger)
      <4> HIDE DEF Sets, With
      <4> QED BY <3>1 DEF Bijection, Injection, Surjection, IsInjective
    <3>3. ExistsBijection(Sets(n), Larger)
      <4> HIDE DEF Sets, With, Larger, add
      <4> QED BY <3>2 DEF ExistsBijection
    <3> HIDE DEF Larger, Sets
    <3> QED BY <1>1, <3>3, FS_Bijection
  <2>5. Cardinality(Sets(n) \cup Larger) = Cardinality(Sets(n)) + Cardinality(Sets(n)) - 0
    <3>1. Cardinality({}) = 0
      BY FS_EmptySet
    <3>2. IsFiniteSet(Sets(n))
      BY <1>1
    <3> HIDE DEF Sets, Larger
    <3>3. Cardinality(Sets(n) \cup Larger)
            = Cardinality(Sets(n)) + Cardinality(Larger) - Cardinality(Sets(n) \cap Larger)
      BY <3>2, <2>4, FS_Union
    <3> QED BY <2>3, <2>4, <3>1, <3>3
  <2> DEFINE p == 2 ^ n
             q == 2 ^ (n + 1)
  <2>6. Cardinality(Sets(n + 1)) = q /\ Cardinality(Sets(n)) = p /\ p \in Nat /\ q \in Nat
    BY <1>1, <2>1
  <2> HIDE DEF Sets, Larger, p, q
  <2>7. q = p + p - 0
    BY <2>2, <2>5, <2>6
  <2>8. q = 2 * p
    BY <2>6, <2>7
  <2> QED BY <2>8 DEF p, q
<1> QED BY <1>1, <1>2, <1>3

\* Induction, for a set of numbers.
LEMMA NumbersBelow ==
  ASSUME NEW S \in SUBSET Nat, \A n \in Nat : (\A m \in 0 .. n - 1 : m \in S) => n \in S
  PROVE  S = Nat
<1> DEFINE R == {ss \in Nat \X Nat : ss[1] < ss[2]}
           T == Nat \ S
<1>1. IsWellFoundedOn(R, Nat)
  BY NatLessThanWellFounded DEF OpToRel
<1>2. ASSUME T # {} PROVE FALSE
  <2>1. PICK x \in T : \A y \in T : <<y, x>> \notin R
    BY <1>1, <1>2, WFMin
  <2>2. ASSUME NEW m \in 0 .. x - 1 PROVE m \in S
    <3>1. m \in Nat /\ <<m, x>> \in R
      BY <2>1
    <3> QED BY <2>1, <3>1
  <2> QED BY <2>1, <2>2
<1> QED BY <1>2

\* v needs at most k bits.
Fits(v, k) == v < 2 ^ k

\* What shifting by a bit does.
LEMMA HalfFits ==
  ASSUME NEW v \in Nat, NEW k \in Nat
  PROVE  /\ v \div 2 \in Nat /\ v # 0 => v \div 2 < v
         /\ Fits(v, k + 1) <=> Fits(v \div 2, k)
         /\ Fits(v, 0) <=> v = 0
         /\ Fits(v, k) => Fits(v, k + 1)
<1> DEFINE p == 2 ^ k
           q == 2 ^ (k + 1)
           h == v \div 2
<1>1. p \in Nat /\ p >= 1 /\ q = 2 * p /\ 2 ^ 0 = 1
  BY PowersOfTwo
<1>2. h \in Nat /\ (v = 2 * h \/ v = 2 * h + 1)
  OBVIOUS
<1> HIDE DEF p, q, h
<1>3. v < q <=> h < p
  BY <1>1, <1>2
<1>4. (v # 0 => h < v) /\ (v < p => v < q) /\ (v < 2 ^ 0 <=> v = 0)
  BY <1>1, <1>2
<1> QED BY <1>2, <1>3, <1>4 DEF Fits, p, q, h

\* k is the number of bits that v needs.
IsWidth(v, k) == k \in Nat /\ Fits(v, k) /\ \A j \in Nat : Fits(v, j) => k <= j

\* widthInteger n is the number of bits needed to represent all numbers from 0 to
\* n (the comment of nWidth, InfNat.hs:154).
THEOREM WidthIsLeast == \A v \in Nat : IsWidth(v, widthInteger[v])
<1> DEFINE Def(f) == f = [n \in Nat |-> IF n = 0 THEN 0 ELSE 1 + f[n \div 2]]
<1>1. IsWidth(0, 0)
  BY HalfFits DEF IsWidth
<1>2. ASSUME NEW v \in Nat \ {0}, NEW k, IsWidth(v \div 2, k)
      PROVE  IsWidth(v, k + 1)
  <2> DEFINE h == v \div 2
  <2>1. k \in Nat /\ k + 1 \in Nat /\ Fits(h, k)
    BY <1>2 DEF IsWidth
  <2>2. ASSUME NEW j \in Nat, Fits(v, j) PROVE k + 1 <= j
    <3>1. j # 0
      BY <2>2, HalfFits
    <3>2. j - 1 \in Nat /\ (j - 1) + 1 = j
      BY <3>1
    <3>3. Fits(h, j - 1)
      BY <2>2, <3>2, HalfFits
    <3>4. k <= j - 1
      BY <1>2, <3>2, <3>3 DEF IsWidth
    <3> QED BY <2>1, <3>4
  <2>3. Fits(v, k + 1)
    BY <2>1, HalfFits
  <2> QED BY <2>1, <2>2, <2>3 DEF IsWidth
<1>3. \A v \in Nat : \E k : IsWidth(v, k)
  <2> DEFINE S == {v \in Nat : \E k : IsWidth(v, k)}
  <2>1. ASSUME NEW n \in Nat, \A m \in 0 .. n - 1 : m \in S PROVE n \in S
    <3>1. CASE n # 0
      <4>1. n \div 2 \in 0 .. n - 1
        BY <3>1, HalfFits
      <4> QED BY <1>2, <2>1, <3>1, <4>1
    <3> QED BY <1>1, <3>1
  <2>2. S \in SUBSET Nat
    OBVIOUS
  <2> HIDE DEF S
  <2>3. S = Nat
    BY <2>1, <2>2, NumbersBelow
  <2> QED BY <2>3 DEF S
<1>4. ASSUME NEW v, NEW k, NEW l, IsWidth(v, k), IsWidth(v, l)
      PROVE  k = l
  <2>1. k \in Nat /\ l \in Nat /\ k <= l /\ l <= k
    BY <1>4 DEF IsWidth
  <2> QED BY <2>1
<1> DEFINE width == [v \in Nat |-> CHOOSE k : IsWidth(v, k)]
<1>5. ASSUME NEW n \in Nat PROVE width[n] = IF n = 0 THEN 0 ELSE 1 + width[n \div 2]
  <2>1. IsWidth(n, width[n])
    BY <1>3
  <2>2. CASE n # 0
    <3>1. n \div 2 \in Nat
      BY HalfFits
    <3>2. IsWidth(n \div 2, width[n \div 2])
      BY <1>3, <3>1
    <3> HIDE DEF width
    <3>3. width[n] = width[n \div 2] + 1 /\ width[n \div 2] \in Nat
      BY <1>2, <1>4, <2>1, <2>2, <3>2 DEF IsWidth
    <3> QED BY <2>2, <3>3
  <2> HIDE DEF width
  <2> QED BY <1>1, <1>4, <2>1, <2>2
<1>6. Def(width)
  BY <1>5
<1>7. widthInteger = CHOOSE f : Def(f)
  BY DEF widthInteger
<1>8. Def(widthInteger)
  <2> HIDE DEF Def, width
  <2> QED BY <1>6, <1>7
<1> DEFINE W == {v \in Nat : IsWidth(v, widthInteger[v])}
<1>9. ASSUME NEW n \in Nat, \A m \in 0 .. n - 1 : m \in W PROVE n \in W
  <2>1. CASE n # 0
    <3>1. n \div 2 \in 0 .. n - 1
      BY <2>1, HalfFits
    <3>2. IsWidth(n \div 2, widthInteger[n \div 2])
      BY <1>9, <3>1
    <3>3. IsWidth(n, widthInteger[n \div 2] + 1)
      BY <1>2, <2>1, <3>2
    <3>4. widthInteger[n] = widthInteger[n \div 2] + 1
      BY <1>8, <2>1, <3>2 DEF IsWidth
    <3> QED BY <3>3, <3>4
  <2> QED BY <1>1, <1>8, <2>1
<1>10. W = Nat
  <2>1. W \in SUBSET Nat
    OBVIOUS
  <2> HIDE DEF W
  <2> QED BY <1>9, <2>1, NumbersBelow
<1> QED BY <1>10

LEMMA PowersGrow ==
  ASSUME NEW m \in Nat, NEW n \in Nat, m <= n
  PROVE  2 ^ m <= 2 ^ n
<1> DEFINE S == {k \in Nat : m <= k => 2 ^ m <= 2 ^ k}
<1>1. ASSUME NEW k \in Nat, \A j \in 0 .. k - 1 : j \in S PROVE k \in S
  <2>1. CASE m < k
    <3> DEFINE p == 2 ^ m
               q == 2 ^ (k - 1)
               r == 2 ^ k
    <3>1. k - 1 \in 0 .. k - 1 /\ m <= k - 1 /\ (k - 1) + 1 = k
      BY <2>1
    <3>2. p <= q /\ p \in Nat /\ q \in Nat
      BY <1>1, <3>1, PowersOfTwo
    <3>3. r = 2 * q
      BY <3>1, PowersOfTwo
    <3> HIDE DEF p, q, r
    <3>4. p <= r
      BY <3>2, <3>3
    <3> QED BY <3>4 DEF p, r
  <2>2. CASE m = k
    BY <2>2, PowersOfTwo
  <2> QED BY <2>1, <2>2
<1>2. S \in SUBSET Nat
  OBVIOUS
<1> HIDE DEF S
<1>3. S = Nat
  BY <1>1, <1>2, NumbersBelow
<1> QED BY <1>3 DEF S

LEMMA WidthTyped ==
  ASSUME NEW x \in InfNat
  PROVE  nWidth(x) \in InfNat /\ (nWidth(x) = Inf <=> x = Inf)
BY WidthIsLeast DEF IsWidth, nWidth, InfNat, Inf

LEMMA WidthMonotone ==
  ASSUME NEW x \in InfNat, NEW y \in InfNat, Leq(x, y)
  PROVE  Leq(nWidth(x), nWidth(y))
<1>1. CASE y = Inf
  BY <1>1 DEF nWidth, Leq
<1>2. CASE y # Inf
  <2> DEFINE p == 2 ^ widthInteger[y]
  <2>1. x \in Nat /\ y \in Nat /\ x <= y
    BY <1>2 DEF Leq, InfNat
  <2>2. widthInteger[y] \in Nat /\ p \in Nat /\ y < p
    BY <2>1, WidthIsLeast, PowersOfTwo DEF IsWidth, Fits
  <2>3. x < p
    <3> HIDE DEF p
    <3> QED BY <2>1, <2>2
  <2>4. widthInteger[x] <= widthInteger[y]
    BY <2>1, <2>2, <2>3, WidthIsLeast DEF IsWidth, Fits
  <2>5. widthInteger[x] \in Nat
    BY <2>1, WidthIsLeast DEF IsWidth
  <2> QED BY <2>1, <2>4, <2>5 DEF nWidth, Leq, Inf
<1> QED BY <1>1, <1>2

-----------------------------------------------------------------------------
(* Operators on intervals: the result of an operation on values within two *)
(* intervals is within the interval that is computed from these.           *)

Sound(x, i) == x \in InfNat /\ i \in Interval /\ In(x, i)

LEMMA AddSound ==
  ASSUME NEW x, NEW y, NEW i, NEW j, Sound(x, i), Sound(y, j)
  PROVE  Sound(nAdd(x, y), iAdd(i, j))
BY DEF Sound, In, iAdd, iUpper, Between, nAdd, Leq, Interval, InfNat, Inf, Nothing

LEMMA MinSound ==
  ASSUME NEW x, NEW y, NEW i, NEW j, Sound(x, i), Sound(y, j)
  PROVE  Sound(nMin(x, y), iMin(i, j))
BY DEF Sound, In, iMin, iUpper, Between, nMin, Leq, Interval, InfNat, Inf, Nothing

LEMMA MaxSound ==
  ASSUME NEW x, NEW y, NEW i, NEW j, Sound(x, i), Sound(y, j)
  PROVE  Sound(nMax(x, y), iMax(i, j))
BY DEF Sound, In, iMax, iUpper, Between, nMax, Leq, Interval, InfNat, Inf, Nothing

LEMMA SubSound ==
  ASSUME NEW x, NEW y, NEW i, NEW j, Sound(x, i), Sound(y, j), nSub(x, y) # Nothing
  PROVE  Sound(nSub(x, y), iSub(i, j))
BY DEF Sound, In, iSub, Default, Between, nSub, Leq, Interval, InfNat, Inf, Nothing

LEMMA ModSound ==
  ASSUME NEW x, NEW y, NEW i, NEW j, Sound(x, i), Sound(y, j), nMod(x, y) # Nothing
  PROVE  Sound(nMod(x, y), iMod(i, j))
BY DEF Sound, In, iMod, Between, nMod, Leq, Interval, InfNat, Inf, Nothing

LEMMA CeilModSound ==
  ASSUME NEW x, NEW y, NEW i, NEW j, Sound(x, i), Sound(y, j), nCeilMod(x, y) # Nothing
  PROVE  Sound(nCeilMod(x, y), iMod(i, j))
BY DEF Sound, In, iMod, Between, nCeilMod, Leq, Interval, InfNat, Inf, Nothing

LEMMA MulMonotone ==
  ASSUME NEW k \in Nat, NEW l \in Nat, NEW m \in Nat, NEW n \in Nat, k <= m, l <= n
  PROVE  k * l \in Nat /\ k * l <= m * n /\ (k > 0 /\ l > 0 => k * l > 0)
<1>1. k * l <= m * l
  OBVIOUS
<1>2. m * l <= m * n
  OBVIOUS
<1> QED BY <1>1, <1>2

LEMMA MulSound ==
  ASSUME NEW x, NEW y, NEW i, NEW j, Sound(x, i), Sound(y, j)
  PROVE  Sound(nMul(x, y), iMul(i, j))
<1> USE DEF Sound, Interval, InfNat, Inf, Nothing
<1>1. /\ x \in InfNat /\ y \in InfNat
      /\ i.lower \in InfNat /\ j.lower \in InfNat
      /\ i.upper \in InfNat \cup {Nothing} /\ j.upper \in InfNat \cup {Nothing}
  OBVIOUS
<1>2. ASSUME NEW m \in InfNat, NEW n \in InfNat PROVE nMul(m, n) \in InfNat
  BY MulMonotone DEF nMul
<1>3. ASSUME NEW k \in InfNat, NEW l \in InfNat, NEW m \in InfNat, NEW n \in InfNat,
             Leq(k, m), Leq(l, n)
      PROVE  Leq(nMul(k, l), nMul(m, n))
  <2>1. CASE k \in Nat /\ l \in Nat /\ m \in Nat /\ n \in Nat
    BY <2>1, <1>3, MulMonotone DEF Leq, nMul
  <2>2. CASE Inf \in {k, l, m, n}
    BY <2>2, <1>3, MulMonotone DEF Leq, nMul
  <2> QED BY <2>1, <2>2
<1>4. Leq(nMul(i.lower, j.lower), nMul(x, y))
  BY <1>1, <1>3 DEF In
<1>5. ASSUME i.upper # Nothing, j.upper # Nothing
      PROVE  Leq(nMul(x, y), nMul(i.upper, j.upper)) /\ iMul(i, j).upper = nMul(i.upper, j.upper)
  BY <1>1, <1>3, <1>5 DEF In, iMul, iUpper, Between
<1>6. ASSUME Nothing \in {i.upper, j.upper}
      PROVE  /\ iMul(i, j).upper \in {Nothing, Inf, 0}
             /\ iMul(i, j).upper = Nothing => nMul(x, y) # Inf
             /\ iMul(i, j).upper = 0 => nMul(x, y) = 0
  <2>1. ASSUME x # Inf, y # Inf PROVE nMul(x, y) # Inf
    BY <2>1, <1>1, MulMonotone DEF nMul
  <2> QED BY <1>1, <1>6, <2>1 DEF In, iMul, iUpper, Between, Leq, nMul
<1>7. iMul(i, j).lower = nMul(i.lower, j.lower)
  BY DEF iMul, Between
<1>8. iMul(i, j) \in Interval
  BY <1>1, <1>2, <1>5, <1>6 DEF iMul, Between
<1> QED
  BY <1>1, <1>2, <1>4, <1>5, <1>6, <1>7, <1>8 DEF In, Leq

LEMMA LenSound ==
  ASSUME NEW x, NEW y, NEW z, NEW i, NEW j, NEW k, Sound(x, i), Sound(y, j), Sound(z, k),
         nLenFromThenTo(x, y, z) # Nothing
  PROVE  Sound(nLenFromThenTo(x, y, z), iLenFromThenTo(i, j, k))
<1> USE DEF Sound, Interval, InfNat, Inf, Nothing
<1>1. nLenFromThenTo(x, y, z) \in Nat
  <2>1. x \in Nat /\ y \in Nat /\ z \in Nat /\ x # y
    BY DEF nLenFromThenTo
  <2>2. ASSUME NEW m \in Nat, NEW n \in Nat \ {0} PROVE (m \div n) + 1 \in Nat
    OBVIOUS
  <2> QED BY <2>1, <2>2 DEF nLenFromThenTo
<1>2. ASSUME iIsExact(i), iIsExact(j), iIsExact(k)
      PROVE  x = i.lower /\ y = j.lower /\ z = k.lower
  BY <1>2 DEF iIsExact, In, Leq
<1> HIDE DEF Sound
<1>3. CASE iIsExact(i) /\ iIsExact(j) /\ iIsExact(k)
  BY <1>1, <1>2, <1>3 DEF iLenFromThenTo, iConst, Between, In, Leq, Sound
<1>4. CASE ~(iIsExact(i) /\ iIsExact(j) /\ iIsExact(k))
  BY <1>1, <1>4 DEF iLenFromThenTo, iAnyFin, Between, In, Leq, Sound
<1> QED BY <1>3, <1>4

LEMMA WidthSound ==
  ASSUME NEW x, NEW i, Sound(x, i)
  PROVE  Sound(nWidth(x), iWidth(i))
<1> DEFINE l == nWidth(i.lower)
           u == nWidth(i.upper)
           w == nWidth(x)
<1>1. /\ x \in InfNat /\ i.lower \in InfNat /\ i.upper \in InfNat \cup {Nothing}
      /\ Leq(i.lower, x) /\ IF i.upper = Nothing THEN x # Inf ELSE Leq(x, i.upper)
  BY DEF Sound, In, Interval
<1>2. /\ l \in InfNat /\ w \in InfNat /\ Leq(l, w)
      /\ IF i.upper = Nothing THEN w # Inf ELSE u \in InfNat /\ Leq(w, u)
  BY <1>1, WidthTyped, WidthMonotone
<1>3. iWidth(i) = Between(l, IF i.upper = Nothing THEN Nothing ELSE u)
  BY DEF iWidth
<1> HIDE DEF l, u, w
<1>4. Sound(w, Between(l, IF i.upper = Nothing THEN Nothing ELSE u))
  BY <1>1, <1>2 DEF Sound, In, Between, Interval, InfNat, Inf, Nothing
<1> QED BY <1>3, <1>4 DEF w

\* A number of at most k bits is within the bound that k >= width x gives x.
LEMMA WidthBoundSound ==
  ASSUME NEW x \in InfNat, NEW k \in InfNat, Leq(nWidth(x), k)
  PROVE  Sound(x, Between(0, widthBound(iConst(k))))
<1>1. widthBound(iConst(k)) = IF k # Inf /\ k < Cutoff THEN 2 ^ k - 1
                              ELSE IF k = Inf THEN Inf ELSE Nothing
  BY DEF widthBound, iConst, iIsExact, Between
<1>2. CASE k = Inf
  BY <1>1, <1>2 DEF Sound, In, Between, Leq, Interval, InfNat, Inf, Nothing
<1>3. CASE k # Inf
  <2> DEFINE p == 2 ^ k
             q == 2 ^ widthInteger[x]
  <2>1. k \in Nat /\ x \in Nat /\ widthInteger[x] \in Nat /\ widthInteger[x] <= k
    BY <1>3, WidthTyped, WidthIsLeast DEF Leq, nWidth, InfNat, IsWidth
  <2>2. x < q /\ q <= p /\ p \in Nat /\ q \in Nat
    BY <2>1, WidthIsLeast, PowersGrow, PowersOfTwo DEF IsWidth, Fits
  <2>3. widthBound(iConst(k)) = IF k < Cutoff THEN p - 1 ELSE Nothing
    BY <1>1, <1>3
  <2> HIDE DEF p, q
  <2>4. p - 1 \in Nat /\ x <= p - 1
    BY <2>1, <2>2
  <2> QED BY <2>1, <2>3, <2>4 DEF Sound, In, Between, Leq, Interval, InfNat, Inf, Nothing
<1> QED BY <1>2, <1>3

LEMMA ApplySound ==
  ASSUME NEW op \in ProvedOps, NEW x, NEW y, NEW z, NEW i, NEW j, NEW k,
         x # Nothing => Sound(x, i), y # Nothing => Sound(y, j), z # Nothing => Sound(z, k),
         vApply(op, x, y, z) # Nothing
  PROVE  Sound(vApply(op, x, y, z), iApply(op, i, j, k))
<1>1. Sound(x, i) /\ Sound(y, j) /\ Sound(z, k)
  BY DEF vApply
<1>2. CASE op = "Add"
  BY <1>1, <1>2, AddSound DEF vApply, iApply
<1>3. CASE op = "Sub"
  BY <1>1, <1>3, SubSound DEF vApply, iApply
<1>4. CASE op = "Mul"
  BY <1>1, <1>4, MulSound DEF vApply, iApply
<1>5. CASE op = "Mod"
  BY <1>1, <1>5, ModSound DEF vApply, iApply
<1>6. CASE op = "Min"
  BY <1>1, <1>6, MinSound DEF vApply, iApply
<1>7. CASE op = "Max"
  BY <1>1, <1>7, MaxSound DEF vApply, iApply
<1>8. CASE op = "CeilMod"
  BY <1>1, <1>8, CeilModSound DEF vApply, iApply
<1>9. CASE op = "LenFromThenTo"
  BY <1>1, <1>9, LenSound DEF vApply, iApply
<1>10. CASE op = "Width"
  BY <1>1, <1>10, WidthSound DEF vApply, iApply
<1> QED BY <1>2, <1>3, <1>4, <1>5, <1>6, <1>7, <1>8, <1>9, <1>10 DEF ProvedOps

-----------------------------------------------------------------------------
(* Types *)

\* The known intervals allow the values s.
Allows(known, s) == \A x \in DOMAIN known : Sound(s[x], known[x])

LEMMA LeafSound ==
  ASSUME NEW s \in [TVar -> InfNat], NEW known, Allows(known, s), NEW t, LeafType(t)
  PROVE  Sound(LeafValue(s, t), LeafInterval(known, t))
<1>1. CASE t[1] = "Num" /\ t[2] \in InfNat
  BY <1>1 DEF LeafValue, LeafInterval, tIsVar, iConst, Between, Sound, In, Leq, Interval, InfNat, Inf, Nothing
<1>2. CASE t[1] = "Var" /\ t[2] \in TVar
  <2>1. Sound(s[t[2]], iAny)
    BY <1>2 DEF iAny, Between, Sound, In, Leq, Interval, InfNat, Inf, Nothing
  <2> QED BY <1>2, <2>1 DEF LeafValue, LeafInterval, tIsVar, tvarInterval, Allows
<1> QED BY <1>1, <1>2 DEF LeafType

LEMMA NumType == LeafType(Num(0))
BY DEF LeafType, Num, InfNat

LEMMA TypeSound ==
  ASSUME NEW s \in [TVar -> InfNat], NEW known, Allows(known, s), Ops \subseteq ProvedOps,
         NEW t, IsType(t), Value(s, t) # Nothing
  PROVE  Sound(Value(s, t), typeInterval(known, t))
<1>1. ASSUME NEW u, LeafType(u)
      PROVE  IsLeaf(u) /\ Sound(LeafValue(s, u), LeafInterval(known, u))
  BY <1>1, LeafSound DEF LeafType, IsLeaf
<1>2. ASSUME NEW u, u[1] \in Ops PROVE u[1] \in ProvedOps /\ ~IsLeaf(u)
  BY <1>2 DEF IsLeaf, ProvedOps
<1>3. ASSUME NEW u, FlatType(u), FlatValue(s, u) # Nothing
      PROVE  Sound(FlatValue(s, u), FlatInterval(known, u))
  <2>1. CASE LeafType(u)
    BY <1>1, <2>1 DEF FlatValue, FlatInterval
  <2>2. CASE u[1] \in Ops /\ \A n \in 1 .. 3 : LeafType(Arg(u, n))
    BY <1>1, <1>2, <1>3, <2>2, ApplySound DEF FlatValue, FlatInterval
  <2> QED BY <1>3, <2>1, <2>2 DEF FlatType, Operation
<1>4. ASSUME NEW u, DeepType(u), DeepValue(s, u) # Nothing
      PROVE  Sound(DeepValue(s, u), DeepInterval(known, u))
  <2>1. CASE LeafType(u)
    BY <1>1, <2>1 DEF DeepValue, DeepInterval
  <2>2. CASE u[1] \in Ops /\ \A n \in 1 .. 3 : FlatType(Arg(u, n))
    BY <1>2, <1>3, <1>4, <2>2, ApplySound DEF DeepValue, DeepInterval
  <2> QED BY <1>4, <2>1, <2>2 DEF DeepType, Operation
<1>5. CASE LeafType(t)
  BY <1>1, <1>5 DEF Value, typeInterval
<1>6. CASE t[1] \in Ops /\ \A n \in 1 .. 3 : DeepType(Arg(t, n))
  BY <1>2, <1>4, <1>6, ApplySound DEF Value, typeInterval
<1> QED BY <1>5, <1>6 DEF IsType, Operation

LEMMA ApplyType ==
  ASSUME NEW op \in ProvedOps, NEW i \in Interval, NEW j \in Interval, NEW k \in Interval
  PROVE  iApply(op, i, j, k) \in Interval
<1> USE DEF Interval, InfNat, Inf, Nothing, Between
<1>1. ASSUME NEW m \in InfNat, NEW n \in InfNat PROVE nMul(m, n) \in InfNat
  BY MulMonotone DEF nMul
<1>2. iMul(i, j) \in Interval
  BY <1>1 DEF iMul, iUpper
<1>3. ASSUME NEW x \in InfNat, NEW y \in InfNat, NEW z \in InfNat
      PROVE  nLenFromThenTo(x, y, z) \in Nat \cup {Nothing}
  <2>1. CASE x \in Nat /\ y \in Nat /\ z \in Nat /\ x # y
    <3>1. ASSUME NEW m \in Nat, NEW n \in Nat \ {0} PROVE (m \div n) + 1 \in Nat
      OBVIOUS
    <3> QED BY <2>1, <3>1 DEF nLenFromThenTo
  <2>2. CASE ~(x \in Nat /\ y \in Nat /\ z \in Nat /\ x # y)
    BY <2>2 DEF nLenFromThenTo
  <2> QED BY <2>1, <2>2
<1>4. iLenFromThenTo(i, j, k) \in Interval
  <2>1. nLenFromThenTo(i.lower, j.lower, k.lower) \in Nat \cup {Nothing}
    BY <1>3
  <2> QED BY <2>1 DEF iLenFromThenTo, iConst, iAnyFin
<1>5. iAdd(i, j) \in Interval /\ iSub(i, j) \in Interval /\ iMod(i, j) \in Interval
  BY DEF iAdd, iUpper, nAdd, iSub, Default, nSub, iMod
<1>6. iMin(i, j) \in Interval /\ iMax(i, j) \in Interval
  BY DEF iMin, iMax, iUpper, nMin, nMax, Leq
<1>7. iWidth(i) \in Interval
  BY WidthTyped DEF iWidth
<1> HIDE DEF Interval, InfNat, Inf, Nothing, Between
<1> QED BY <1>2, <1>4, <1>5, <1>6, <1>7 DEF iApply, ProvedOps

\* What is known are intervals.
Known(known) == \A x \in DOMAIN known : known[x] \in Interval

LEMMA IntervalType ==
  ASSUME NEW known, Known(known), Ops \subseteq ProvedOps, NEW t, IsType(t)
  PROVE  typeInterval(known, t) \in Interval
<1>1. ASSUME NEW u, LeafType(u) PROVE IsLeaf(u) /\ LeafInterval(known, u) \in Interval
  <2>1. iAny \in Interval
    BY DEF iAny, Between, Interval, InfNat, Inf, Nothing
  <2>2. CASE u[1] = "Num" /\ u[2] \in InfNat
    BY <2>2 DEF LeafInterval, tIsVar, iConst, Between, Interval, IsLeaf
  <2>3. CASE u[1] = "Var" /\ u[2] \in TVar
    BY <2>1, <2>3 DEF LeafInterval, tIsVar, tvarInterval, IsLeaf, Known
  <2> QED BY <1>1, <2>2, <2>3 DEF LeafType
<1>2. ASSUME NEW u, u[1] \in Ops PROVE u[1] \in ProvedOps /\ ~IsLeaf(u)
  BY <1>2 DEF IsLeaf, ProvedOps
<1>3. ASSUME NEW u, FlatType(u) PROVE FlatInterval(known, u) \in Interval
  BY <1>1, <1>2, <1>3, ApplyType DEF FlatInterval, FlatType, Operation
<1>4. ASSUME NEW u, DeepType(u) PROVE DeepInterval(known, u) \in Interval
  BY <1>1, <1>2, <1>3, <1>4, ApplyType DEF DeepInterval, DeepType, Operation
<1> QED BY <1>1, <1>2, <1>4, ApplyType DEF typeInterval, IsType, Operation

-----------------------------------------------------------------------------
(* Values of types *)

LEMMA DeepValues ==
  ASSUME NEW s, Ops \subseteq ProvedOps, NEW t, DeepType(t)
  PROVE  IsType(t) /\ Value(s, t) = DeepValue(s, t)
<1>1. ASSUME NEW u, LeafType(u) PROVE IsLeaf(u)
  BY <1>1 DEF LeafType, IsLeaf
<1>2. ASSUME NEW u, Operation(u) PROVE ~IsLeaf(u)
  BY <1>2 DEF Operation, IsLeaf, ProvedOps
<1>3. ASSUME NEW u, FlatType(u) PROVE DeepType(u) /\ DeepValue(s, u) = FlatValue(s, u)
  <2>1. CASE LeafType(u)
    BY <1>1, <2>1 DEF DeepType, DeepValue, FlatValue
  <2>2. CASE Operation(u) /\ \A n \in 1 .. 3 : LeafType(Arg(u, n))
    BY <1>1, <1>2, <2>2 DEF DeepType, FlatType, DeepValue, FlatValue
  <2> QED BY <1>3, <2>1, <2>2 DEF FlatType
<1>4. CASE LeafType(t)
  BY <1>1, <1>4 DEF IsType, Value, DeepValue
<1>5. CASE Operation(t) /\ \A n \in 1 .. 3 : FlatType(Arg(t, n))
  BY <1>2, <1>3, <1>5 DEF IsType, Value, DeepValue
<1> QED BY <1>4, <1>5 DEF DeepType

\* An operation on types, also one whose interval is not sound.
Applies(t, op) == t[1] = op /\ Applied(t) /\ \A n \in 1 .. 3 : DeepType(Arg(t, n))

LEMMA OperationApplies ==
  ASSUME Ops \subseteq ProvedOps, NEW t, IsType(t), t[1] \notin {"Num", "Var"}
  PROVE  Applies(t, t[1]) /\ t[1] \in ProvedOps
BY DEF IsType, Operation, Applies, LeafType

LEMMA BinaryValue ==
  ASSUME NEW s, Ops \subseteq ProvedOps, NEW op \in Binary, NEW t, Applies(t, op)
  PROVE  /\ IsType(t[2]) /\ IsType(t[3]) /\ Arg(t, 1) = t[2] /\ Arg(t, 2) = t[3]
         /\ Value(s, t) = vApply(op, Value(s, t[2]), Value(s, t[3]), 0)
<1>1. Len(t) = 3 /\ ~IsLeaf(t)
  BY DEF Applies, Applied, Binary, Unary, IsLeaf
<1>2. Arg(t, 1) = t[2] /\ Arg(t, 2) = t[3] /\ Arg(t, 3) = Num(0)
  BY <1>1 DEF Arg
<1>3. DeepType(t[2]) /\ DeepType(t[3])
  BY <1>2 DEF Applies
<1>4. DeepValue(s, Num(0)) = 0
  BY DEF DeepValue, IsLeaf, LeafValue, Num, tIsVar
<1>5. Value(s, t) = vApply(op, DeepValue(s, t[2]), DeepValue(s, t[3]), 0)
  BY <1>1, <1>2, <1>4 DEF Value, Applies
<1> QED BY <1>2, <1>3, <1>5, DeepValues

LEMMA WidthValue ==
  ASSUME NEW s, Ops \subseteq ProvedOps, NEW t, IsType(t), t[1] = "Width"
  PROVE  /\ IsType(t[2]) /\ Arg(t, 1) = t[2]
         /\ Value(s, t) = vApply("Width", Value(s, t[2]), 0, 0)
<1>1. Applies(t, "Width")
  BY OperationApplies
<1>2. Len(t) = 2 /\ ~IsLeaf(t)
  BY <1>1 DEF Applies, Applied, Unary, IsLeaf
<1>3. Arg(t, 1) = t[2] /\ Arg(t, 2) = Num(0) /\ Arg(t, 3) = Num(0)
  BY <1>2 DEF Arg
<1>4. DeepType(t[2])
  BY <1>1, <1>3 DEF Applies
<1>5. DeepValue(s, Num(0)) = 0
  BY DEF DeepValue, IsLeaf, LeafValue, Num, tIsVar
<1>6. Value(s, t) = vApply("Width", DeepValue(s, t[2]), 0, 0)
  BY <1>2, <1>3, <1>5 DEF Value
<1> QED BY <1>3, <1>4, <1>6, DeepValues

LEMMA NumValue ==
  ASSUME NEW s, NEW t
  PROVE  /\ aNat0(t) => Value(s, t) = t[2]
         /\ \A n : Value(s, Num(n)) = n
BY DEF aNat0, Value, IsLeaf, LeafValue, tIsVar, Num

LEMMA ValueTyped ==
  ASSUME NEW s \in [TVar -> InfNat], Ops \subseteq ProvedOps, NEW t, IsType(t)
  PROVE  Value(s, t) \in InfNat \cup {Nothing}
<1>1. Allows(<<>>, s)
  BY DEF Allows
<1> QED BY <1>1, TypeSound DEF Sound

LEMMA HoldsOf ==
  ASSUME NEW s, NEW l, NEW r
  PROVE  /\ Defined(s, Fin(l)) <=> Value(s, l) # Nothing
         /\ Holds(s, Fin(l)) <=> Value(s, l) \notin {Nothing, Inf}
         /\ Defined(s, Geq(l, r)) <=> Nothing \notin {Value(s, l), Value(s, r)}
         /\ Holds(s, Geq(l, r)) <=> /\ Nothing \notin {Value(s, l), Value(s, r)}
                                    /\ Leq(Value(s, r), Value(s, l))
         /\ Defined(s, Equal(l, r)) <=> Nothing \notin {Value(s, l), Value(s, r)}
         /\ Holds(s, Equal(l, r)) <=> /\ Nothing \notin {Value(s, l), Value(s, r)}
                                      /\ Value(s, l) = Value(s, r)
         /\ ~Holds(s, False)
<1>1. /\ Defined(s, Fin(l)) <=> Value(s, l) # Nothing
      /\ Defined(s, Geq(l, r)) <=> Nothing \notin {Value(s, l), Value(s, r)}
      /\ Defined(s, Equal(l, r)) <=> Nothing \notin {Value(s, l), Value(s, r)}
  BY DEF Defined, Fin, Geq, Equal
<1>2. Fin(l) # False /\ Geq(l, r) # False /\ Equal(l, r) # False
  BY DEF Fin, Geq, Equal, False
<1>3. Holds(s, Fin(l)) <=> Value(s, l) \notin {Nothing, Inf}
  BY <1>1, <1>2 DEF Holds, Fin
<1>4. Holds(s, Geq(l, r)) <=> /\ Nothing \notin {Value(s, l), Value(s, r)}
                             /\ Leq(Value(s, r), Value(s, l))
  BY <1>1, <1>2 DEF Holds, Geq
<1>5. Holds(s, Equal(l, r)) <=> /\ Nothing \notin {Value(s, l), Value(s, r)}
                               /\ Value(s, l) = Value(s, r)
  BY <1>1, <1>2 DEF Holds, Equal
<1> QED BY <1>1, <1>3, <1>4, <1>5 DEF Holds

-----------------------------------------------------------------------------
(* One constraint *)

\* An entry of what was learned, and whether it allows the values s.
EntryType == [var: TVar, int: Interval]
EntriesAllow(es, s) == \A n \in DOMAIN es : Sound(s[es[n].var], es[n].int)

LEMMA EntriesOfTwo ==
  ASSUME NEW es \in Seq(EntryType), NEW fs \in Seq(EntryType)
  PROVE  /\ es \o fs \in Seq(EntryType)
         /\ \A s : EntriesAllow(es, s) /\ EntriesAllow(fs, s) => EntriesAllow(es \o fs, s)
<1>1. es \o fs \in Seq(EntryType)
  OBVIOUS
<1>2. ASSUME NEW s, EntriesAllow(es, s), EntriesAllow(fs, s), NEW n \in DOMAIN (es \o fs)
      PROVE  Sound(s[(es \o fs)[n].var], (es \o fs)[n].int)
  <2>1. CASE n <= Len(es)
    <3>1. n \in DOMAIN es /\ (es \o fs)[n] = es[n]
      BY <2>1, <1>2
    <3> QED BY <3>1, <1>2 DEF EntriesAllow
  <2>2. CASE n > Len(es)
    <3>1. n - Len(es) \in DOMAIN fs /\ (es \o fs)[n] = fs[n - Len(es)]
      BY <2>2, <1>2
    <3> QED BY <3>1, <1>2 DEF EntriesAllow
  <2> QED BY <2>1, <2>2, <1>2
<1> QED BY <1>1, <1>2 DEF EntriesAllow

LEMMA OneEntry ==
  ASSUME NEW t, IsType(t), NEW i \in Interval
  PROVE  /\ Entry(t, i) \in Seq(EntryType)
         /\ \A s : (tIsVar(t) => Sound(s[t[2]], i)) => EntriesAllow(Entry(t, i), s)
<1>1. CASE tIsVar(t)
  <2>1. t[2] \in TVar
    <3>1. IntervalsAssumption
      BY IntervalsAssumption
    <3>2. "Var" \notin Ops
      BY <3>1 DEF IntervalsAssumption, Unary, Binary, Ternary
    <3> QED BY <1>1, <3>2 DEF IsType, Operation, LeafType, tIsVar
  <2>2. Entry(t, i) = <<[var |-> t[2], int |-> i]>>
    BY <1>1 DEF Entry
  <2>3. [var |-> t[2], int |-> i] \in EntryType
    BY <2>1 DEF EntryType
  <2> QED BY <1>1, <2>2, <2>3 DEF EntriesAllow
<1>2. CASE ~tIsVar(t)
  <2>1. Entry(t, i) = <<>>
    BY <1>2 DEF Entry
  <2> QED BY <2>1 DEF EntriesAllow
<1> QED BY <1>1, <1>2

LEMMA BoundsType ==
  /\ iAnyFin \in Interval
  /\ \A i \in Interval : Between(i.lower, Inf) \in Interval /\ Between(0, i.upper) \in Interval
BY DEF iAnyFin, Between, Interval, InfNat, Inf, Nothing

\* What is learned of x from t >= width x.
WidthEntry(known, p) ==
  IF p[3][1] = "Width" THEN Entry(p[3][2], Between(0, widthBound(typeInterval(known, p[2]))))
  ELSE <<>>

LEMMA WidthLearned ==
  ASSUME NEW known, Known(known), Ops \subseteq ProvedOps, NEW p, IsProp(p), p[1] = "geq"
  PROVE  /\ WidthEntry(known, p) \in Seq(EntryType)
         /\ (p[3][1] = "Width" => tIs("Num", p[2])) =>
              \A s \in [TVar -> InfNat] :
                Allows(known, s) /\ Holds(s, p) => EntriesAllow(WidthEntry(known, p), s)
<1> DEFINE k == p[2]
           w == p[3]
           x == p[3][2]
           i == Between(0, widthBound(typeInterval(known, k)))
<1>1. IsType(k) /\ IsType(w)
  BY DEF IsProp
<1>2. CASE w[1] # "Width"
  <2>1. WidthEntry(known, p) = <<>>
    BY <1>2 DEF WidthEntry
  <2> QED BY <2>1 DEF EntriesAllow
<1>3. CASE w[1] = "Width"
  <2>1. WidthEntry(known, p) = Entry(x, i)
    BY <1>3 DEF WidthEntry
  <2>2. IsType(x)
    BY <1>1, <1>3, WidthValue
  <2>3. i \in Interval
    <3>1. typeInterval(known, k).lower \in InfNat
      BY <1>1, IntervalType DEF Interval
    <3>2. ASSUME NEW n \in Nat PROVE 2 ^ n - 1 \in Nat
      <4> DEFINE q == 2 ^ n
      <4>1. q \in Nat /\ q >= 1
        BY PowersOfTwo
      <4> HIDE DEF q
      <4>2. q - 1 \in Nat
        BY <4>1
      <4> QED BY <4>2 DEF q
    <3> QED BY <3>1, <3>2 DEF widthBound, Between, Interval, InfNat, Inf, Nothing
  <2>4. ASSUME tIs("Num", k), NEW s \in [TVar -> InfNat], Holds(s, p), tIsVar(x)
        PROVE  Sound(s[x[2]], i)
    <3>1. LeafType(k)
      BY <1>1, <2>4, OperationApplies DEF tIs, IsType, Operation, ProvedOps
    <3>2. Value(s, k) = k[2] /\ k[2] \in InfNat /\ typeInterval(known, k) = iConst(k[2])
      BY <2>4, <3>1 DEF tIs, LeafType, Value, LeafValue, IsLeaf, typeInterval, LeafInterval, tIsVar
    <3>3. Value(s, x) = s[x[2]] /\ Value(s, x) \in InfNat
      <4>1. LeafType(x)
        BY <2>2, <2>4, OperationApplies DEF tIsVar, IsType, Operation, ProvedOps
      <4> QED BY <2>4, <4>1 DEF LeafType, Value, LeafValue, IsLeaf, tIsVar
    <3>4. Value(s, w) = nWidth(Value(s, x))
      <4>1. Value(s, w) = vApply("Width", Value(s, x), 0, 0)
        BY <1>1, <1>3, WidthValue
      <4> QED BY <3>3, <4>1 DEF vApply, InfNat, Inf, Nothing
    <3>5. Leq(nWidth(s[x[2]]), k[2])
      BY <2>4, <3>2, <3>3, <3>4 DEF Holds
    <3> QED BY <3>2, <3>3, <3>5, WidthBoundSound
  <2> HIDE DEF k, w, x, i
  <2> QED BY <1>3, <2>1, <2>2, <2>3, <2>4, OneEntry DEF k, w
<1> QED BY <1>2, <1>3

LEMMA Learned ==
  ASSUME NEW known, Known(known), Ops \subseteq ProvedOps, NEW p, IsProp(p)
  PROVE  /\ propInterval(known, p) \in Seq(EntryType)
         /\ (p[1] = "geq" /\ p[3][1] = "Width" => tIs("Num", p[2])) =>
              \A s \in [TVar -> InfNat] :
                Allows(known, s) /\ Holds(s, p) => EntriesAllow(propInterval(known, p), s)
<1> DEFINE L == p[2]
           R == p[3]
           IL == typeInterval(known, L)
           IR == typeInterval(known, R)
           ValueOf(s, t) == tIsVar(t) => Value(s, t) = s[t[2]]
<1>1. IsType(L)
  BY DEF IsProp
<1>2. p[1] # "fin" => IsType(R)
  BY DEF IsProp
<1>3. ASSUME NEW s, NEW t, IsType(t) PROVE ValueOf(s, t)
  BY DEF Value, IsLeaf, tIsVar, LeafValue
<1>4. IL \in Interval /\ (p[1] # "fin" => IR \in Interval)
  BY <1>1, <1>2, IntervalType
<1>5. ASSUME NEW s \in [TVar -> InfNat], Allows(known, s), Holds(s, p)
      PROVE  /\ Sound(Value(s, L), IL)
             /\ p[1] # "fin" => Sound(Value(s, R), IR)
  <2>1. Value(s, L) # Nothing /\ (p[1] # "fin" => Value(s, R) # Nothing)
    BY <1>5 DEF Holds, Defined, IsProp
  <2> QED BY <1>1, <1>2, <1>5, <2>1, TypeSound
<1> HIDE DEF L, R, IL, IR
<1>6. CASE p[1] = "fin"
  <2>1. propInterval(known, p) = Entry(L, iAnyFin)
    BY <1>6 DEF propInterval, L
  <2>2. ASSUME NEW s \in [TVar -> InfNat], Allows(known, s), Holds(s, p), tIsVar(L)
        PROVE  Sound(s[L[2]], iAnyFin)
    <3>1. Value(s, L) = s[L[2]] /\ Value(s, L) # Inf /\ Value(s, L) \in InfNat
      BY <1>1, <1>3, <1>5, <1>6, <2>2 DEF Holds, L, Sound
    <3> QED BY <3>1, BoundsType DEF Sound, In, iAnyFin, Between, Leq, InfNat, Inf, Nothing
  <2> QED BY <1>1, <2>1, <2>2, BoundsType, OneEntry
<1>7. CASE p[1] = "equal"
  <2>1. propInterval(known, p) = Entry(L, IR) \o Entry(R, IL)
    BY <1>7 DEF propInterval, L, R, IL, IR
  <2>2. ASSUME NEW s \in [TVar -> InfNat], Allows(known, s), Holds(s, p)
        PROVE  EntriesAllow(Entry(L, IR), s) /\ EntriesAllow(Entry(R, IL), s)
    <3>1. Value(s, L) = Value(s, R)
      BY <1>7, <2>2 DEF Holds, L, R
    <3>2. (tIsVar(L) => Sound(s[L[2]], IR)) /\ (tIsVar(R) => Sound(s[R[2]], IL))
      BY <1>1, <1>2, <1>3, <1>5, <1>7, <2>2, <3>1
    <3> QED BY <1>1, <1>2, <1>4, <1>7, <3>2, OneEntry
  <2>3. Entry(L, IR) \in Seq(EntryType) /\ Entry(R, IL) \in Seq(EntryType)
    BY <1>1, <1>2, <1>4, <1>7, OneEntry
  <2> QED BY <2>1, <2>2, <2>3, EntriesOfTwo
<1>8. CASE p[1] = "geq"
  <2> DEFINE above == Between(IR.lower, Inf)
             below == Between(0, IL.upper)
             width == WidthEntry(known, p)
  <2>1. propInterval(known, p) = (Entry(L, above) \o Entry(R, below)) \o width
    BY <1>8 DEF propInterval, L, R, IL, IR, WidthEntry
  <2>2. above \in Interval /\ below \in Interval
    BY <1>4, <1>8, BoundsType
  <2>3. ASSUME NEW s \in [TVar -> InfNat], Allows(known, s), Holds(s, p)
        PROVE  EntriesAllow(Entry(L, above), s) /\ EntriesAllow(Entry(R, below), s)
    <3>1. Leq(Value(s, R), Value(s, L))
      BY <1>8, <2>3 DEF Holds, L, R
    <3>2. Sound(Value(s, L), IL) /\ Sound(Value(s, R), IR)
      BY <1>5, <1>8, <2>3
    <3>3. Sound(Value(s, L), above) /\ Sound(Value(s, R), below)
      BY <2>2, <3>1, <3>2 DEF Sound, In, Between, Leq, Interval, InfNat, Inf, Nothing
    <3>4. (tIsVar(L) => Sound(s[L[2]], above)) /\ (tIsVar(R) => Sound(s[R[2]], below))
      BY <1>1, <1>2, <1>3, <1>8, <3>3
    <3> HIDE DEF above, below
    <3> QED BY <1>1, <1>2, <1>8, <2>2, <3>4, OneEntry
  <2>4. Entry(L, above) \in Seq(EntryType) /\ Entry(R, below) \in Seq(EntryType)
    BY <1>1, <1>2, <1>8, <2>2, OneEntry
  <2> HIDE DEF above, below, width
  <2>5. /\ width \in Seq(EntryType)
        /\ (p[3][1] = "Width" => tIs("Num", p[2])) =>
             \A s \in [TVar -> InfNat] : Allows(known, s) /\ Holds(s, p) => EntriesAllow(width, s)
    BY <1>8, WidthLearned DEF width
  <2>6. /\ Entry(L, above) \o Entry(R, below) \in Seq(EntryType)
        /\ \A s \in [TVar -> InfNat] : Allows(known, s) /\ Holds(s, p) =>
             EntriesAllow(Entry(L, above) \o Entry(R, below), s)
    BY <2>3, <2>4, EntriesOfTwo
  <2> QED BY <1>8, <2>1, <2>5, <2>6, EntriesOfTwo
<1>9. CASE p[1] = "float"
  <2>1. propInterval(known, p) = Entry(L, iAnyFin) \o Entry(R, iAnyFin)
    BY <1>9 DEF propInterval, L, R
  <2>2. ASSUME NEW s \in [TVar -> InfNat], Allows(known, s), Holds(s, p)
        PROVE  EntriesAllow(Entry(L, iAnyFin), s) /\ EntriesAllow(Entry(R, iAnyFin), s)
    <3>1. /\ Value(s, L) # Inf /\ Value(s, L) \in InfNat
          /\ Value(s, R) # Inf /\ Value(s, R) \in InfNat
      BY <1>5, <1>9, <2>2 DEF Holds, L, R, Sound
    <3>2. Sound(Value(s, L), iAnyFin) /\ Sound(Value(s, R), iAnyFin)
      BY <3>1, BoundsType DEF Sound, In, iAnyFin, Between, Leq, InfNat, Inf, Nothing
    <3>3. (tIsVar(L) => Sound(s[L[2]], iAnyFin)) /\ (tIsVar(R) => Sound(s[R[2]], iAnyFin))
      BY <1>1, <1>2, <1>3, <1>9, <3>2
    <3> QED BY <1>1, <1>2, <1>9, <3>3, BoundsType, OneEntry
  <2>3. Entry(L, iAnyFin) \in Seq(EntryType) /\ Entry(R, iAnyFin) \in Seq(EntryType)
    BY <1>1, <1>2, <1>9, BoundsType, OneEntry
  <2> QED BY <2>1, <2>2, <2>3, EntriesOfTwo
<1> QED BY <1>6, <1>7, <1>8, <1>9 DEF IsProp

LEMMA IntersectSound ==
  ASSUME NEW i \in Interval, NEW j \in Interval
  PROVE  /\ iIntersect(i, j) \in Interval \cup {NoInterval}
         /\ \A x : Sound(x, i) /\ Sound(x, j) =>
              iIntersect(i, j) # NoInterval /\ Sound(x, iIntersect(i, j))
<1> USE DEF Interval, InfNat, Inf, Nothing, Between, NoInterval, iIntersect, nMax, nMin, Leq
<1>1. iIntersect(i, j) \in Interval \cup {NoInterval}
  OBVIOUS
<1>2. ASSUME NEW x, Sound(x, i), Sound(x, j)
      PROVE  iIntersect(i, j) # NoInterval /\ Sound(x, iIntersect(i, j))
  BY <1>2 DEF Sound, In
<1> QED BY <1>1, <1>2

-----------------------------------------------------------------------------
(* The inductive invariant *)

\* What was learned and is not yet in the intervals allows every solution, too.
LearnedKeepsSolutions ==
  \A s \in [TVar -> Values] : Satisfies(s) => EntriesAllow(learned, s)

IInv == TypeOK /\ KeepsSolutions /\ LearnedKeepsSolutions

\* The intervals of a solution, with the types that In leaves open.
LEMMA SolutionsAllowed ==
  ASSUME TypeOK, NEW s \in [TVar -> Values]
  PROVE  /\ s \in [TVar -> InfNat]
         /\ Allows(ints, s) <=> \A x \in DOMAIN ints : In(s[x], ints[x])
<1>1. Values \subseteq InfNat
  BY IntervalsAssumption DEF IntervalsAssumption
<1>2. s \in [TVar -> InfNat]
  BY <1>1
<1> QED BY <1>2 DEF TypeOK, Allows, Sound

LEMMA AssumptionsTyped ==
  ASSUME NEW ps \in Assumptions
  PROVE  /\ ps \in Seq({ps[n] : n \in DOMAIN ps})
         /\ \A n \in DOMAIN ps : IsProp(ps[n])
BY IntervalsAssumption DEF IntervalsAssumption

\* The constraints that are left are a tail of the list.
LEMMA TodoIsTail ==
  ASSUME NEW ps \in Assumptions, NEW n \in 1 .. Len(ps) + 1, NEW rest,
         rest = SubSeq(ps, n, Len(ps)), rest # <<>>
  PROVE  /\ n \in DOMAIN ps /\ Head(rest) = ps[n]
         /\ Tail(rest) = SubSeq(ps, n + 1, Len(ps)) /\ n + 1 \in 1 .. Len(ps) + 1
<1>1. PICK S : ps \in Seq(S)
  BY AssumptionsTyped
<1>2. Len(rest) = Len(ps) - n + 1 /\ rest \in Seq(S)
  BY <1>1
<1>3. n <= Len(ps)
  BY <1>1, <1>2
<1>4. Head(rest) = ps[n]
  BY <1>1, <1>2, <1>3
<1>5. Tail(rest) = SubSeq(ps, n + 1, Len(ps))
  <2>1. Len(Tail(rest)) = Len(ps) - n /\ Len(SubSeq(ps, n + 1, Len(ps))) = Len(ps) - n
    BY <1>1, <1>2, <1>3
  <2>2. \A m \in 1 .. Len(ps) - n : Tail(rest)[m] = SubSeq(ps, n + 1, Len(ps))[m]
    BY <1>1, <1>2, <1>3
  <2>3. Tail(rest) \in Seq(S) /\ SubSeq(ps, n + 1, Len(ps)) \in Seq(S)
    BY <1>1, <1>2, <1>3
  <2> QED BY <2>1, <2>2, <2>3, SeqEqual
<1> QED BY <1>1, <1>3, <1>4, <1>5

LEMMA InitIInv == Init => IInv
<1> SUFFICES ASSUME Init PROVE IInv
  OBVIOUS
<1>1. PICK S : asmps \in Seq(S)
  BY AssumptionsTyped DEF Init
<1>2. todo = SubSeq(asmps, 1, Len(asmps)) /\ 1 \in 1 .. Len(asmps) + 1
  <2>1. asmps = SubSeq(asmps, 1, Len(asmps))
    BY <1>1
  <2> QED BY <1>1, <2>1 DEF Init
<1>3. TypeOK
  <2>1. DOMAIN ints = {}
    BY DEF Init
  <2>2. learned \in Seq([var: TVar, int: Interval])
    BY DEF Init
  <2>3. rounds \in 0 .. Rounds
    BY IntervalsAssumption DEF Init, IntervalsAssumption
  <2> QED BY <1>2, <2>1, <2>2, <2>3 DEF TypeOK, Init
<1> QED BY <1>3 DEF IInv, KeepsSolutions, LearnedKeepsSolutions, EntriesAllow, Init

LEMMA StepTypeOK ==
  ASSUME Ops \subseteq ProvedOps
  PROVE  TypeOK /\ [Next]_vars => TypeOK'
<1> SUFFICES ASSUME TypeOK, [Next]_vars PROVE TypeOK'
  OBVIOUS
<1>1. CASE Learn
  <2>1. PICK n \in 1 .. Len(asmps) + 1 : todo = SubSeq(asmps, n, Len(asmps))
    BY DEF TypeOK
  <2>2. /\ n \in DOMAIN asmps /\ Head(todo) = asmps[n]
        /\ Tail(todo) = SubSeq(asmps, n + 1, Len(asmps)) /\ n + 1 \in 1 .. Len(asmps) + 1
    BY <1>1, <2>1, TodoIsTail DEF TypeOK, Learn
  <2>3. IsProp(asmps[n])
    BY <2>2, AssumptionsTyped DEF TypeOK
  <2>4. learned' \in Seq(EntryType)
    BY <1>1, <2>2, <2>3, Learned DEF Learn, TypeOK, Known
  <2> QED BY <1>1, <2>2, <2>4 DEF TypeOK, Learn, EntryType
<1>2. CASE updateInterval
  <2> DEFINE x == Head(learned).var
             int == Head(learned).int
             common == IF x \in DOMAIN ints THEN iIntersect(int, ints[x]) ELSE int
  <2>1. learned \in Seq(EntryType) /\ learned # <<>>
    BY <1>2 DEF TypeOK, updateInterval, EntryType
  <2>2. Head(learned) \in EntryType /\ Tail(learned) \in Seq(EntryType)
    BY <2>1
  <2>3. x \in TVar /\ int \in Interval
    BY <2>2 DEF EntryType
  <2>4. common \in Interval \cup {NoInterval}
    BY <2>3, IntersectSound DEF TypeOK
  <2> HIDE DEF x, int, common
  <2>5. /\ learned' = Tail(learned) /\ asmps' = asmps /\ todo' = todo /\ rounds' = rounds
        /\ IF common = NoInterval
           THEN outcome' = "InvalidInterval" /\ ints' = ints /\ new' = new
           ELSE /\ ints' = [y \in DOMAIN ints \cup {x} |-> IF y = x THEN common ELSE ints[y]]
                /\ new' \in BOOLEAN /\ outcome' = outcome
    BY <1>2 DEF updateInterval, x, int, common
  <2>6. learned' \in Seq([var: TVar, int: Interval])
    BY <2>2, <2>5 DEF EntryType
  <2>7. DOMAIN ints' \subseteq TVar /\ \A y \in DOMAIN ints' : ints'[y] \in Interval
    BY <2>3, <2>4, <2>5 DEF TypeOK
  <2> QED BY <2>5, <2>6, <2>7 DEF TypeOK
<1>3. CASE NextRound
  <2>1. PICK S : asmps \in Seq(S)
    BY AssumptionsTyped DEF TypeOK
  <2>2. asmps = SubSeq(asmps, 1, Len(asmps)) /\ 1 \in 1 .. Len(asmps) + 1
    BY <2>1
  <2>3. rounds' \in 0 .. Rounds
    BY <1>3, IntervalsAssumption DEF TypeOK, NextRound, IntervalsAssumption
  <2> QED BY <1>3, <2>2, <2>3 DEF TypeOK, NextRound
<1>4. CASE Settle
  BY <1>4 DEF TypeOK, Settle
<1>5. CASE UNCHANGED vars
  BY <1>5 DEF TypeOK, vars
<1> QED BY <1>1, <1>2, <1>3, <1>4, <1>5 DEF Next

LEMMA StepIInv ==
  ASSUME Ops \subseteq ProvedOps, WidthBounds
  PROVE  IInv /\ [Next]_vars => IInv'
<1> SUFFICES ASSUME IInv, [Next]_vars PROVE IInv'
  OBVIOUS
<1>1. TypeOK /\ KeepsSolutions /\ LearnedKeepsSolutions
  BY DEF IInv
<1>2. Known(ints)
  BY <1>1 DEF TypeOK, Known
<1>3. TypeOK'
  BY <1>1, StepTypeOK
<1>4. CASE Learn
  <2>1. PICK n \in 1 .. Len(asmps) + 1 : todo = SubSeq(asmps, n, Len(asmps))
    BY <1>1 DEF TypeOK
  <2>2. n \in DOMAIN asmps /\ Head(todo) = asmps[n]
    BY <1>1, <1>4, <2>1, TodoIsTail DEF TypeOK, Learn
  <2>3. IsProp(asmps[n])
    BY <1>1, <2>2, AssumptionsTyped DEF TypeOK
  <2>4. ASSUME NEW s \in [TVar -> Values], Satisfies(s) PROVE EntriesAllow(learned', s)
    <3>1. Holds(s, asmps[n])
      BY <2>2, <2>4 DEF Satisfies
    <3>2. Allows(ints, s) /\ s \in [TVar -> InfNat]
      BY <1>1, <2>4, SolutionsAllowed DEF KeepsSolutions
    <3>3. asmps[n][1] = "geq" /\ asmps[n][3][1] = "Width" => tIs("Num", asmps[n][2])
      BY <1>1, <2>2 DEF WidthBounds, TypeOK
    <3> QED BY <1>2, <1>4, <2>2, <2>3, <3>1, <3>2, <3>3, Learned DEF Learn
  <2> QED BY <1>1, <1>3, <1>4, <2>4
          DEF IInv, LearnedKeepsSolutions, KeepsSolutions, Satisfies, Learn
<1>5. CASE updateInterval
  <2> DEFINE x == Head(learned).var
             int == Head(learned).int
             common == IF x \in DOMAIN ints THEN iIntersect(int, ints[x]) ELSE int
  <2>1. learned \in Seq(EntryType) /\ learned # <<>>
    BY <1>1, <1>5 DEF TypeOK, updateInterval, EntryType
  <2>2. /\ Head(learned) \in EntryType /\ Head(learned) = learned[1] /\ 1 \in DOMAIN learned
        /\ \A n \in DOMAIN Tail(learned) : n + 1 \in DOMAIN learned /\ Tail(learned)[n] = learned[n + 1]
    BY <2>1
  <2>3. x \in TVar /\ int \in Interval
    BY <2>2 DEF EntryType
  <2>4. ASSUME NEW s \in [TVar -> Values], Satisfies(s)
        PROVE  /\ common # NoInterval /\ Sound(s[x], common)
               /\ Allows(ints, s) /\ EntriesAllow(Tail(learned), s)
    <3>1. EntriesAllow(learned, s) /\ Allows(ints, s)
      BY <1>1, <2>4, SolutionsAllowed DEF KeepsSolutions, LearnedKeepsSolutions
    <3>2. Sound(s[x], int)
      BY <2>2, <3>1 DEF EntriesAllow
    <3>3. EntriesAllow(Tail(learned), s)
      BY <2>2, <3>1 DEF EntriesAllow
    <3>4. CASE x \in DOMAIN ints
      <4>1. Sound(s[x], ints[x]) /\ ints[x] \in Interval
        BY <1>1, <3>1, <3>4 DEF Allows, TypeOK
      <4> QED BY <2>3, <3>1, <3>2, <3>3, <3>4, <4>1, IntersectSound
    <3>5. CASE x \notin DOMAIN ints
      <4>1. int # NoInterval
        BY <2>3 DEF Interval, NoInterval, Between, InfNat, Nothing, Inf
      <4> QED BY <3>1, <3>2, <3>3, <3>5, <4>1
    <3> QED BY <3>4, <3>5
  <2> HIDE DEF x, int, common
  <2>5. /\ learned' = Tail(learned) /\ asmps' = asmps
        /\ IF common = NoInterval
           THEN outcome' = "InvalidInterval" /\ ints' = ints
           ELSE /\ ints' = [y \in DOMAIN ints \cup {x} |-> IF y = x THEN common ELSE ints[y]]
                /\ outcome' = outcome
    BY <1>5 DEF updateInterval, x, int, common
  <2>6. CASE common = NoInterval
    BY <1>1, <1>3, <2>4, <2>5, <2>6 DEF IInv, KeepsSolutions, LearnedKeepsSolutions, Satisfies
  <2>7. CASE common # NoInterval
    <3>1. ASSUME NEW s \in [TVar -> Values], Satisfies(s)
          PROVE  \A y \in DOMAIN ints' : In(s[y], ints'[y])
      BY <2>4, <2>5, <2>7, <3>1 DEF Allows, Sound
    <3> QED BY <1>1, <1>3, <2>4, <2>5, <2>7, <3>1
            DEF IInv, KeepsSolutions, LearnedKeepsSolutions, Satisfies
  <2> QED BY <2>6, <2>7
<1>6. CASE NextRound
  BY <1>1, <1>3, <1>6 DEF IInv, KeepsSolutions, LearnedKeepsSolutions, Satisfies, NextRound
<1>7. CASE Settle
  BY <1>1, <1>3, <1>7 DEF IInv, KeepsSolutions, LearnedKeepsSolutions, Satisfies, Settle
<1>8. CASE UNCHANGED vars
  BY <1>1, <1>3, <1>8 DEF IInv, KeepsSolutions, LearnedKeepsSolutions, Satisfies, vars
<1> QED BY <1>4, <1>5, <1>6, <1>7, <1>8 DEF Next

-----------------------------------------------------------------------------
(* Theorems *)

\* computePropIntervals loses no solution: whatever values make the assumptions
\* true are within the intervals, and the assumptions are called invalid only if
\* there are none.  For any number of variables, any constants, any lists of
\* assumptions over ProvedOps that bound widths by numbers, and any number of rounds.
THEOREM SolutionsKept ==
  ASSUME Ops \subseteq ProvedOps, WidthBounds
  PROVE  Spec => []KeepsSolutions
<1>1. Init => IInv
  BY InitIInv
<1>2. IInv /\ [Next]_vars => IInv'
  BY StepIInv
<1>3. IInv => KeepsSolutions
  BY DEF IInv
<1> QED BY <1>1, <1>2, <1>3, PTL DEF Spec

\* The intervals are well formed: a lower bound, and an upper bound, inf or none.
THEOREM IntervalsTyped ==
  ASSUME Ops \subseteq ProvedOps
  PROVE  Spec => []TypeOK
<1>1. Init => TypeOK
  BY InitIInv DEF IInv
<1>2. TypeOK /\ [Next]_vars => TypeOK'
  BY StepTypeOK
<1> QED BY <1>1, <1>2, PTL DEF Spec

-----------------------------------------------------------------------------
(* Rules *)

\* The first rule that matches is one of the rules.
LEMMA FirstOfRules ==
  ASSUME NEW rules, NEW k \in Nat, DOMAIN rules = 1 .. k
  PROVE  FirstOf(rules) = NoMatch \/ \E n \in 1 .. k : FirstOf(rules) = rules[n]
<1> DEFINE matching == {n \in DOMAIN rules : rules[n] # NoMatch}
      First(n) == rules[n] # NoMatch /\ \A m \in 1 .. n - 1 : rules[m] = NoMatch
<1>1. SUFFICES ASSUME matching # {} PROVE \E n \in DOMAIN rules : First(n)
  BY DEF FirstOf
<1> DEFINE R == {ss \in Nat \X Nat : ss[1] < ss[2]}
<1>2. IsWellFoundedOn(R, Nat)
  BY NatLessThanWellFounded DEF OpToRel
<1>3. matching \subseteq Nat
  OBVIOUS
<1>4. PICK n \in matching : \A m \in matching : <<m, n>> \notin R
  <2> HIDE DEF matching, R
  <2> QED BY <1>1, <1>2, <1>3, WFMin
<1>5. ASSUME NEW m \in matching PROVE n <= m
  <2>1. n \in Nat /\ m \in Nat /\ <<m, n>> \notin R
    BY <1>3, <1>4
  <2>2. ~(m < n)
    BY <2>1
  <2> QED BY <2>1, <2>2
<1>6. n \in 1 .. k /\ rules[n] # NoMatch
  OBVIOUS
<1>7. ASSUME NEW m \in 1 .. n - 1 PROVE rules[m] = NoMatch
  <2>1. m \in 1 .. k /\ ~(n <= m)
    BY <1>6
  <2>2. m \notin matching
    BY <1>5, <2>1
  <2> QED BY <2>1, <2>2
<1> QED BY <1>6, <1>7

LEMMA MatchOfRules ==
  ASSUME NEW S, NEW rules \in Seq(S)
  PROVE  \/ FirstMatch(rules) \in {NoMatch, Unsolved}
         \/ \E n \in 1 .. Len(rules) : FirstMatch(rules) = rules[n]
<1> DEFINE all == Append(rules, Unsolved)
<1>1. rules \in Seq(S \cup {Unsolved})
  OBVIOUS
<1>2. /\ Len(rules) + 1 \in Nat /\ DOMAIN all = 1 .. Len(rules) + 1
      /\ \A n \in 1 .. Len(rules) + 1 :
           all[n] = IF n <= Len(rules) THEN rules[n] ELSE Unsolved
  BY <1>1
<1> HIDE DEF all
<1>3. FirstOf(all) = NoMatch \/ \E n \in 1 .. Len(rules) + 1 : FirstOf(all) = all[n]
  BY <1>2, FirstOfRules
<1>4. FirstMatch(rules) = FirstOf(all)
  BY DEF FirstMatch, all
<1> QED BY <1>2, <1>3, <1>4

LEMMA EitherRule ==
  ASSUME NEW a, NEW b
  PROVE  Either(a, b) \in {NoMatch, a, b}
  BY DEF Either

LEMMA FirstOfThree ==
  ASSUME NEW a, NEW b, NEW c
  PROVE  FirstMatch(<<a, b, c>>) \in {NoMatch, a, b, c, Unsolved}
<1>1. /\ <<a, b, c>> \in Seq({a, b, c}) /\ Len(<<a, b, c>>) = 3
      /\ \A n \in 1 .. 3 : <<a, b, c>>[n] \in {a, b, c}
  OBVIOUS
<1> QED BY <1>1, MatchOfRules

LEMMA FirstOfFour ==
  ASSUME NEW a, NEW b, NEW c, NEW d
  PROVE  FirstMatch(<<a, b, c, d>>) \in {NoMatch, a, b, c, d, Unsolved}
<1>1. /\ <<a, b, c, d>> \in Seq({a, b, c, d}) /\ Len(<<a, b, c, d>>) = 4
      /\ \A n \in 1 .. 4 : <<a, b, c, d>>[n] \in {a, b, c, d}
  OBVIOUS
<1> QED BY <1>1, MatchOfRules

LEMMA FirstOfFive ==
  ASSUME NEW a, NEW b, NEW c, NEW d, NEW e
  PROVE  FirstOf(<<a, b, c, d, e>>) \in {NoMatch, a, b, c, d, e}
<1>1. /\ DOMAIN <<a, b, c, d, e>> = 1 .. 5
      /\ \A n \in 1 .. 5 : <<a, b, c, d, e>>[n] \in {a, b, c, d, e}
  OBVIOUS
<1> QED BY <1>1, FirstOfRules

\* What a rule says is true, and the rule loses no values that make the goal true.
ExactFor(s, r, p) == RightFor(s, r, p) /\ KeepsFor(s, r, p)

\* What the answers of rules mean.
LEMMA Answers ==
  ASSUME NEW s, NEW p, Defined(s, p)
  PROVE  /\ ExactFor(s, NoMatch, p) /\ ExactFor(s, Unsolved, p)
         /\ ExactFor(s, Unsolvable, p) <=> ~Holds(s, p)
         /\ ExactFor(s, SolvedIf(<<>>), p) <=> Holds(s, p)
         /\ \A q : (Holds(s, q) <=> Holds(s, p)) => ExactFor(s, SolvedIf(<<q>>), p)
         /\ \A q, r : (Holds(s, q) /\ Holds(s, r) <=> Holds(s, p))
                        => ExactFor(s, SolvedIf(<<q, r>>), p)
BY DEF ExactFor, RightFor, KeepsFor, Refuted, NoMatch, Unsolved, Unsolvable, SolvedIf

\* How the rules use what is known of an argument: a value that is in its interval.
LEMMA FiniteSound ==
  ASSUME NEW x, NEW i, Sound(x, i)
  PROVE  /\ iIsFin(i) => x # Inf
         /\ AtLeast(1, i.lower) => x # 0
         /\ iIsPosFin(i) => x \notin {0, Inf}
BY DEF Sound, In, iIsFin, iIsPosFin, AtLeast, Leq, Interval, InfNat, Inf, Nothing

\* Values of the variables that the intervals allow.
Allowed(s) == s \in [TVar -> InfNat] /\ Allows(intervals, s) /\ Ops \subseteq ProvedOps

\* pFin t holds exactly if t is finite.
LEMMA pFinHolds ==
  ASSUME NEW s, Allowed(s), NEW t, IsType(t)
  PROVE  Holds(s, pFin(t)) <=> Value(s, t) \in Nat
<1>1. Value(s, t) \in InfNat \cup {Nothing}
  BY ValueTyped DEF Allowed
<1>2. CASE aNat(t)
  <2>1. LeafType(t)
    BY <1>2, OperationApplies DEF aNat, IsType, Operation, Allowed, ProvedOps
  <2>2. Holds(s, True) /\ pFin(t) = True
    BY <1>2 DEF Holds, Defined, True, False, pFin
  <2> QED BY <1>2, <2>1, <2>2, NumValue DEF LeafType, aNat, aNat0, InfNat
<1>3. CASE ~aNat(t)
  <2>1. CASE aInf(t)
    <3>1. Value(s, t) = Inf /\ ~Holds(s, pFin(t))
      BY <1>3, <2>1, NumValue, HoldsOf DEF pFin, aInf
    <3> QED BY <3>1 DEF Inf
  <2>2. CASE ~aInf(t)
    BY <1>1, <1>3, <2>2, HoldsOf DEF pFin, InfNat, Inf, Nothing
  <2> QED BY <2>1, <2>2
<1> QED BY <1>2, <1>3

\* The values of an operation that has one.
LEMMA Operands ==
  ASSUME NEW s, Allowed(s), NEW op \in Binary, NEW t, Applies(t, op), Value(s, t) # Nothing
  PROVE  /\ IsType(t[2]) /\ IsType(t[3]) /\ Arg(t, 1) = t[2] /\ Arg(t, 2) = t[3]
         /\ Value(s, t[2]) \in InfNat /\ Value(s, t[3]) \in InfNat
         /\ Value(s, t) = vApply(op, Value(s, t[2]), Value(s, t[3]), 0)
         /\ Nothing \notin {Value(s, t[2]), Value(s, t[3]), 0}
<1>1. /\ IsType(t[2]) /\ IsType(t[3]) /\ Arg(t, 1) = t[2] /\ Arg(t, 2) = t[3]
      /\ Value(s, t) = vApply(op, Value(s, t[2]), Value(s, t[3]), 0)
  BY BinaryValue DEF Allowed
<1>2. Nothing \notin {Value(s, t[2]), Value(s, t[3])}
  BY <1>1 DEF vApply
<1> QED BY <1>1, <1>2, ValueTyped DEF Allowed, Nothing

\* The interval of a type that has a value.
LEMMA TypeAllowed ==
  ASSUME NEW s, Allowed(s), NEW t, IsType(t), Value(s, t) # Nothing
  PROVE  Sound(Value(s, t), typeInterval(intervals, t))
BY TypeSound DEF Allowed

-----------------------------------------------------------------------------
(* fin t *)

\* The types of fin goals: the outermost operation may also be a quotient.
FinGoal(t) == IsType(t) \/ Applies(t, "Div") \/ Applies(t, "CeilDiv")

LEMMA FinMul ==
  ASSUME NEW s, Allowed(s), NEW t, Applies(t, "Mul"), Value(s, t) # Nothing
  PROVE  ExactFor(s, cryIsFinType(t), Fin(t))
<1> DEFINE x == Value(s, t[2])
           y == Value(s, t[3])
           i == typeInterval(intervals, t[2])
           j == typeInterval(intervals, t[3])
           Fine(r) == ExactFor(s, r, Fin(t))
<1>1. /\ IsType(t[2]) /\ IsType(t[3]) /\ Arg(t, 1) = t[2] /\ Arg(t, 2) = t[3]
      /\ x \in InfNat /\ y \in InfNat /\ x # Nothing /\ y # Nothing
      /\ Value(s, t) = nMul(x, y)
  BY Operands DEF vApply, Binary
<1>2. Sound(x, i) /\ Sound(y, j)
  BY <1>1, TypeAllowed
<1>3. t[1] = "Mul"
  BY DEF Applies
<1>4. Holds(s, pFin(t[2])) <=> x # Inf
  BY <1>1, pFinHolds DEF InfNat, Inf
<1>5. Holds(s, pFin(t[3])) <=> y # Inf
  BY <1>1, pFinHolds DEF InfNat, Inf
<1>6. Defined(s, Fin(t)) /\ (Holds(s, Fin(t)) <=> nMul(x, y) # Inf)
  BY <1>1, HoldsOf
<1>7. nMul(x, y) = Inf <=> \/ x = Inf /\ y # 0
                           \/ y = Inf /\ x # 0
  BY <1>1, MulMonotone DEF nMul, InfNat, Inf
<1>8. /\ (iIsFin(i) => x # Inf) /\ (iIsFin(j) => y # Inf)
      /\ iIsPosFin(i) => x \notin {0, Inf}
      /\ iIsPosFin(j) => y \notin {0, Inf}
      /\ (AtLeast(1, i.lower) => x # 0) /\ (AtLeast(1, j.lower) => y # 0)
  BY <1>2, FiniteSound
<1> DEFINE rule1 == Try(iIsPosFin(i), SolvedIf(<<pFin(t[3])>>))
           rule2 == Try(iIsPosFin(j), SolvedIf(<<pFin(t[2])>>))
           rule3 == Try(AtLeast(1, i.lower) /\ AtLeast(1, j.lower),
                        SolvedIf(<<pFin(t[2]), pFin(t[3])>>))
           rule4 == Try(iIsFin(i) /\ iIsFin(j), SolvedIf(<<>>))
<1>9. cryIsFinType(t) = FirstMatch(<<rule1, rule2, rule3, rule4>>)
  BY <1>1, <1>3 DEF cryIsFinType, finRule
<1> HIDE DEF x, y, i, j
<1>11. Fine(NoMatch) /\ Fine(Unsolved)
  BY <1>6, Answers
<1>10. Fine(rule1) /\ Fine(rule2) /\ Fine(rule3) /\ Fine(rule4)
  BY <1>4, <1>5, <1>6, <1>7, <1>8, <1>11, Answers DEF Try, Inf
<1> HIDE DEF rule1, rule2, rule3, rule4
<1> QED BY <1>9, <1>10, <1>11, FirstOfFour

LEMMA FinMin ==
  ASSUME NEW s, Allowed(s), NEW t, Applies(t, "Min"), Value(s, t) # Nothing
  PROVE  ExactFor(s, cryIsFinType(t), Fin(t))
<1> DEFINE x == Value(s, t[2])
           y == Value(s, t[3])
           i == typeInterval(intervals, t[2])
           j == typeInterval(intervals, t[3])
           Fine(r) == ExactFor(s, r, Fin(t))
<1>1. /\ IsType(t[2]) /\ IsType(t[3]) /\ Arg(t, 1) = t[2] /\ Arg(t, 2) = t[3]
      /\ x \in InfNat /\ y \in InfNat /\ x # Nothing /\ y # Nothing
      /\ Value(s, t) = nMin(x, y)
  BY Operands DEF vApply, Binary
<1>2. Sound(x, i) /\ Sound(y, j)
  BY <1>1, TypeAllowed
<1>3. (iIsFin(i) => x # Inf) /\ (iIsFin(j) => y # Inf)
  BY <1>2, FiniteSound
<1>4. Defined(s, Fin(t)) /\ (Holds(s, Fin(t)) <=> nMin(x, y) # Inf)
  BY <1>1, HoldsOf
<1>5. nMin(x, y) = Inf <=> x = Inf /\ y = Inf
  BY <1>1 DEF nMin, Leq, InfNat, Inf
<1>6. (Holds(s, pFin(t[2])) <=> x # Inf) /\ (Holds(s, pFin(t[3])) <=> y # Inf)
  BY <1>1, pFinHolds DEF InfNat, Inf
<1>10. /\ i.upper # Nothing /\ Leq(i.upper, j.lower) /\ y # Inf => x # Inf
       /\ j.upper # Nothing /\ Leq(j.upper, i.lower) /\ x # Inf => y # Inf
  BY <1>2 DEF Sound, In, Leq, Interval, InfNat, Inf, Nothing
<1> DEFINE rule1 == Try(iIsFin(i) \/ iIsFin(j), SolvedIf(<<>>))
           rule2 == Try(i.upper # Nothing /\ Leq(i.upper, j.lower), SolvedIf(<<pFin(t[2])>>))
           rule3 == Try(j.upper # Nothing /\ Leq(j.upper, i.lower), SolvedIf(<<pFin(t[3])>>))
<1>7. cryIsFinType(t) = FirstMatch(<<rule1, rule2, rule3>>)
  BY <1>1 DEF cryIsFinType, finRule, Applies
<1> HIDE DEF x, y, i, j
<1>9. Fine(NoMatch) /\ Fine(Unsolved)
  BY <1>4, Answers
<1>8. Fine(rule1) /\ Fine(rule2) /\ Fine(rule3)
  BY <1>3, <1>4, <1>5, <1>6, <1>9, <1>10, Answers DEF Try
<1> HIDE DEF rule1, rule2, rule3
<1> QED BY <1>7, <1>8, <1>9, FirstOfThree

\* The operations that are finite whenever their first argument is, or both are,
\* or always.
LEMMA FinBinary ==
  ASSUME NEW s, Allowed(s), NEW op \in Binary \ {"Mul", "Min", "Exp"}, NEW t, Applies(t, op),
         Value(s, t) # Nothing
  PROVE  ExactFor(s, cryIsFinType(t), Fin(t))
<1> DEFINE x == Value(s, t[2])
           y == Value(s, t[3])
<1>1. /\ IsType(t[2]) /\ IsType(t[3]) /\ Arg(t, 1) = t[2] /\ Arg(t, 2) = t[3]
      /\ x \in InfNat /\ y \in InfNat /\ t[1] = op
      /\ Value(s, t) = vApply(op, x, y, 0) /\ Nothing \notin {x, y, 0}
  BY Operands DEF Applies
<1>2. /\ Defined(s, Fin(t)) /\ (Holds(s, Fin(t)) <=> vApply(op, x, y, 0) # Inf)
      /\ Holds(s, pFin(t[2])) <=> x # Inf
      /\ Holds(s, pFin(t[3])) <=> y # Inf
  BY <1>1, HoldsOf, pFinHolds DEF InfNat, Inf
<1> HIDE DEF x, y
<1>3. CASE op \in {"Add", "Max"}
  <2>1. x # Inf /\ y # Inf <=> vApply(op, x, y, 0) # Inf
    BY <1>1, <1>3 DEF vApply, nAdd, nMax, Leq, InfNat, Inf
  <2>2. cryIsFinType(t) = SolvedIf(<<pFin(t[2]), pFin(t[3])>>)
    BY <1>1, <1>3 DEF cryIsFinType, finRule
  <2> QED BY <1>2, <2>1, <2>2, Answers
<1>4. CASE op \in {"Sub", "CeilDiv"}
  <2>1. x # Inf <=> vApply(op, x, y, 0) # Inf
    <3>1. CASE op = "Sub"
      BY <1>1, <3>1 DEF vApply, nSub, InfNat, Inf, Nothing
    <3>2. CASE op = "CeilDiv" /\ y \in Nat \ {0}
      <4>1. vApply(op, x, y, 0) = nCeilDiv(x, y)
        BY <1>1, <3>2 DEF vApply
      <4>2. CASE x = Inf
        BY <3>2, <4>1, <4>2 DEF nCeilDiv, Inf
      <4>3. CASE x \in Nat
        <5>1. nCeilDiv(x, y) \in Nat
          BY <3>2, <4>3, CeilDivIsLeast
        <5> QED BY <4>1, <4>3, <5>1 DEF Inf
      <4> QED BY <1>1, <4>2, <4>3 DEF InfNat
    <3>3. CASE op = "CeilDiv" /\ y \notin Nat \ {0}
      BY <1>1, <3>3 DEF vApply, nCeilDiv, InfNat, Inf, Nothing
    <3> QED BY <1>4, <3>1, <3>2, <3>3
  <2>2. cryIsFinType(t) = SolvedIf(<<pFin(t[2])>>)
    BY <1>1, <1>4 DEF cryIsFinType, finRule
  <2> QED BY <1>2, <2>1, <2>2, Answers
<1>5. CASE op \in {"Div", "Mod", "CeilMod"}
  <2>1. \A m \in Nat, n \in Nat \ {0} : m \div n \in Nat /\ m % n \in Nat /\ (-m) % n \in Nat
    OBVIOUS
  <2>2. vApply(op, x, y, 0) # Inf
    BY <1>1, <1>5, <2>1 DEF vApply, nDiv, nMod, nCeilMod, InfNat, Inf, Nothing
  <2>3. cryIsFinType(t) = SolvedIf(<<>>)
    BY <1>1, <1>5 DEF cryIsFinType, finRule
  <2> QED BY <1>2, <2>2, <2>3, Answers
<1> QED BY <1>3, <1>4, <1>5 DEF Binary

LEMMA FinLength ==
  ASSUME NEW s, Allowed(s), NEW t, IsType(t), t[1] = "LenFromThenTo", Value(s, t) # Nothing
  PROVE  ExactFor(s, cryIsFinType(t), Fin(t))
<1>1. Applies(t, "LenFromThenTo") /\ ~IsLeaf(t)
  BY OperationApplies DEF Allowed, IsLeaf
<1> DEFINE x == DeepValue(s, Arg(t, 1))
           y == DeepValue(s, Arg(t, 2))
           z == DeepValue(s, Arg(t, 3))
<1>2. Value(s, t) = vApply("LenFromThenTo", x, y, z)
  BY <1>1 DEF Value
<1>3. Nothing \notin {x, y, z} /\ Value(s, t) = nLenFromThenTo(x, y, z)
  BY <1>2 DEF vApply
<1>4. \A n \in 1 .. 3 : DeepValue(s, Arg(t, n)) \in InfNat \cup {Nothing}
  BY <1>1, DeepValues, ValueTyped DEF Applies, Allowed
<1> HIDE DEF x, y, z
<1>5. Sound(x, iAny) /\ Sound(y, iAny) /\ Sound(z, iAny)
  BY <1>3, <1>4 DEF x, y, z, Sound, In, iAny, Between, Leq, Interval, InfNat, Inf, Nothing
<1>6. Sound(Value(s, t), iLenFromThenTo(iAny, iAny, iAny))
  BY <1>3, <1>5, LenSound
<1>7. iLenFromThenTo(iAny, iAny, iAny) = iAnyFin
  BY DEF iLenFromThenTo, iIsExact, iAny, Between, Inf
<1>8. Value(s, t) # Inf
  BY <1>6, <1>7 DEF Sound, In, iAnyFin, Between
<1>9. cryIsFinType(t) = SolvedIf(<<>>)
  BY DEF cryIsFinType, finRule
<1>10. Defined(s, Fin(t)) /\ Holds(s, Fin(t))
  BY <1>8, HoldsOf
<1> QED BY <1>9, <1>10, Answers

LEMMA FinWidth ==
  ASSUME NEW s, Allowed(s), NEW t, IsType(t), t[1] = "Width", Value(s, t) # Nothing
  PROVE  ExactFor(s, cryIsFinType(t), Fin(t))
<1> DEFINE x == Value(s, t[2])
<1>1. IsType(t[2]) /\ Arg(t, 1) = t[2] /\ Value(s, t) = vApply("Width", x, 0, 0)
  BY WidthValue DEF Allowed
<1>2. x # Nothing /\ Value(s, t) = nWidth(x)
  BY <1>1 DEF vApply
<1>3. x \in InfNat
  BY <1>1, <1>2, ValueTyped DEF Allowed
<1>4. Value(s, t) # Inf <=> x # Inf
  BY <1>2, <1>3, WidthTyped
<1>5. cryIsFinType(t) = SolvedIf(<<pFin(t[2])>>)
  BY <1>1 DEF cryIsFinType, finRule
<1>6. Holds(s, pFin(t[2])) <=> x # Inf
  BY <1>1, <1>3, pFinHolds DEF InfNat, Inf
<1>7. Defined(s, Fin(t)) /\ (Holds(s, Fin(t)) <=> x # Inf)
  BY <1>4, HoldsOf
<1> QED BY <1>5, <1>6, <1>7, Answers

LEMMA FinLeaf ==
  ASSUME NEW s, Allowed(s), NEW t, LeafType(t)
  PROVE  ExactFor(s, cryIsFinType(t), Fin(t))
<1>1. CASE t[1] = "Num" /\ t[2] \in InfNat
  <2>1. cryIsFinType(t) = IF aNat(t) THEN SolvedIf(<<>>) ELSE Unsolvable
    BY <1>1 DEF cryIsFinType, finRule
  <2>2. Defined(s, Fin(t)) /\ (Holds(s, Fin(t)) <=> aNat(t))
    BY <1>1, NumValue, HoldsOf DEF aNat, aNat0, InfNat, Inf, Nothing
  <2> QED BY <2>1, <2>2, Answers
<1>2. CASE t[1] = "Var" /\ t[2] \in TVar
  <2>1. cryIsFinType(t) = IF t[2] \in DOMAIN intervals /\ iIsFin(intervals[t[2]])
                          THEN SolvedIf(<<>>) ELSE Unsolved
    BY <1>2 DEF cryIsFinType, finRule
  <2>2. Value(s, t) = s[t[2]] /\ s[t[2]] \in InfNat
    BY <1>2 DEF Value, IsLeaf, LeafValue, tIsVar, Allowed
  <2>3. ASSUME t[2] \in DOMAIN intervals, iIsFin(intervals[t[2]])
        PROVE  Holds(s, Fin(t))
    <3>1. Sound(s[t[2]], intervals[t[2]])
      BY <2>3 DEF Allowed, Allows
    <3>2. s[t[2]] # Inf
      BY <2>3, <3>1, FiniteSound
    <3> QED BY <2>2, <3>2, HoldsOf DEF InfNat, Inf, Nothing
  <2>4. Defined(s, Fin(t))
    BY <2>2, HoldsOf DEF InfNat, Inf, Nothing
  <2> QED BY <2>1, <2>3, <2>4, Answers
<1> QED BY <1>1, <1>2 DEF LeafType

LEMMA FinRuleRight ==
  ASSUME NEW s, Allowed(s), NEW t, FinGoal(t), Defined(s, Fin(t))
  PROVE  ExactFor(s, cryIsFinType(t), Fin(t))
<1>1. Value(s, t) # Nothing
  BY HoldsOf
<1>2. CASE Applies(t, "Div") \/ Applies(t, "CeilDiv")
  BY <1>1, <1>2, FinBinary DEF Binary
<1>3. CASE IsType(t)
  <2>1. CASE LeafType(t)
    BY <2>1, FinLeaf
  <2>2. CASE ~LeafType(t)
    <3>1. Applies(t, t[1]) /\ t[1] \in ProvedOps
      BY <1>3, <2>2 DEF IsType, Operation, Applies, Allowed
    <3>2. CASE t[1] = "LenFromThenTo"
      BY <1>1, <1>3, <3>2, FinLength
    <3>3. CASE t[1] = "Width"
      BY <1>1, <1>3, <3>3, FinWidth
    <3>4. CASE t[1] \notin {"LenFromThenTo", "Width"}
      BY <1>1, <3>1, <3>4, FinBinary, FinMul, FinMin DEF ProvedOps, Binary
    <3> QED BY <3>2, <3>3, <3>4
  <2> QED BY <2>1, <2>2
<1> QED BY <1>2, <1>3 DEF FinGoal

-----------------------------------------------------------------------------
(* t1 >= t2 *)

\* Types that are numbers.
LEMMA NumberType ==
  ASSUME NEW s, Allowed(s), NEW t, IsType(t), aNat0(t)
  PROVE  Value(s, t) = t[2] /\ t[2] \in InfNat
<1>1. LeafType(t)
  BY DEF aNat0, IsType, Operation, Allowed, ProvedOps
<1> QED BY <1>1, NumValue DEF LeafType, aNat0

\* A bound on a product with a number bounds its other factor, rounded down.
LEMMA QuotientBound ==
  ASSUME NEW k \in Nat, NEW m \in Nat \ {0}, NEW n \in Nat
  PROVE  n <= k \div m <=> m * n <= k
<1> DEFINE q == k \div m
           r == k % m
<1>1. q \in Nat /\ r \in 0 .. m - 1 /\ k = m * q + r
  OBVIOUS
<1> HIDE DEF q, r
<1>2. m * n \in Nat /\ m * q \in Nat
  BY <1>1
<1>3. ASSUME n <= q PROVE m * n <= m * q
  BY <1>1, <1>3
<1>4. ASSUME n >= q + 1 PROVE m * n >= m * q + m
  <2>1. m * n >= m * (q + 1) /\ m * (q + 1) = m * q + m
    BY <1>1, <1>4
  <2> QED BY <2>1
<1>5. n <= q <=> m * n <= k
  BY <1>1, <1>2, <1>3, <1>4
<1> QED BY <1>5 DEF q

LEMMA GeqKThanRight ==
  ASSUME NEW s, Allowed(s), NEW x, IsType(x), aNat0(x), NEW y, IsType(y), Defined(s, Geq(x, y))
  PROVE  ExactFor(s, tryGeqKThan(y, x[2]), Geq(x, y))
<1> DEFINE k == x[2]
           v == Value(s, y)
<1>1. /\ k \in InfNat /\ v \in InfNat /\ v # Nothing
      /\ Defined(s, Geq(x, y)) /\ (Holds(s, Geq(x, y)) <=> Leq(v, k))
  BY NumberType, ValueTyped, HoldsOf DEF Allowed, InfNat, Inf, Nothing
<1>2. CASE k = Inf
  <2>1. tryGeqKThan(y, k) = SolvedIf(<<>>)
    BY <1>2 DEF tryGeqKThan
  <2> QED BY <1>1, <1>2, <2>1, Answers DEF Leq
<1>3. CASE k # Inf /\ tIs("Mul", y) /\ aNat0(y[2])
  <2> DEFINE m == y[2][2]
             b == Value(s, y[3])
  <2>1. Applies(y, "Mul")
    BY <1>3, OperationApplies DEF tIs, Allowed
  <2>2. /\ IsType(y[2]) /\ IsType(y[3]) /\ b \in InfNat
        /\ v = nMul(Value(s, y[2]), b) /\ b # Nothing
    BY <1>1, <2>1, Operands DEF Binary, vApply
  <2>3. m \in InfNat /\ v = nMul(m, b)
    BY <1>3, <2>2, NumberType
  <2>4. CASE m = 0
    <3>1. tryGeqKThan(y, k) = SolvedIf(<<>>)
      BY <1>3, <2>4 DEF tryGeqKThan, Try
    <3> QED BY <1>1, <2>3, <2>4, <3>1, Answers DEF nMul, Leq, InfNat, Inf
  <2>5. CASE m = Inf
    <3>1. tryGeqKThan(y, k) = SolvedIf(<<Equal(y[3], Num(0))>>)
      BY <1>3, <2>5 DEF tryGeqKThan, Try, Inf
    <3>2. Holds(s, Equal(y[3], Num(0))) <=> b = 0
      BY <2>2, HoldsOf, NumValue DEF Nothing
    <3>3. b = 0 <=> Leq(v, k)
      BY <1>1, <1>3, <2>2, <2>3, <2>5 DEF nMul, Leq, InfNat, Inf
    <3> QED BY <1>1, <3>1, <3>2, <3>3, Answers
  <2>6. CASE m \in Nat \ {0}
    <3>1. tryGeqKThan(y, k) = SolvedIf(<<Geq(Num(k \div m), y[3])>>)
      BY <1>3, <2>6 DEF tryGeqKThan, Try, Inf
    <3>3. k \in Nat /\ k \div m \in Nat
      BY <1>1, <1>3, <2>6 DEF InfNat
    <3>2. Holds(s, Geq(Num(k \div m), y[3])) <=> Leq(b, k \div m)
      BY <2>2, <3>3, HoldsOf, NumValue DEF Nothing
    <3>4. Leq(b, k \div m) <=> b \in Nat /\ b <= k \div m
      BY <2>2, <3>3 DEF Leq, InfNat, Inf
    <3> HIDE DEF k, m, b, v
    <3>5. Leq(b, k \div m) <=> b \in Nat /\ m * b <= k
      BY <2>6, <3>3, <3>4, QuotientBound
    <3>6. Leq(b, k \div m) <=> Leq(v, k)
      <4>1. CASE b \in Nat
        <5>1. v = m * b /\ m * b \in Nat
          BY <2>3, <2>6, <4>1, MulMonotone DEF nMul, Inf
        <5> QED BY <3>5, <4>1, <5>1, <3>3 DEF Leq, Inf
      <4>2. CASE b = Inf
        <5>1. v = Inf
          BY <2>3, <2>6, <4>2 DEF nMul, Inf
        <5> QED BY <3>4, <3>3, <4>2, <5>1 DEF Leq, Inf
      <4> QED BY <2>2, <4>1, <4>2 DEF InfNat
    <3> QED BY <1>1, <3>1, <3>2, <3>6, Answers DEF k, m, b, v
  <2> QED BY <2>3, <2>4, <2>5, <2>6 DEF InfNat
<1>4. CASE k # Inf /\ ~(tIs("Mul", y) /\ aNat0(y[2]))
  <2>1. tryGeqKThan(y, k) = NoMatch
    BY <1>4 DEF tryGeqKThan, Try
  <2> QED BY <1>1, <2>1, Answers
<1> QED BY <1>2, <1>3, <1>4

LEMMA GeqThanKRight ==
  ASSUME NEW s, Allowed(s), NEW x, IsType(x), NEW y, IsType(y), aNat0(y), Defined(s, Geq(x, y))
  PROVE  ExactFor(s, tryGeqThanK(x, y[2]), Geq(x, y))
<1> DEFINE k == y[2]
           v == Value(s, x)
<1>1. /\ k \in InfNat /\ v \in InfNat /\ v # Nothing
      /\ Defined(s, Geq(x, y)) /\ (Holds(s, Geq(x, y)) <=> Leq(k, v))
  BY NumberType, ValueTyped, HoldsOf DEF Allowed, InfNat, Inf, Nothing
<1>2. CASE k = Inf
  <2>1. tryGeqThanK(x, k) = SolvedIf(<<Equal(x, Num(Inf))>>)
    BY <1>2 DEF tryGeqThanK
  <2>2. Holds(s, Equal(x, Num(Inf))) <=> v = Inf
    BY <1>1, HoldsOf, NumValue DEF Nothing, Inf
  <2> QED BY <1>1, <1>2, <2>1, <2>2, Answers DEF Leq
<1>3. CASE k # Inf /\ IsSumK(x)
  <2> DEFINE m == x[2][2]
             b == Value(s, x[3])
  <2>1. Applies(x, "Add")
    BY <1>3, OperationApplies DEF IsSumK, tIs, Allowed
  <2>2. /\ IsType(x[2]) /\ IsType(x[3]) /\ b \in InfNat /\ b # Nothing
        /\ v = nAdd(Value(s, x[2]), b)
    BY <1>1, <2>1, Operands DEF Binary, vApply
  <2>3. aNat0(x[2]) /\ m # Inf
    BY <1>3 DEF IsSumK, aNat, aNat0
  <2>4. m \in Nat /\ v = nAdd(m, b) /\ k \in Nat
    BY <1>1, <1>3, <2>2, <2>3, NumberType DEF InfNat
  <2>5. tryGeqThanK(x, k) = SolvedIf(IF m >= k THEN <<>> ELSE <<Geq(x[3], Num(k - m))>>)
    BY <1>3 DEF tryGeqThanK, Try
  <2> HIDE DEF k, m, b, v
  <2>7. m >= k \/ Leq(k - m, b) <=> Leq(k, v)
    BY <2>2, <2>4 DEF nAdd, Leq, InfNat, Inf
  <2>8. CASE m >= k
    BY <1>1, <2>5, <2>7, <2>8, Answers DEF k
  <2>9. CASE ~(m >= k)
    <3>1. k - m \in Nat
      BY <2>4, <2>9
    <3>2. Holds(s, Geq(x[3], Num(k - m))) <=> Leq(k - m, b)
      BY <2>2, <3>1, HoldsOf, NumValue DEF b, Nothing
    <3> QED BY <1>1, <2>5, <2>7, <2>9, <3>2, Answers DEF k
  <2> QED BY <2>8, <2>9
<1>4. CASE k # Inf /\ ~IsSumK(x)
  <2>1. tryGeqThanK(x, k) = NoMatch
    BY <1>4 DEF tryGeqThanK, Try
  <2> QED BY <1>1, <2>1, Answers
<1> QED BY <1>2, <1>3, <1>4

LEMMA NotError ==
  ASSUME Ops \subseteq ProvedOps, NEW t, IsType(t)
  PROVE  t # Error
<1>1. "Error" \notin Ops
  BY DEF ProvedOps
<1> QED BY <1>1 DEF Error, IsType, LeafType, Operation

LEMMA GeqOthersRight ==
  ASSUME NEW s, Allowed(s), NEW x, IsType(x), NEW y, IsType(y), Defined(s, Geq(x, y))
  PROVE  /\ ExactFor(s, pBin(x, y, Leq(y[2], x[2])), Geq(x, y))
         /\ ExactFor(s, tryGeqThanVar(x, y), Geq(x, y))
         /\ ExactFor(s, tryGeqThanSub(x, y), Geq(x, y))
         /\ ExactFor(s, geqByInterval(x, y), Geq(x, y))
         /\ ExactFor(s, trySame(x, y), Geq(x, y))
         /\ ExactFor(s, tryMinIsGeq(x, y), Geq(x, y))
<1> DEFINE u == Value(s, x)
           v == Value(s, y)
           Fine(r) == ExactFor(s, r, Geq(x, y))
<1>1. /\ u \in InfNat /\ v \in InfNat /\ u # Nothing /\ v # Nothing
      /\ Defined(s, Geq(x, y)) /\ (Holds(s, Geq(x, y)) <=> Leq(v, u))
  BY ValueTyped, HoldsOf DEF Allowed, InfNat, Inf, Nothing
<1>2. Fine(NoMatch) /\ (Leq(v, u) => Fine(SolvedIf(<<>>))) /\ (~Leq(v, u) => Fine(Unsolvable))
  BY <1>1, Answers
<1>3. Leq(u, u)
  BY <1>1 DEF Leq, InfNat, Inf
<1>4. Fine(pBin(x, y, Leq(y[2], x[2])))
  <2>1. Error \notin {x, y}
    BY NotError DEF Allowed
  <2>2. CASE aNat0(x) /\ aNat0(y)
    <3>1. u = x[2] /\ v = y[2]
      BY <2>2, NumberType
    <3> QED BY <1>2, <2>1, <2>2, <3>1 DEF pBin, Try
  <2>3. CASE ~(aNat0(x) /\ aNat0(y))
    BY <1>2, <2>1, <2>3 DEF pBin, Try
  <2> QED BY <2>2, <2>3
<1>5. Fine(tryGeqThanVar(x, y))
  <2>1. CASE tIs("Add", x) /\ y \in {x[2], x[3]}
    <3>1. Applies(x, "Add")
      BY <2>1, OperationApplies DEF tIs, Allowed
    <3>2. /\ Value(s, x[2]) \in InfNat /\ Value(s, x[3]) \in InfNat
          /\ u = nAdd(Value(s, x[2]), Value(s, x[3]))
      BY <1>1, <3>1, Operands DEF Binary, vApply
    <3>3. Leq(v, u)
      BY <2>1, <3>2 DEF nAdd, Leq, InfNat, Inf
    <3> QED BY <1>2, <3>3 DEF tryGeqThanVar, Try
  <2>2. CASE ~(tIs("Add", x) /\ y \in {x[2], x[3]})
    BY <1>2, <2>2 DEF tryGeqThanVar, Try
  <2> QED BY <2>1, <2>2
<1>6. Fine(tryGeqThanSub(x, y))
  <2>1. CASE tIs("Sub", y) /\ y[2] = x
    <3>1. Applies(y, "Sub")
      BY <2>1, OperationApplies DEF tIs, Allowed
    <3>2. Value(s, y[3]) \in InfNat /\ v = nSub(u, Value(s, y[3]))
      BY <1>1, <2>1, <3>1, Operands DEF Binary, vApply
    <3>3. Leq(v, u)
      BY <1>1, <3>2 DEF nSub, Leq, InfNat, Inf, Nothing
    <3> QED BY <1>2, <3>3 DEF tryGeqThanSub, Try
  <2>2. CASE ~(tIs("Sub", y) /\ y[2] = x)
    BY <1>2, <2>2 DEF tryGeqThanSub, Try
  <2> QED BY <2>1, <2>2
<1>7. Fine(geqByInterval(x, y))
  <2> DEFINE i == typeInterval(intervals, x)
             j == typeInterval(intervals, y)
  <2>1. Sound(u, i) /\ Sound(v, j)
    BY <1>1, TypeAllowed
  <2>2. geqByInterval(x, y) = Try(j.upper # Nothing /\ Leq(j.upper, i.lower), SolvedIf(<<>>))
    BY DEF geqByInterval
  <2> HIDE DEF i, j, u, v
  <2>3. j.upper # Nothing /\ Leq(j.upper, i.lower) => Leq(v, u)
    BY <2>1 DEF Sound, In, Leq, Interval, InfNat, Inf, Nothing
  <2> QED BY <1>2, <2>2, <2>3 DEF Try
<1>8. Fine(trySame(x, y))
  BY <1>2, <1>3 DEF trySame, Try
<1>9. Fine(tryMinIsGeq(x, y))
  <2>1. CASE tIs("Min", x) /\ aNat(x[2]) /\ aNat(y)
    <3> DEFINE b == Value(s, x[3])
    <3>1. Applies(x, "Min")
      BY <2>1, OperationApplies DEF tIs, Allowed
    <3>2. /\ IsType(x[2]) /\ b \in InfNat /\ b # Nothing /\ u = nMin(Value(s, x[2]), b)
      BY <1>1, <3>1, Operands DEF Binary, vApply
    <3>3. /\ Value(s, x[2]) = x[2][2] /\ x[2][2] \in Nat /\ v = y[2] /\ y[2] \in Nat
      BY <2>1, <3>2, NumberType DEF aNat, aNat0, InfNat
    <3>4. u = nMin(x[2][2], b)
      BY <3>2, <3>3
    <3>5. tryMinIsGeq(x, y) = IF x[2][2] >= y[2] THEN SolvedIf(<<Geq(x[3], y)>>) ELSE Unsolvable
      BY <2>1 DEF tryMinIsGeq, Try
    <3>6. Holds(s, Geq(x[3], y)) <=> Leq(v, b)
      BY <1>1, <3>2, HoldsOf
    <3>7. CASE x[2][2] >= y[2]
      <4>1. Leq(v, b) <=> Leq(v, u)
        BY <3>2, <3>3, <3>4, <3>7 DEF nMin, Leq, InfNat, Inf
      <4> QED BY <1>1, <3>5, <3>6, <3>7, <4>1, Answers
    <3>8. CASE ~(x[2][2] >= y[2])
      <4>1. ~Leq(v, u)
        BY <3>2, <3>3, <3>4, <3>8 DEF nMin, Leq, InfNat, Inf
      <4> QED BY <1>2, <3>5, <3>8, <4>1
    <3> QED BY <3>7, <3>8
  <2>2. CASE ~(tIs("Min", x) /\ aNat(x[2]) /\ aNat(y))
    BY <1>2, <2>2 DEF tryMinIsGeq, Try
  <2> QED BY <2>1, <2>2
<1> QED BY <1>4, <1>5, <1>6, <1>7, <1>8, <1>9

LEMMA GeqRulesRight ==
  ASSUME NEW s, Allowed(s), NEW x, IsType(x), NEW y, IsType(y), Defined(s, Geq(x, y)),
         NEW r \in GeqRules(x, y)
  PROVE  ExactFor(s, r, Geq(x, y))
<1>1. ExactFor(s, NoMatch, Geq(x, y))
  BY Answers
<1> QED BY <1>1, GeqKThanRight, GeqThanKRight, GeqOthersRight DEF GeqRules

-----------------------------------------------------------------------------
(* t1 = t2 *)

\* A sum without inf and a product without zero, as tAdd and tMul build them.
Simplified(t) ==
  /\ tIs("Add", t) => ~(aNat0(t[2]) /\ t[2][2] = Inf)
  /\ tIs("Mul", t) => ~(aNat0(t[2]) /\ t[2][2] = 0)

LEMMA Multiples ==
  ASSUME NEW k \in Nat, NEW m \in Nat \ {0}
  PROVE  /\ k \div m \in Nat
         /\ k % m = 0 => m * (k \div m) = k
         /\ \A n \in Nat : m * n = k => k % m = 0 /\ n = k \div m
<1> DEFINE q == k \div m
           r == k % m
<1>1. q \in Nat /\ r \in 0 .. m - 1 /\ k = m * q + r
  OBVIOUS
<1> HIDE DEF q, r
<1>2. m * q \in Nat
  BY <1>1
<1>3. ASSUME NEW n \in Nat, m * n = k PROVE r = 0 /\ n = q
  <2>1. CASE n <= q
    <3>1. CASE n = q
      BY <1>1, <1>2, <1>3, <3>1
    <3>2. CASE n + 1 <= q
      <4>1. m * (n + 1) <= m * q /\ m * (n + 1) = m * n + m
        BY <1>1, <3>2
      <4> QED BY <1>1, <1>2, <1>3, <4>1
    <3> QED BY <1>1, <2>1, <3>1, <3>2
  <2>2. CASE n >= q + 1
    <3>1. m * n >= m * (q + 1) /\ m * (q + 1) = m * q + m
      BY <1>1, <2>2
    <3> QED BY <1>1, <1>2, <1>3, <3>1
  <2> QED BY <1>1, <2>1, <2>2
<1> QED BY <1>1, <1>2, <1>3 DEF q, r

\* Whether a number is a multiple of a number: n is the value of t.
LEMMA EqMulKRight ==
  ASSUME NEW s, NEW t, NEW n \in InfNat, Value(s, t) = n,
         NEW k \in InfNat, NEW m \in InfNat \ {0},
         NEW p, Defined(s, p), Holds(s, p) <=> nMul(m, n) = k
  PROVE  ExactFor(s, tryEqMulK(t, k, m), p)
<1>1. /\ \A l \in InfNat : Holds(s, Equal(t, Num(l))) <=> n = l
      /\ Holds(s, Geq(t, Num(1))) <=> Leq(1, n)
      /\ 0 \in InfNat /\ Inf \in InfNat
  BY HoldsOf, NumValue DEF InfNat, Inf, Nothing
<1>2. CASE k = Inf /\ m = Inf
  <2>1. tryEqMulK(t, k, m) = SolvedIf(<<Geq(t, Num(1))>>)
    BY <1>2 DEF tryEqMulK
  <2>2. Leq(1, n) <=> nMul(m, n) = k
    BY <1>2 DEF nMul, Leq, InfNat, Inf
  <2> QED BY <1>1, <2>1, <2>2, Answers
<1>3. CASE k = Inf /\ m # Inf
  <2>1. tryEqMulK(t, k, m) = SolvedIf(<<Equal(t, Num(Inf))>>)
    BY <1>3 DEF tryEqMulK
  <2>2. n = Inf <=> nMul(m, n) = k
    <3>1. n # Inf /\ n # 0 => m * n \in Nat /\ nMul(m, n) = m * n
      BY <1>3, MulMonotone DEF nMul, InfNat, Inf
    <3> QED BY <1>3, <3>1 DEF nMul, InfNat, Inf
  <2> QED BY <1>1, <2>1, <2>2, Answers
<1>4. CASE k # Inf /\ m = Inf
  <2>1. tryEqMulK(t, k, m) = IF k = 0 THEN SolvedIf(<<Equal(t, Num(0))>>) ELSE Unsolvable
    BY <1>4 DEF tryEqMulK
  <2>2. CASE k = 0
    <3>1. n = 0 <=> nMul(m, n) = k
      BY <1>4, <2>2 DEF nMul, InfNat, Inf
    <3> QED BY <1>1, <2>1, <2>2, <3>1, Answers
  <2>3. CASE k # 0
    <3>1. nMul(m, n) # k
      BY <1>4, <2>3 DEF nMul, InfNat, Inf
    <3> QED BY <2>1, <2>3, <3>1, Answers
  <2> QED BY <2>2, <2>3
<1>5. CASE k # Inf /\ m # Inf
  <2>1. k \in Nat /\ m \in Nat \ {0}
    BY <1>5 DEF InfNat
  <2>2. tryEqMulK(t, k, m) =
          IF k % m = 0 THEN SolvedIf(<<Equal(t, Num(k \div m))>>) ELSE Unsolvable
    BY <2>1, <1>5 DEF tryEqMulK
  <2>3. CASE k % m = 0
    <3>1. k \div m \in Nat /\ m * (k \div m) = k
      BY <2>1, <2>3, Multiples
    <3>2. n = k \div m <=> nMul(m, n) = k
      <4>1. CASE n \in Nat
        <5>1. nMul(m, n) = m * n
          BY <2>1, <4>1 DEF nMul, Inf
        <5>2. m * n = k => n = k \div m
          BY <2>1, <4>1, Multiples
        <5> QED BY <3>1, <5>1, <5>2
      <4>2. CASE n = Inf
        BY <2>1, <3>1, <4>2 DEF nMul, Inf
      <4> QED BY <4>1, <4>2 DEF InfNat
    <3>3. k \div m \in InfNat
      BY <3>1 DEF InfNat
    <3> QED BY <1>1, <2>2, <2>3, <3>2, <3>3, Answers
  <2>4. CASE k % m # 0
    <3>1. k # 0
      BY <2>1, <2>4
    <3>2. \A l \in Nat : m * l # k
      BY <2>1, <2>4, Multiples
    <3>3. nMul(m, n) # k
      BY <2>1, <3>1, <3>2 DEF nMul, InfNat, Inf
    <3> QED BY <2>2, <2>4, <3>3, Answers
  <2> QED BY <2>3, <2>4
<1> QED BY <1>2, <1>3, <1>4, <1>5

LEMMA EqKRight ==
  ASSUME NEW s, Allowed(s), NEW t, IsType(t), Simplified(t), Value(s, t) # Nothing,
         NEW k \in InfNat, NEW p, Defined(s, p), Holds(s, p) <=> Value(s, t) = k
  PROVE  ExactFor(s, tryEqK(t, k), p)
<1> DEFINE v == Value(s, t)
           a == Value(s, t[2])
           b == Value(s, t[3])
           Finite(u) == iIsFin(typeInterval(intervals, u))
           Fine(r) == ExactFor(s, r, p)
           infLeft == Try(Finite(t[2]), SolvedIf(<<Equal(t[3], Num(Inf))>>))
           infRight == Try(Finite(t[3]), SolvedIf(<<Equal(t[2], Num(Inf))>>))
           rule1 == IF k = Inf /\ tIs("Add", t) THEN Either(infLeft, infRight) ELSE NoMatch
           rule2 == IF tIs("Add", t) /\ aNat0(t[2])
                    THEN IF nSub(k, t[2][2]) = Nothing THEN Unsolvable
                         ELSE SolvedIf(<<Equal(t[3], Num(nSub(k, t[2][2])))>>)
                    ELSE NoMatch
           rule3 == Try(tIs("Sub", t) /\ aNat0(t[3]),
                        SolvedIf(<<Equal(t[2], Num(nAdd(k, t[3][2])))>>))
           rule4 == Try(tIs("Mul", t) /\ aNat0(t[2]), tryEqMulK(t[3], k, t[2][2]))
           rule5 == Try(tIs("Exp", t) /\ aNat(t[2]), tryEqExpK(t[3], k, t[2][2]))
<1>1. tryEqK(t, k) = FirstOf(<<rule1, rule2, rule3, rule4, rule5>>)
  BY DEF tryEqK
<1>2. Fine(NoMatch) /\ (v = k => Fine(SolvedIf(<<>>))) /\ (v # k => Fine(Unsolvable))
  BY Answers
<1>3. \A u : \A n \in InfNat : Value(s, u) # Nothing /\ (Value(s, u) = n <=> v = k)
                                  => Fine(SolvedIf(<<Equal(u, Num(n))>>))
  BY HoldsOf, NumValue, Answers DEF InfNat, Inf, Nothing
<1>4. ASSUME NEW op \in Binary, tIs(op, t)
      PROVE  /\ IsType(t[2]) /\ IsType(t[3]) /\ a \in InfNat /\ b \in InfNat
             /\ v = vApply(op, a, b, 0) /\ Nothing \notin {a, b, 0}
             /\ aNat0(t[2]) => a = t[2][2]
             /\ aNat0(t[3]) => b = t[3][2]
  <2>1. Applies(t, op)
    BY <1>4, OperationApplies DEF tIs, Allowed, Binary
  <2> QED BY <2>1, Operands, NumberType
<1>5. Fine(rule1)
  <2>1. CASE k = Inf /\ tIs("Add", t)
    <3>1. v = nAdd(a, b)
      BY <2>1, <1>4 DEF vApply, Binary
    <3>2. /\ a # Inf => (b = Inf <=> v = k)
          /\ b # Inf => (a = Inf <=> v = k)
          /\ a \in InfNat /\ b \in InfNat /\ a # Nothing /\ b # Nothing /\ Inf \in InfNat
      BY <2>1, <3>1, <1>4 DEF nAdd, Binary, InfNat, Inf
    <3>5. (Finite(t[2]) => a # Inf) /\ (Finite(t[3]) => b # Inf)
      BY <2>1, <1>4, TypeAllowed, FiniteSound DEF Binary
    <3>3. Fine(infLeft) /\ Fine(infRight)
      BY <1>2, <1>3, <3>2, <3>5 DEF Try
    <3>4. rule1 \in {NoMatch, infLeft, infRight}
      BY <2>1, EitherRule
    <3> QED BY <1>2, <3>3, <3>4
  <2> QED BY <1>2, <2>1
<1>6. Fine(rule2)
  <2>1. CASE tIs("Add", t) /\ aNat0(t[2])
    <3>1. v = nAdd(a, b) /\ a \in InfNat /\ b \in InfNat /\ a = t[2][2] /\ a # Inf
      BY <2>1, <1>4 DEF vApply, Binary, Simplified
    <3>2. CASE nSub(k, a) = Nothing
      <4>1. v # k
        BY <3>1, <3>2 DEF nAdd, nSub, InfNat, Inf, Nothing
      <4> QED BY <1>2, <2>1, <3>1, <3>2, <4>1
    <3>3. CASE nSub(k, a) # Nothing
      <4>1. /\ b = nSub(k, a) <=> v = k
            /\ b # Nothing /\ nSub(k, a) \in InfNat
        BY <3>1, <3>3 DEF nAdd, nSub, InfNat, Inf, Nothing
      <4> QED BY <1>3, <2>1, <3>1, <3>3, <4>1
    <3> QED BY <3>2, <3>3
  <2> QED BY <1>2, <2>1
<1>7. Fine(rule3)
  <2>1. CASE tIs("Sub", t) /\ aNat0(t[3])
    <3>1. v = nSub(a, b) /\ v # Nothing /\ a \in InfNat /\ b \in InfNat /\ b = t[3][2]
      BY <2>1, <1>4 DEF vApply, Binary
    <3>2. (a = nAdd(k, b) <=> v = k) /\ a # Nothing /\ nAdd(k, b) \in InfNat
      BY <3>1 DEF nAdd, nSub, InfNat, Inf, Nothing
    <3> QED BY <1>3, <2>1, <3>1, <3>2 DEF Try
  <2> QED BY <1>2, <2>1 DEF Try
<1>8. Fine(rule4)
  <2>1. CASE tIs("Mul", t) /\ aNat0(t[2])
    <3>1. v = nMul(a, b) /\ a \in InfNat /\ b \in InfNat /\ a = t[2][2] /\ a # 0
      BY <2>1, <1>4 DEF vApply, Binary, Simplified
    <3>2. Fine(tryEqMulK(t[3], k, a))
      BY <3>1, EqMulKRight
    <3> QED BY <2>1, <3>1, <3>2 DEF Try
  <2> QED BY <1>2, <2>1 DEF Try
<1>9. Fine(rule5)
  <2>1. ~tIs("Exp", t)
    BY OperationApplies DEF tIs, Allowed, ProvedOps
  <2> QED BY <1>2, <2>1 DEF Try
<1> HIDE DEF rule1, rule2, rule3, rule4, rule5
<1> QED BY <1>1, <1>2, <1>5, <1>6, <1>7, <1>8, <1>9, FirstOfFive

\* The rules for = that look at both sides; they are used both ways round.
LEMMA EqSidesRight ==
  ASSUME NEW s, Allowed(s), NEW x, IsType(x), NEW y, IsType(y),
         Value(s, x) # Nothing, Value(s, y) # Nothing,
         NEW p, Defined(s, p), Holds(s, p) <=> Value(s, x) = Value(s, y)
  PROVE  /\ ExactFor(s, tryEqPlus(x, y), p) /\ ExactFor(s, tryEqMinPlus(x, y), p)
         /\ ExactFor(s, tryEqMin(x, y), p)
<1> DEFINE u == Value(s, x)
           v == Value(s, y)
           Fine(r) == ExactFor(s, r, p)
<1>1. u \in InfNat /\ v \in InfNat
  BY ValueTyped DEF Allowed
<1>2. Fine(NoMatch) /\ (u = v => Fine(SolvedIf(<<>>)))
  BY Answers
<1> DEFINE HasValue(t) == Value(s, t) # Nothing
<1>3. /\ \A l, r : HasValue(l) /\ HasValue(r) /\ (Value(s, l) = Value(s, r) <=> u = v)
                   => Fine(SolvedIf(<<Equal(l, r)>>))
      /\ \A l, r : HasValue(l) /\ HasValue(r) /\ (Leq(Value(s, r), Value(s, l)) <=> u = v)
                   => Fine(SolvedIf(<<Geq(l, r)>>))
  BY HoldsOf, Answers
<1>4. ASSUME NEW t, IsType(t), NEW op \in Binary, tIs(op, t), Value(s, t) # Nothing
      PROVE  /\ IsType(t[2]) /\ IsType(t[3])
             /\ Value(s, t[2]) \in InfNat /\ Value(s, t[3]) \in InfNat
             /\ Value(s, t) = vApply(op, Value(s, t[2]), Value(s, t[3]), 0)
             /\ Nothing \notin {Value(s, t[2]), Value(s, t[3]), 0}
             /\ aNat0(t[2]) => Value(s, t[2]) = t[2][2]
  <2>1. Applies(t, op)
    BY <1>4, OperationApplies DEF tIs, Allowed, Binary
  <2> QED BY <1>4, <2>1, Operands, NumberType
<1>5. ASSUME NEW t, IsType(t), Bigger(t, y), Value(s, t) # Nothing
      PROVE  Leq(v, Value(s, t)) /\ (v = Inf <=> v = Value(s, t))
  <2>1. Value(s, t) = nAdd(Value(s, t[2]), v) /\ Value(s, t[2]) \in InfNat \ {0}
    BY <1>4, <1>5 DEF Bigger, vApply, Binary, AtLeast, Leq, Inf
  <2> QED BY <1>1, <2>1 DEF nAdd, Leq, InfNat, Inf
<1>6. Fine(tryEqPlus(x, y))
  <2>1. CASE Bigger(x, y) /\ aNat(x[2])
    <3>1. v = Inf <=> u = v
      BY <1>5, <2>1
    <3>2. Fine(SolvedIf(<<Equal(y, Num(Inf))>>))
      BY <1>3, <3>1, NumValue DEF Inf, Nothing
    <3> QED BY <2>1, <3>2 DEF tryEqPlus, Try
  <2> QED BY <1>2, <2>1 DEF tryEqPlus, Try
<1>7. Fine(tryEqMinPlus(x, y))
  <2>1. CASE tIs("Min", x)
    <3> DEFINE a == Value(s, x[2])
               b == Value(s, x[3])
               left == Try(Bigger(x[2], y), SolvedIf(<<Equal(y, x[3])>>))
               right == Try(Bigger(x[3], y), SolvedIf(<<Equal(y, x[2])>>))
    <3>1. /\ u = nMin(a, b) /\ a \in InfNat /\ b \in InfNat /\ a # Nothing /\ b # Nothing
          /\ IsType(x[2]) /\ IsType(x[3])
      BY <2>1, <1>4 DEF vApply, Binary
    <3>2. /\ Leq(v, a) /\ (v = Inf <=> v = a) => (v = b <=> u = v)
          /\ Leq(v, b) /\ (v = Inf <=> v = b) => (v = a <=> u = v)
      BY <1>1, <3>1 DEF nMin, Leq, InfNat, Inf
    <3>3. Fine(left)
      BY <1>2, <1>3, <1>5, <3>1, <3>2 DEF Try
    <3>4. Fine(right)
      BY <1>2, <1>3, <1>5, <3>1, <3>2 DEF Try
    <3>5. tryEqMinPlus(x, y) \in {NoMatch, left, right}
      BY <2>1, EitherRule DEF tryEqMinPlus
    <3> QED BY <1>2, <3>3, <3>4, <3>5
  <2> QED BY <1>2, <2>1 DEF tryEqMinPlus
<1>8. Fine(tryEqMin(x, y))
  <2>1. CASE tIs("Min", x)
    <3> DEFINE a == Value(s, x[2])
               b == Value(s, x[3])
               left == Try(x[2] = y, SolvedIf(<<Geq(x[3], x[2])>>))
               right == Try(x[3] = y, SolvedIf(<<Geq(x[2], x[3])>>))
    <3>1. u = nMin(a, b) /\ a \in InfNat /\ b \in InfNat /\ a # Nothing /\ b # Nothing
      BY <2>1, <1>4 DEF vApply, Binary
    <3>2. (Leq(a, b) <=> u = a) /\ (Leq(b, a) <=> u = b)
      BY <3>1 DEF nMin, Leq, InfNat, Inf
    <3>3. Fine(left)
      <4>1. CASE x[2] = y
        BY <1>3, <3>1, <3>2, <4>1 DEF Try
      <4> QED BY <1>2, <4>1 DEF Try
    <3>5. Fine(right)
      <4>1. CASE x[3] = y
        BY <1>3, <3>1, <3>2, <4>1 DEF Try
      <4> QED BY <1>2, <4>1 DEF Try
    <3>4. tryEqMin(x, y) \in {NoMatch, left, right}
      BY <2>1, EitherRule DEF tryEqMin
    <3> QED BY <1>2, <3>3, <3>4, <3>5
  <2> QED BY <1>2, <2>1 DEF tryEqMin
<1> QED BY <1>6, <1>7, <1>8

LEMMA EqualRulesRight ==
  ASSUME NEW s, Allowed(s), NEW x, IsType(x), Simplified(x), NEW y, IsType(y), Simplified(y),
         Defined(s, Equal(x, y)), NEW r \in EqualRules(x, y)
  PROVE  ExactFor(s, r, Equal(x, y))
<1> DEFINE u == Value(s, x)
           v == Value(s, y)
           Fine(q) == ExactFor(s, q, Equal(x, y))
<1>1. /\ u \in InfNat /\ v \in InfNat /\ u # Nothing /\ v # Nothing
      /\ Defined(s, Equal(x, y)) /\ (Holds(s, Equal(x, y)) <=> u = v)
  BY ValueTyped, HoldsOf DEF Allowed, InfNat, Inf, Nothing
<1>2. /\ Fine(NoMatch) /\ Fine(Unsolved)
      /\ u = v => Fine(SolvedIf(<<>>))
      /\ u # v => Fine(Unsolvable)
  BY <1>1, Answers
<1>3. Fine(pBin(x, y, x[2] = y[2]))
  <2>1. Error \notin {x, y}
    BY NotError DEF Allowed
  <2>2. CASE aNat0(x) /\ aNat0(y)
    <3>1. u = x[2] /\ v = y[2]
      BY <2>2, NumberType
    <3> QED BY <1>2, <2>1, <2>2, <3>1 DEF pBin, Try
  <2>3. CASE ~(aNat0(x) /\ aNat0(y))
    BY <1>2, <2>1, <2>3 DEF pBin, Try
  <2> QED BY <2>2, <2>3
<1>4. /\ Fine(IF aNat0(x) THEN tryEqK(y, x[2]) ELSE NoMatch)
      /\ Fine(IF aNat0(y) THEN tryEqK(x, y[2]) ELSE NoMatch)
  <2>1. ASSUME aNat0(x) PROVE Fine(tryEqK(y, x[2]))
    <3>1. x[2] \in InfNat /\ u = x[2]
      BY <2>1, NumberType
    <3> QED BY <1>1, <3>1, EqKRight
  <2>2. ASSUME aNat0(y) PROVE Fine(tryEqK(x, y[2]))
    <3>1. y[2] \in InfNat /\ v = y[2]
      BY <2>2, NumberType
    <3> QED BY <1>1, <3>1, EqKRight
  <2> QED BY <1>2, <2>1, <2>2
<1>5. Fine(tryEqPlus(x, y)) /\ Fine(tryEqMinPlus(x, y)) /\ Fine(tryEqMin(x, y))
  BY <1>1, EqSidesRight
<1>6. Fine(tryEqPlus(y, x)) /\ Fine(tryEqMinPlus(y, x)) /\ Fine(tryEqMin(y, x))
  <2>1. Holds(s, Equal(x, y)) <=> v = u
    BY <1>1
  <2> QED BY <1>1, <2>1, EqSidesRight
<1>7. Fine(trySame(x, y))
  BY <1>2 DEF trySame, Try
<1>8. Fine(tryEqAddInf(x, y))
  <2> DEFINE Finite(t) == iIsFin(typeInterval(intervals, t))
             Check(l, k) ==
               IF ~tIs("Add", l) \/ ~aInf(k) THEN NoMatch
               ELSE IF Finite(l[2]) THEN SolvedIf(<<Equal(l[3], k)>>)
               ELSE IF Finite(l[3]) THEN SolvedIf(<<Equal(l[2], k)>>) ELSE Unsolved
  <2>1. ASSUME NEW l, IsType(l), NEW k, Value(s, l) # Nothing, Value(s, k) # Nothing,
               Holds(s, Equal(x, y)) <=> Value(s, l) = Value(s, k)
        PROVE  Fine(Check(l, k))
    <3>1. CASE tIs("Add", l) /\ aInf(k)
      <4>1. Applies(l, "Add")
        BY <2>1, <3>1, OperationApplies DEF tIs, Allowed
      <4>2. /\ Value(s, l) = nAdd(Value(s, l[2]), Value(s, l[3]))
            /\ Value(s, l[2]) \in InfNat /\ Value(s, l[3]) \in InfNat
            /\ Value(s, l[2]) # Nothing /\ Value(s, l[3]) # Nothing
            /\ Finite(l[2]) => Value(s, l[2]) # Inf
            /\ Finite(l[3]) => Value(s, l[3]) # Inf
        BY <2>1, <4>1, Operands, TypeAllowed, FiniteSound DEF Binary, vApply
      <4>3. Value(s, k) = Inf
        BY <3>1, NumValue DEF aInf
      <4>4. /\ Finite(l[2]) => (Holds(s, Equal(l[3], k)) <=> Value(s, l) = Inf)
            /\ Finite(l[3]) => (Holds(s, Equal(l[2], k)) <=> Value(s, l) = Inf)
        BY <4>2, <4>3, HoldsOf DEF nAdd, InfNat, Inf, Nothing
      <4>5. /\ Finite(l[2]) => Fine(SolvedIf(<<Equal(l[3], k)>>))
            /\ Finite(l[3]) => Fine(SolvedIf(<<Equal(l[2], k)>>))
        BY <1>1, <2>1, <4>3, <4>4, Answers
      <4> QED BY <1>2, <3>1, <4>5
    <3>2. CASE ~(tIs("Add", l) /\ aInf(k))
      BY <1>2, <3>2
    <3> QED BY <3>1, <3>2
  <2>2. Fine(Check(x, y)) /\ Fine(Check(y, x))
    BY <1>1, <2>1
  <2>3. tryEqAddInf(x, y) = Either(Check(x, y), Check(y, x))
    BY DEF tryEqAddInf
  <2> HIDE DEF Check
  <2> QED BY <1>2, <2>2, <2>3, EitherRule
<1> QED BY <1>3, <1>4, <1>5, <1>6, <1>7, <1>8 DEF EqualRules

-----------------------------------------------------------------------------
(* The rules, with the intervals that the solver is given *)

LEMMA SolutionsAreAllowed ==
  ASSUME Ops \subseteq ProvedOps, IInv, NEW s \in [TVar -> Values], Satisfies(s)
  PROVE  Allowed(s)
<1>1. s \in [TVar -> InfNat] /\ Allows(ints, s)
  BY SolutionsAllowed DEF IInv, KeepsSolutions
<1> QED BY <1>1 DEF Allowed, Allows, intervals

\* What a rule says of a goal is exact for all values that make the assumptions true
\* and give the goal a meaning.
Exact(r, p) ==
  \A s \in [TVar -> Values] : Satisfies(s) /\ Defined(s, p) => ExactFor(s, r, p)

FinRulesAreRight == \A t : FinGoal(t) => Exact(cryIsFinType(t), Fin(t))

\* What cryIsFinType says of fin t is right in every state, whatever the
\* assumptions, the values and the type: sub-goals that hold for a solution of the
\* assumptions make fin t hold for it, sub-goals that are false for it make fin t
\* false, and a goal is called unsolvable only if no solution makes it true.
THEOREM FinDecided ==
  ASSUME Ops \subseteq ProvedOps, WidthBounds
  PROVE  Spec => []FinRulesAreRight
<1>1. Init => IInv
  BY InitIInv
<1>2. IInv /\ [Next]_vars => IInv'
  BY StepIInv
<1>3. IInv => FinRulesAreRight
  BY SolutionsAreAllowed, FinRuleRight DEF FinRulesAreRight, Exact
<1> QED BY <1>1, <1>2, <1>3, PTL DEF Spec

GeqRulesAreRight ==
  \A x, y : IsType(x) /\ IsType(y) =>
    \A r \in GeqRules(x, y) : Exact(r, Geq(x, y))

\* So it is for every rule for x >= y that builds no types.
THEOREM GeqDecided ==
  ASSUME Ops \subseteq ProvedOps, WidthBounds
  PROVE  Spec => []GeqRulesAreRight
<1>1. Init => IInv
  BY InitIInv
<1>2. IInv /\ [Next]_vars => IInv'
  BY StepIInv
<1>3. IInv => GeqRulesAreRight
  BY SolutionsAreAllowed, GeqRulesRight DEF GeqRulesAreRight, Exact
<1> QED BY <1>1, <1>2, <1>3, PTL DEF Spec

EqualRulesAreRight ==
  \A x, y : IsType(x) /\ IsType(y) /\ Simplified(x) /\ Simplified(y) =>
    \A r \in EqualRules(x, y) : Exact(r, Equal(x, y))

\* So it is for every rule for x = y that builds no types, between types in the
\* form that tAdd and tMul give them; an equation of inf + t and inf, which they do
\* not build, would be called unsolvable.
THEOREM EqualDecided ==
  ASSUME Ops \subseteq ProvedOps, WidthBounds
  PROVE  Spec => []EqualRulesAreRight
<1>1. Init => IInv
  BY InitIInv
<1>2. IInv /\ [Next]_vars => IInv'
  BY StepIInv
<1>3. IInv => EqualRulesAreRight
  BY SolutionsAreAllowed, EqualRulesRight DEF EqualRulesAreRight, Exact
<1> QED BY <1>1, <1>2, <1>3, PTL DEF Spec

-----------------------------------------------------------------------------
(* What the rules put in the place of a goal                               *)

\* A set of types with the numbers and all arguments of its members, in the form
\* that the constructors of types give them.
ClosedTypes(T) ==
  /\ \A n \in InfNat : Num(n) \in T
  /\ \A t \in T : IsType(t) /\ Simplified(t)
  /\ \A t \in T : ~IsLeaf(t) => \A n \in 2 .. Len(t) : t[n] \in T

\* A goal about types of T.
Over(T, p) ==
  \/ p \in {True, False}
  \/ \E t \in T : p = Fin(t)
  \/ \E t, u \in T : p \in {Equal(t, u), Geq(t, u)}

\* An answer whose sub-goals are about types of T; the rules give two at most.
AnswerOver(T, r) ==
  \/ r \in {NoMatch, Unsolved, Unsolvable, SolvedIf(<<>>)}
  \/ \E p : Over(T, p) /\ r = SolvedIf(<<p>>)
  \/ \E p, q : Over(T, p) /\ Over(T, q) /\ r = SolvedIf(<<p, q>>)

\* Where the types of sub-goals come from.
LEMMA OverParts ==
  ASSUME NEW T, ClosedTypes(T), Ops \subseteq ProvedOps
  PROVE  /\ \A n \in InfNat : Num(n) \in T
         /\ \A t \in T : Over(T, pFin(t))
         /\ \A t \in T : aNat0(t) => t[2] \in InfNat
         /\ \A t \in T : t[1] \in Binary => t[2] \in T /\ t[3] \in T
         /\ \A t, u \in T : AnswerOver(T, SolvedIf(<<Equal(t, u)>>))
         /\ \A t, u \in T : AnswerOver(T, SolvedIf(<<Geq(t, u)>>))
<1>1. \A n \in InfNat : Num(n) \in T
  BY DEF ClosedTypes
<1>2. ASSUME NEW t \in T PROVE Over(T, pFin(t))
  BY <1>2 DEF Over, pFin
<1>3. ASSUME NEW t \in T, aNat0(t) PROVE t[2] \in InfNat
  <2>1. IsType(t)
    BY DEF ClosedTypes
  <2>2. t[1] \notin Ops
    BY <1>3 DEF aNat0, ProvedOps
  <2> QED BY <1>3, <2>1, <2>2 DEF IsType, Operation, LeafType, aNat0
<1>4. ASSUME NEW t \in T, t[1] \in Binary PROVE t[2] \in T /\ t[3] \in T
  <2>1. ~IsLeaf(t)
    BY <1>4 DEF IsLeaf, Binary
  <2>3. IsType(t) /\ \A n \in 2 .. Len(t) : t[n] \in T
    BY <2>1 DEF ClosedTypes
  <2>2. Len(t) = 3
    BY <1>4, <2>1, <2>3 DEF IsType, LeafType, IsLeaf, Operation, Applied, Unary, Binary
  <2> QED BY <2>2, <2>3
<1>5. ASSUME NEW t \in T, NEW u \in T
      PROVE  /\ AnswerOver(T, SolvedIf(<<Equal(t, u)>>))
             /\ AnswerOver(T, SolvedIf(<<Geq(t, u)>>))
  BY DEF AnswerOver, Over
<1> QED BY <1>1, <1>2, <1>3, <1>4, <1>5

LEMMA FinAnswers ==
  ASSUME NEW T, ClosedTypes(T), Ops \subseteq ProvedOps, NEW t \in T
  PROVE  AnswerOver(T, cryIsFinType(t))
<1> DEFINE Fine(r) == AnswerOver(T, r)
           i == typeInterval(intervals, Arg(t, 1))
           j == typeInterval(intervals, Arg(t, 2))
<1>1. /\ Fine(NoMatch) /\ Fine(Unsolved) /\ Fine(Unsolvable) /\ Fine(SolvedIf(<<>>))
      /\ \A p : Over(T, p) => Fine(SolvedIf(<<p>>))
      /\ \A p, q : Over(T, p) /\ Over(T, q) => Fine(SolvedIf(<<p, q>>))
  BY DEF AnswerOver
<1>2. IsType(t) /\ (t[1] \in {"Num", "Var"} \/ (t[1] \in ProvedOps /\ Applied(t)))
  <2>1. IsType(t)
    BY DEF ClosedTypes
  <2> QED BY <2>1 DEF IsType, LeafType, Operation
<1>3. ASSUME t[1] \in Binary
      PROVE  Over(T, pFin(Arg(t, 1))) /\ Over(T, pFin(Arg(t, 2)))
  <2>1. Len(t) = 3
    BY <1>2, <1>3 DEF Applied, Binary, Unary
  <2>2. Arg(t, 1) = t[2] /\ Arg(t, 2) = t[3]
    BY <2>1 DEF Arg
  <2> QED BY <1>3, <2>2, OverParts
<1>4. CASE t[1] \in {"Num", "Var", "LenFromThenTo"}
  <2>1. cryIsFinType(t) \in {Unsolved, Unsolvable, SolvedIf(<<>>)}
    BY <1>4 DEF cryIsFinType, finRule
  <2> QED BY <1>1, <2>1
<1>5. CASE t[1] \in {"Add", "Max", "Sub", "Mod", "CeilMod"}
  <2>1. Over(T, pFin(Arg(t, 1))) /\ Over(T, pFin(Arg(t, 2)))
    BY <1>3, <1>5 DEF Binary
  <2>2. cryIsFinType(t) \in {SolvedIf(<<>>), SolvedIf(<<pFin(Arg(t, 1))>>),
                             SolvedIf(<<pFin(Arg(t, 1)), pFin(Arg(t, 2))>>)}
    BY <1>5 DEF cryIsFinType, finRule
  <2> QED BY <1>1, <2>1, <2>2
<1> HIDE DEF i, j
<1>6. CASE t[1] = "Mul"
  <2> DEFINE rule1 == Try(iIsPosFin(i), SolvedIf(<<pFin(Arg(t, 2))>>))
             rule2 == Try(iIsPosFin(j), SolvedIf(<<pFin(Arg(t, 1))>>))
             rule3 == Try(AtLeast(1, i.lower) /\ AtLeast(1, j.lower),
                          SolvedIf(<<pFin(Arg(t, 1)), pFin(Arg(t, 2))>>))
             rule4 == Try(iIsFin(i) /\ iIsFin(j), SolvedIf(<<>>))
  <2>1. Fine(rule1) /\ Fine(rule2) /\ Fine(rule3) /\ Fine(rule4)
    BY <1>1, <1>3, <1>6 DEF Try, Binary
  <2>2. cryIsFinType(t) = FirstMatch(<<rule1, rule2, rule3, rule4>>)
    BY <1>6 DEF cryIsFinType, finRule, i, j
  <2> HIDE DEF rule1, rule2, rule3, rule4
  <2> QED BY <1>1, <2>1, <2>2, FirstOfFour
<1>7. CASE t[1] = "Min"
  <2> DEFINE rule1 == Try(iIsFin(i) \/ iIsFin(j), SolvedIf(<<>>))
             rule2 == Try(i.upper # Nothing /\ Leq(i.upper, j.lower),
                          SolvedIf(<<pFin(Arg(t, 1))>>))
             rule3 == Try(j.upper # Nothing /\ Leq(j.upper, i.lower),
                          SolvedIf(<<pFin(Arg(t, 2))>>))
  <2>1. Fine(rule1) /\ Fine(rule2) /\ Fine(rule3)
    BY <1>1, <1>3, <1>7 DEF Try, Binary
  <2>2. cryIsFinType(t) = FirstMatch(<<rule1, rule2, rule3>>)
    BY <1>7 DEF cryIsFinType, finRule, i, j
  <2> HIDE DEF rule1, rule2, rule3
  <2> QED BY <1>1, <2>1, <2>2, FirstOfThree
<1>8. CASE t[1] = "Width"
  <2>1. ~IsLeaf(t) /\ Len(t) = 2
    BY <1>2, <1>8 DEF IsLeaf, Applied, Unary
  <2>2. t[2] \in T /\ Arg(t, 1) = t[2]
    BY <2>1 DEF ClosedTypes, Arg
  <2>3. cryIsFinType(t) = SolvedIf(<<pFin(Arg(t, 1))>>)
    BY <1>8 DEF cryIsFinType, finRule
  <2> QED BY <1>1, <2>2, <2>3, OverParts
<1>9. Fine(cryIsFinType(t))
  BY <1>2, <1>4, <1>5, <1>6, <1>7, <1>8 DEF ProvedOps
<1> QED BY <1>9 DEF Fine

LEMMA GeqAnswers ==
  ASSUME NEW T, ClosedTypes(T), Ops \subseteq ProvedOps, NEW x \in T, NEW y \in T,
         NEW r \in GeqRules(x, y)
  PROVE  AnswerOver(T, r)
<1> DEFINE Fine(a) == AnswerOver(T, a)
<1>1. Fine(NoMatch) /\ Fine(Unsolved) /\ Fine(Unsolvable) /\ Fine(SolvedIf(<<>>))
  BY DEF AnswerOver
<1>2. \A t, u \in T : Fine(SolvedIf(<<Equal(t, u)>>)) /\ Fine(SolvedIf(<<Geq(t, u)>>))
  BY OverParts
<1>3. /\ \A n \in InfNat : Num(n) \in T
      /\ \A t \in T : aNat0(t) => t[2] \in InfNat
      /\ \A t \in T : t[1] \in Binary => t[2] \in T /\ t[3] \in T
  BY OverParts
<1>4. ASSUME aNat0(x) PROVE Fine(tryGeqKThan(y, x[2]))
  <2> DEFINE k == x[2]
             m == y[2][2]
  <2>1. k \in InfNat
    BY <1>3, <1>4
  <2>2. CASE k # Inf /\ tIs("Mul", y) /\ aNat0(y[2])
    <3>1. y[2] \in T /\ y[3] \in T /\ m \in InfNat
      BY <1>3, <2>2 DEF tIs, Binary
    <3>2. CASE m \in {0, Inf}
      BY <1>1, <1>2, <1>3, <2>2, <3>1, <3>2 DEF tryGeqKThan, Try, InfNat, Inf
    <3>3. CASE m \in Nat \ {0}
      <4>1. k \div m \in InfNat
        BY <2>1, <2>2, <3>3 DEF InfNat
      <4>2. tryGeqKThan(y, k) = SolvedIf(<<Geq(Num(k \div m), y[3])>>)
        BY <2>2, <3>3 DEF tryGeqKThan, Try, Inf
      <4> QED BY <1>2, <1>3, <3>1, <4>1, <4>2
    <3> QED BY <3>1, <3>2, <3>3 DEF InfNat
  <2>3. CASE k = Inf \/ ~(tIs("Mul", y) /\ aNat0(y[2]))
    BY <1>1, <2>3 DEF tryGeqKThan, Try
  <2> QED BY <2>2, <2>3
<1>5. ASSUME aNat0(y) PROVE Fine(tryGeqThanK(x, y[2]))
  <2> DEFINE k == y[2]
             m == x[2][2]
  <2>1. k \in InfNat
    BY <1>3, <1>5
  <2>2. CASE k # Inf /\ IsSumK(x)
    <3>1. x[3] \in T /\ m \in Nat
      BY <1>3, <2>2 DEF IsSumK, tIs, aNat, aNat0, Binary, InfNat
    <3>2. m >= k \/ k - m \in InfNat
      BY <2>1, <2>2, <3>1 DEF InfNat
    <3>3. tryGeqThanK(x, k) = SolvedIf(IF m >= k THEN <<>> ELSE <<Geq(x[3], Num(k - m))>>)
      BY <2>2 DEF tryGeqThanK, Try
    <3> QED BY <1>1, <1>2, <1>3, <3>1, <3>2, <3>3
  <2>3. CASE k = Inf
    <3>1. Inf \in InfNat /\ tryGeqThanK(x, k) = SolvedIf(<<Equal(x, Num(Inf))>>)
      BY <2>3 DEF tryGeqThanK, InfNat
    <3> QED BY <1>2, <1>3, <3>1
  <2>4. CASE k # Inf /\ ~IsSumK(x)
    BY <1>1, <2>4 DEF tryGeqThanK, Try
  <2> QED BY <2>2, <2>3, <2>4
<1>6. /\ Fine(pBin(x, y, Leq(y[2], x[2]))) /\ Fine(tryGeqThanVar(x, y))
      /\ Fine(tryGeqThanSub(x, y)) /\ Fine(geqByInterval(x, y)) /\ Fine(trySame(x, y))
  BY <1>1 DEF pBin, tryGeqThanVar, tryGeqThanSub, geqByInterval, trySame, Try
<1>7. Fine(tryMinIsGeq(x, y))
  BY <1>1, <1>2, <1>3 DEF tryMinIsGeq, Try, tIs, Binary
<1>8. Fine(r)
  BY <1>1, <1>4, <1>5, <1>6, <1>7 DEF GeqRules
<1> QED BY <1>8 DEF Fine

LEMMA EqKAnswers ==
  ASSUME NEW T, ClosedTypes(T), Ops \subseteq ProvedOps, NEW t \in T, NEW k \in InfNat
  PROVE  AnswerOver(T, tryEqK(t, k))
<1> DEFINE Fine(r) == AnswerOver(T, r)
           Finite(u) == iIsFin(typeInterval(intervals, u))
           infLeft == Try(Finite(t[2]), SolvedIf(<<Equal(t[3], Num(Inf))>>))
           infRight == Try(Finite(t[3]), SolvedIf(<<Equal(t[2], Num(Inf))>>))
           rule1 == IF k = Inf /\ tIs("Add", t) THEN Either(infLeft, infRight) ELSE NoMatch
           rule2 == IF tIs("Add", t) /\ aNat0(t[2])
                    THEN IF nSub(k, t[2][2]) = Nothing THEN Unsolvable
                         ELSE SolvedIf(<<Equal(t[3], Num(nSub(k, t[2][2])))>>)
                    ELSE NoMatch
           rule3 == Try(tIs("Sub", t) /\ aNat0(t[3]),
                        SolvedIf(<<Equal(t[2], Num(nAdd(k, t[3][2])))>>))
           rule4 == Try(tIs("Mul", t) /\ aNat0(t[2]), tryEqMulK(t[3], k, t[2][2]))
           rule5 == Try(tIs("Exp", t) /\ aNat(t[2]), tryEqExpK(t[3], k, t[2][2]))
<1>1. tryEqK(t, k) = FirstOf(<<rule1, rule2, rule3, rule4, rule5>>)
  BY DEF tryEqK
<1>2. Fine(NoMatch) /\ Fine(Unsolvable)
  BY DEF AnswerOver
<1>3. /\ \A u \in T, n \in InfNat : Fine(SolvedIf(<<Equal(u, Num(n))>>))
      /\ \A u \in T, n \in InfNat : Fine(SolvedIf(<<Geq(u, Num(n))>>))
      /\ \A u \in T : aNat0(u) => u[2] \in InfNat
      /\ t[1] \in Binary => t[2] \in T /\ t[3] \in T
      /\ 0 \in InfNat /\ 1 \in InfNat /\ Inf \in InfNat
  BY OverParts DEF InfNat
<1>4. Fine(rule1)
  <2>1. CASE tIs("Add", t)
    <3>1. Fine(infLeft) /\ Fine(infRight)
      BY <1>2, <1>3, <2>1 DEF tIs, Try, Binary
    <3> HIDE DEF infLeft, infRight
    <3> QED BY <1>2, <3>1, EitherRule
  <2> QED BY <1>2, <2>1
<1>5. Fine(rule2)
  <2>1. CASE tIs("Add", t) /\ aNat0(t[2])
    <3>1. t[2] \in T /\ t[3] \in T /\ t[2][2] \in InfNat
      BY <1>3, <2>1 DEF tIs, Binary
    <3>2. nSub(k, t[2][2]) \in InfNat \cup {Nothing}
      BY <3>1 DEF nSub, InfNat, Inf, Nothing
    <3> QED BY <1>2, <1>3, <3>1, <3>2
  <2> QED BY <1>2, <2>1
<1>6. Fine(rule3)
  <2>1. CASE tIs("Sub", t) /\ aNat0(t[3])
    <3>1. t[2] \in T /\ t[3] \in T /\ t[3][2] \in InfNat
      BY <1>3, <2>1 DEF tIs, Binary
    <3>2. nAdd(k, t[3][2]) \in InfNat
      BY <3>1 DEF nAdd, InfNat, Inf
    <3> QED BY <1>3, <2>1, <3>1, <3>2 DEF Try
  <2> QED BY <1>2, <2>1 DEF Try
<1>7. Fine(rule4)
  <2>1. CASE tIs("Mul", t) /\ aNat0(t[2])
    <3> DEFINE m == t[2][2]
               u == t[3]
    <3>1. u \in T /\ m \in InfNat
      BY <1>3, <2>1 DEF tIs, Binary
    <3>2. CASE k = Inf \/ m = Inf \/ m = 0
      <4>1. tryEqMulK(u, k, m) \in
              {SolvedIf(<<Geq(u, Num(1))>>), SolvedIf(<<Equal(u, Num(Inf))>>),
               SolvedIf(<<Equal(u, Num(0))>>), Unsolvable, SolvedIf(<<Equal(Num(k), Num(0))>>)}
        BY <3>2 DEF tryEqMulK
      <4>2. Num(k) \in T
        BY OverParts
      <4> QED BY <1>2, <1>3, <2>1, <3>1, <4>1, <4>2 DEF Try
    <3>3. CASE k # Inf /\ m \notin {0, Inf}
      <4>1. k \in Nat /\ m \in Nat \ {0}
        BY <3>1, <3>3 DEF InfNat
      <4>2. k \div m \in InfNat
        BY <4>1 DEF InfNat
      <4>3. tryEqMulK(u, k, m) \in {Unsolvable, SolvedIf(<<Equal(u, Num(k \div m))>>)}
        BY <3>3 DEF tryEqMulK
      <4> QED BY <1>2, <1>3, <2>1, <3>1, <4>2, <4>3 DEF Try
    <3> QED BY <3>2, <3>3
  <2> QED BY <1>2, <2>1 DEF Try
<1>8. Fine(rule5)
  <2>1. ~tIs("Exp", t)
    BY OperationApplies DEF tIs, ClosedTypes, ProvedOps
  <2> QED BY <1>2, <2>1 DEF Try
<1> HIDE DEF rule1, rule2, rule3, rule4, rule5
<1> QED BY <1>1, <1>2, <1>4, <1>5, <1>6, <1>7, <1>8, FirstOfFive

LEMMA EqualAnswers ==
  ASSUME NEW T, ClosedTypes(T), Ops \subseteq ProvedOps, NEW x \in T, NEW y \in T,
         NEW r \in EqualRules(x, y)
  PROVE  AnswerOver(T, r)
<1> DEFINE Fine(a) == AnswerOver(T, a)
<1>1. Fine(NoMatch) /\ Fine(Unsolved) /\ Fine(Unsolvable) /\ Fine(SolvedIf(<<>>))
  BY DEF AnswerOver
<1>2. /\ \A t, u \in T : Fine(SolvedIf(<<Equal(t, u)>>)) /\ Fine(SolvedIf(<<Geq(t, u)>>))
      /\ Num(Inf) \in T
      /\ \A t \in T : aNat0(t) => t[2] \in InfNat
      /\ \A t \in T : t[1] \in Binary => t[2] \in T /\ t[3] \in T
  BY OverParts DEF InfNat
<1>3. ASSUME NEW t \in T, NEW u \in T
      PROVE  Fine(tryEqPlus(t, u)) /\ Fine(tryEqMinPlus(t, u)) /\ Fine(tryEqMin(t, u))
  <2>1. Fine(tryEqPlus(t, u))
    BY <1>1, <1>2 DEF tryEqPlus, Try
  <2>2. tIs("Min", t) => t[2] \in T /\ t[3] \in T
    BY <1>2 DEF tIs, Binary
  <2>3. Fine(tryEqMinPlus(t, u))
    BY <1>1, <1>2, <2>2 DEF tryEqMinPlus, Either, Try
  <2>4. Fine(tryEqMin(t, u))
    BY <1>1, <1>2, <2>2 DEF tryEqMin, Either, Try
  <2> QED BY <2>1, <2>3, <2>4
<1>4. /\ aNat0(x) => Fine(tryEqK(y, x[2]))
      /\ aNat0(y) => Fine(tryEqK(x, y[2]))
  BY <1>2, EqKAnswers
<1>5. Fine(pBin(x, y, x[2] = y[2])) /\ Fine(trySame(x, y))
  BY <1>1 DEF pBin, trySame, Try
<1>6. Fine(tryEqAddInf(x, y))
  <2> DEFINE Finite(t) == iIsFin(typeInterval(intervals, t))
             Check(l, k) ==
               IF ~tIs("Add", l) \/ ~aInf(k) THEN NoMatch
               ELSE IF Finite(l[2]) THEN SolvedIf(<<Equal(l[3], k)>>)
               ELSE IF Finite(l[3]) THEN SolvedIf(<<Equal(l[2], k)>>) ELSE Unsolved
  <2>1. ASSUME NEW l \in T, NEW k \in T PROVE Fine(Check(l, k))
    <3>1. tIs("Add", l) => l[2] \in T /\ l[3] \in T
      BY <1>2 DEF tIs, Binary
    <3> QED BY <1>1, <1>2, <3>1
  <2>2. Fine(Check(x, y)) /\ Fine(Check(y, x))
    BY <2>1
  <2>3. tryEqAddInf(x, y) = Either(Check(x, y), Check(y, x))
    BY DEF tryEqAddInf
  <2> HIDE DEF Check
  <2> QED BY <1>1, <2>2, <2>3, EitherRule
<1> QED BY <1>1, <1>3, <1>4, <1>5, <1>6 DEF EqualRules

\* What PlainAnswers gives for a goal about types of T.
LEMMA PlainAnswersOver ==
  ASSUME NEW T, ClosedTypes(T), Ops \subseteq ProvedOps, NEW p, Over(T, p),
         NEW r \in PlainAnswers(p)
  PROVE  AnswerOver(T, r)
<1>1. AnswerOver(T, Unsolved) /\ AnswerOver(T, SolvedIf(<<>>))
  BY DEF AnswerOver
<1>2. CASE p \in {True, False}
  <2>1. r \in {Unsolved, SolvedIf(<<>>)}
    BY <1>2 DEF PlainAnswers, True, False
  <2> QED BY <1>1, <2>1
<1>3. ASSUME NEW t \in T, p = Fin(t) PROVE AnswerOver(T, r)
  <2>1. r \in {cryIsFinType(t), Unsolved}
    BY <1>3 DEF PlainAnswers, Fin, True
  <2> QED BY <1>1, <2>1, FinAnswers
<1>4. ASSUME NEW t \in T, NEW u \in T, p = Equal(t, u) PROVE AnswerOver(T, r)
  <2>1. r \in EqualRules(t, u) \cup {Unsolved}
    BY <1>4 DEF PlainAnswers, Equal, True
  <2> QED BY <1>1, <2>1, EqualAnswers
<1>5. ASSUME NEW t \in T, NEW u \in T, p = Geq(t, u) PROVE AnswerOver(T, r)
  <2>1. r \in GeqRules(t, u) \cup {Unsolved}
    BY <1>5 DEF PlainAnswers, Geq, True
  <2> QED BY <1>1, <2>1, GeqAnswers
<1> QED BY <1>2, <1>3, <1>4, <1>5 DEF Over

\* What it says is exact.
LEMMA PlainAnswersExact ==
  ASSUME NEW s, Allowed(s), NEW T, ClosedTypes(T), NEW p, Over(T, p), Defined(s, p),
         NEW r \in PlainAnswers(p)
  PROVE  ExactFor(s, r, p)
<1>1. ExactFor(s, Unsolved, p)
  BY Answers
<1>2. \A t \in T : IsType(t) /\ Simplified(t)
  BY DEF ClosedTypes
<1>3. CASE p = True
  <2>1. r = SolvedIf(<<>>)
    BY <1>3 DEF PlainAnswers, True
  <2>2. Holds(s, p)
    BY <1>3 DEF Holds, True, False
  <2> QED BY <2>1, <2>2, Answers
<1>4. CASE p = False
  <2>1. r = Unsolved
    BY <1>4 DEF PlainAnswers, True, False
  <2> QED BY <1>1, <2>1
<1>5. ASSUME NEW t \in T, p = Fin(t) PROVE ExactFor(s, r, p)
  <2>1. r \in {cryIsFinType(t), Unsolved}
    BY <1>5 DEF PlainAnswers, Fin, True
  <2> QED BY <1>1, <1>2, <1>5, <2>1, FinRuleRight DEF FinGoal
<1>6. ASSUME NEW t \in T, NEW u \in T, p = Equal(t, u) PROVE ExactFor(s, r, p)
  <2>1. r \in EqualRules(t, u) \cup {Unsolved}
    BY <1>6 DEF PlainAnswers, Equal, True
  <2> QED BY <1>1, <1>2, <1>6, <2>1, EqualRulesRight
<1>7. ASSUME NEW t \in T, NEW u \in T, p = Geq(t, u) PROVE ExactFor(s, r, p)
  <2>1. r \in GeqRules(t, u) \cup {Unsolved}
    BY <1>7 DEF PlainAnswers, Geq, True
  <2> QED BY <1>1, <1>2, <1>7, <2>1, GeqRulesRight
<1> QED BY <1>3, <1>4, <1>5, <1>6, <1>7 DEF Over

-----------------------------------------------------------------------------
(* The loop of quickSolver                                                 *)

\* next is gs with ps in the place of its first member.
InPlace(gs, ps, next) ==
  /\ Len(ps) \in 0 .. Len(next) /\ ps = SubSeq(next, 1, Len(ps))
  /\ \A n \in DOMAIN gs : gs[n] = Head(gs) \/ \E m \in DOMAIN next : next[m] = gs[n]
  /\ \A n \in DOMAIN next : \/ \E m \in DOMAIN ps : next[n] = ps[m]
                           \/ \E m \in DOMAIN gs : next[n] = gs[m]
  /\ \A n \in DOMAIN ps : \E m \in DOMAIN next : next[m] = ps[n]

\* The answer of a rule in front of the other goals.
LEMMA FollowedGoals ==
  ASSUME NEW S, NEW gs \in Seq(S), gs # <<>>, NEW ps \in Seq(S)
  PROVE  ps \o Tail(gs) \in Seq(S) /\ InPlace(gs, ps, ps \o Tail(gs))
<1> DEFINE rest == Tail(gs)
           next == ps \o rest
           k == Len(ps)
           l == Len(gs)
<1>1. /\ rest \in Seq(S) /\ l \in Nat \ {0} /\ Len(rest) = l - 1 /\ k \in Nat
      /\ \A n \in 1 .. l - 1 : rest[n] = gs[n + 1]
      /\ Head(gs) = gs[1] /\ DOMAIN gs = 1 .. l /\ DOMAIN ps = 1 .. k
  OBVIOUS
<1> HIDE DEF rest
<1>2. /\ next \in Seq(S) /\ Len(next) = k + (l - 1) /\ DOMAIN next = 1 .. k + (l - 1)
      /\ \A n \in 1 .. k : next[n] = ps[n]
      /\ \A n \in k + 1 .. k + (l - 1) : next[n] = rest[n - k]
  BY <1>1, ConcatProperties
<1>3. SubSeq(next, 1, k) = ps
  BY <1>1, SubSeqOfConcat1
<1> HIDE DEF next
<1>4. k \in 0 .. Len(next)
  BY <1>1, <1>2
<1>5. ASSUME NEW n \in DOMAIN gs PROVE gs[n] = Head(gs) \/ \E m \in DOMAIN next : next[m] = gs[n]
  <2>1. CASE n = 1
    BY <1>1, <2>1
  <2>2. CASE n # 1
    <3> DEFINE m == k + (n - 1)
    <3>1. n - 1 \in 1 .. l - 1 /\ n - 1 + 1 = n
      <4>1. n \in 1 .. l
        BY <1>1
      <4> HIDE DEF k, l
      <4> QED BY <1>1, <2>2, <4>1
    <3>2. m \in k + 1 .. k + (l - 1) /\ m - k = n - 1
      <4> HIDE DEF k, l
      <4> QED BY <1>1, <3>1
    <3>3. m \in DOMAIN next
      <4> HIDE DEF k, l
      <4> QED BY <1>1, <1>2, <3>2
    <3> HIDE DEF m
    <3>4. next[m] = rest[n - 1]
      BY <1>2, <3>2
    <3>5. rest[n - 1] = gs[n]
      BY <1>1, <3>1
    <3> QED BY <3>3, <3>4, <3>5
  <2> QED BY <2>1, <2>2
<1>6. ASSUME NEW n \in DOMAIN next
      PROVE  \/ \E m \in DOMAIN ps : next[n] = ps[m]
             \/ \E m \in DOMAIN gs : next[n] = gs[m]
  <2>1. CASE n <= k
    BY <1>1, <1>2, <2>1
  <2>2. CASE n > k
    <3>1. n \in k + 1 .. k + (l - 1) /\ n - k \in 1 .. l - 1 /\ n - k + 1 \in DOMAIN gs
      BY <1>1, <1>2, <2>2
    <3>2. next[n] = gs[n - k + 1]
      BY <1>1, <1>2, <3>1
    <3> QED BY <3>1, <3>2
  <2> QED BY <1>1, <1>2, <2>1, <2>2
<1>7. \A n \in DOMAIN ps : n \in DOMAIN next /\ next[n] = ps[n]
  BY <1>1, <1>2
<1>8. next \in Seq(S) /\ InPlace(gs, ps, next)
  BY <1>2, <1>4, <1>5, <1>6, <1>7, <1>3 DEF InPlace
<1> QED BY <1>8 DEF next, rest

\* What is left of the goal holds for the values s.
LeftHolds(s) == /\ \A n \in DOMAIN goals : Holds(s, goals[n])
                /\ \A p \in unsolved : Holds(s, p)

\* While the loop runs the goal follows from what is left of it.
FollowsFromRest ==
  goal # None =>
    \A s \in [TVar -> Values] : Meant(s) =>
      /\ verdict = "unsolvable" => Refuted(s, goal)
      /\ LeftHolds(s) => Holds(s, goal)

GoalsTyped ==
  /\ goal \in Goals \cup {None}
  /\ IsList(goals)
  /\ goal = None => goals = <<>> /\ unsolved = {} /\ verdict = "open"

RightInv == GoalsTyped /\ FollowsFromRest

LEMMA SameContext ==
  ASSUME MakeContext \/ UNCHANGED <<vars, solverVars>>
  PROVE  asmps' = asmps /\ UNCHANGED solverVars
BY DEF MakeContext, Learn, updateInterval, NextRound, Settle, vars

LEMMA ListOfOne ==
  ASSUME NEW x
  PROVE  /\ IsList(<<x>>) /\ Head(<<x>>) = x /\ <<x>> # <<>>
         /\ DOMAIN <<x>> = {1} /\ <<x>>[1] = x
<1>1. DOMAIN <<x>> = {1} /\ <<x>>[1] = x
  OBVIOUS
<1>2. {<<x>>[n] : n \in DOMAIN <<x>>} = {x}
  BY <1>1
<1> QED BY <1>1, <1>2 DEF IsList

\* A sequence of members of a set is one of its own members.
LEMMA OwnSeq ==
  ASSUME NEW S, NEW gs \in Seq(S)
  PROVE  IsList(gs)
<1> DEFINE R == {gs[n] : n \in DOMAIN gs}
<1>1. Len(gs) \in Nat /\ DOMAIN gs = 1 .. Len(gs) /\ gs = [n \in 1 .. Len(gs) |-> gs[n]]
  OBVIOUS
<1>2. \A n \in 1 .. Len(gs) : gs[n] \in R
  BY <1>1
<1> HIDE DEF R
<1>3. gs \in [1 .. Len(gs) -> R]
  BY <1>1, <1>2
<1> QED BY <1>1, <1>3, IsASeq DEF R, IsList

LEMMA Followed ==
  ASSUME NEW gs, IsList(gs), gs # <<>>, NEW ps, IsList(ps)
  PROVE  IsList(ps \o Tail(gs)) /\ InPlace(gs, ps, ps \o Tail(gs))
<1> DEFINE Q == {gs[n] : n \in DOMAIN gs}
           R == {ps[n] : n \in DOMAIN ps}
           S == Q \cup R
           next == ps \o Tail(gs)
<1>1. gs \in Seq(Q) /\ ps \in Seq(R)
  BY DEF IsList
<1> HIDE DEF Q, R
<1>2. gs \in Seq(S) /\ ps \in Seq(S)
  BY <1>1, SeqMonotonic
<1> HIDE DEF S
<1>3. next \in Seq(S) /\ InPlace(gs, ps, next)
  BY <1>2, FollowedGoals
<1> HIDE DEF next
<1>4. IsList(next) /\ InPlace(gs, ps, next)
  BY <1>3, OwnSeq
<1> QED BY <1>4 DEF next

LEMMA EmptyList == IsList(<<>>) /\ (\A n \in DOMAIN <<>> : FALSE)
BY DEF IsList

\* The list without its first goal.
LEMMA WithoutFirst ==
  ASSUME NEW gs, IsList(gs), gs # <<>>
  PROVE  IsList(Tail(gs)) /\ InPlace(gs, <<>>, Tail(gs))
<1>1. IsList(<<>> \o Tail(gs)) /\ InPlace(gs, <<>>, <<>> \o Tail(gs))
  BY EmptyList, Followed
<1>2. <<>> \o Tail(gs) = Tail(gs)
  <2> DEFINE Q == {gs[n] : n \in DOMAIN gs}
  <2>1. gs \in Seq(Q)
    BY DEF IsList
  <2> HIDE DEF Q
  <2> QED BY <2>1
<1> QED BY <1>1, <1>2

LEMMA RestOfGoals ==
  ASSUME IsList(goals), goals # <<>>, goals' = Tail(goals)
  PROVE  /\ IsList(goals')
         /\ \A n \in DOMAIN goals : \/ goals[n] = Head(goals)
                                  \/ \E m \in DOMAIN goals' : goals'[m] = goals[n]
         /\ \A n \in DOMAIN goals' : \E m \in DOMAIN goals : goals'[n] = goals[m]
<1>1. IsList(goals') /\ InPlace(goals, <<>>, goals')
  BY WithoutFirst
<1> QED BY <1>1, EmptyList DEF InPlace

LEMMA RightInit == SolverInit => RightInv
<1> SUFFICES ASSUME SolverInit PROVE RightInv
  OBVIOUS
<1>1. goals = <<>> /\ goal = None /\ unsolved = {} /\ verdict = "open"
  BY DEF SolverInit
<1>2. IsList(goals)
  BY <1>1, EmptyList
<1> QED BY <1>1, <1>2 DEF RightInv, GoalsTyped, FollowsFromRest

LEMMA RightStep ==
  ASSUME RightInv, [RightNext]_<<vars, solverVars>>
  PROVE  RightInv'
<1> USE QuickSolverAssumption
<1>1. CASE MakeContext \/ UNCHANGED <<vars, solverVars>>
  <2>1. asmps' = asmps /\ UNCHANGED <<goal, goals, unsolved, verdict>>
    BY <1>1, SameContext DEF solverVars
  <2> QED BY <2>1 DEF RightInv, GoalsTyped, FollowsFromRest, Meant, Satisfies, LeftHolds
<1>2. CASE RightAsk
  <2> DEFINE p == Head(goals')
  <2>1. /\ goal = None /\ goal' \in Goals /\ goals' = <<p>> /\ unsolved' = unsolved
        /\ verdict' = verdict /\ asmps' = asmps
    BY <1>2 DEF RightAsk, AskFor, vars
  <2>2. unsolved' = {} /\ verdict' = "open" /\ goal' # None
    BY <2>1 DEF RightInv, GoalsTyped
  <2>3. GoalsTyped'
    <3> HIDE DEF p
    <3>1. IsList(goals')
      BY <2>1, ListOfOne
    <3> QED BY <2>1, <2>2, <3>1 DEF GoalsTyped
  <2>4. ASSUME NEW s \in [TVar -> Values], Meant(s)', LeftHolds(s)'
        PROVE  Holds(s, goal)'
    <3>1. Satisfies(s) /\ Defined(s, goal') /\ \A n \in DOMAIN goals' : Holds(s, goals'[n])
      BY <2>1, <2>4 DEF Meant, Satisfies, LeftHolds
    <3>2. RightFor(s, SolvedIf(goals'), goal')
      BY <1>2, <3>1 DEF RightAsk
    <3> QED BY <3>1, <3>2 DEF RightFor, SolvedIf
  <2> QED BY <2>2, <2>3, <2>4 DEF RightInv, FollowsFromRest
<1>3. CASE DropAssumed
  <2>1. /\ goals' = Tail(goals) /\ goals # <<>> /\ UNCHANGED <<goal, unsolved, verdict, asmps>>
        /\ verdict = "open" /\ \E n \in DOMAIN asmps : asmps[n] = Head(goals)
    BY <1>3 DEF DropAssumed, Assumed, vars
  <2>2. /\ IsList(goals')
        /\ \A n \in DOMAIN goals : \/ goals[n] = Head(goals)
                                 \/ \E m \in DOMAIN goals' : goals'[m] = goals[n]
    BY <2>1, RestOfGoals DEF RightInv, GoalsTyped
  <2>3. GoalsTyped'
    BY <2>1, <2>2 DEF RightInv, GoalsTyped
  <2>4. ASSUME goal # None, NEW s \in [TVar -> Values], Meant(s)', LeftHolds(s)'
        PROVE  Holds(s, goal)'
    <3>1. Meant(s) /\ (\A n \in DOMAIN goals' : Holds(s, goals'[n]))
                  /\ (\A p \in unsolved : Holds(s, p))
      BY <2>1, <2>4 DEF Meant, Satisfies, LeftHolds
    <3>2. Holds(s, Head(goals))
      BY <2>1, <3>1 DEF Meant, Satisfies
    <3>3. LeftHolds(s)
      BY <2>2, <3>1, <3>2 DEF LeftHolds
    <3> QED BY <2>1, <2>4, <3>1, <3>3 DEF RightInv, FollowsFromRest
  <2> QED BY <2>1, <2>3, <2>4 DEF RightInv, FollowsFromRest
<1>4. CASE RightRewrite
  <2>1. PICK r \in {Unsolved, Unsolvable} \cup {SolvedIf(SubSeq(goals', 1, n)) : n \in 0 .. Len(goals')} :
          Take(r) /\ RightAnswer(r)
    BY <1>4 DEF RightRewrite
  <2>2. /\ goals # <<>> /\ IsList(goals')
        /\ verdict = "open" /\ asmps' = asmps /\ Follow(r) /\ goal # None
    BY <1>4, <2>1 DEF RightRewrite, Take, vars, RightInv, GoalsTyped
  <2>3. \A s \in [TVar -> Values] : Meant(s) => RightFor(s, r, Head(goals))
    BY <2>1 DEF RightAnswer
  <2>4. CASE r = Unsolved
    <3>1. /\ goals' = Tail(goals) /\ unsolved' = unsolved \cup {Head(goals)}
          /\ UNCHANGED <<goal, verdict>>
      BY <2>2, <2>4 DEF Follow, Unsolved
    <3>2. \A n \in DOMAIN goals : \/ goals[n] = Head(goals)
                               \/ \E m \in DOMAIN goals' : goals'[m] = goals[n]
      BY <2>2, <3>1, RestOfGoals DEF RightInv, GoalsTyped
    <3>3. \A s : LeftHolds(s)' => LeftHolds(s)
      BY <3>1, <3>2 DEF LeftHolds
    <3> QED BY <2>2, <3>1, <3>3 DEF RightInv, GoalsTyped, FollowsFromRest, Meant, Satisfies
  <2>5. CASE r = Unsolvable
    <3>1. verdict' = "unsolvable" /\ UNCHANGED <<goal, goals, unsolved>>
      BY <2>2, <2>5 DEF Follow, Unsolvable
    <3>2. Lossless
      BY <2>1, <2>5 DEF RightAnswer
    <3>3. \A s \in [TVar -> Values] : Meant(s) => Refuted(s, Head(goals))
      BY <2>3, <2>5 DEF RightFor, Unsolvable
    <3>4. 1 \in DOMAIN goals /\ goals[1] = Head(goals)
      <4> DEFINE S == {goals[n] : n \in DOMAIN goals}
      <4>1. goals \in Seq(S)
        BY DEF RightInv, GoalsTyped, IsList
      <4> HIDE DEF S
      <4> QED BY <2>2, <4>1
    <3>5. \A s \in [TVar -> Values] : Meant(s) => Refuted(s, goal)
      BY <3>2, <3>3, <3>4 DEF Lossless
    <3> QED BY <2>2, <3>1, <3>5 DEF RightInv, GoalsTyped, FollowsFromRest, Meant, Satisfies, LeftHolds
  <2>6. ASSUME NEW k \in 0 .. Len(goals'), r = SolvedIf(SubSeq(goals', 1, k)) PROVE RightInv'
    <3> DEFINE ps == SubSeq(goals', 1, k)
    <3>1. /\ r.result = "SolvedIf" /\ r.props = ps
          /\ goals' = ps \o Tail(goals) /\ UNCHANGED <<goal, unsolved, verdict>>
      BY <2>2, <2>6 DEF Follow, SolvedIf
    <3>2. IsList(ps)
      <4> DEFINE S == {goals'[n] : n \in DOMAIN goals'}
      <4>1. goals' \in Seq(S)
        BY <2>2 DEF IsList
      <4> HIDE DEF S
      <4>2. \A n \in 1 .. k : goals'[n] \in S
        BY <4>1
      <4>3. ps \in Seq(S)
        BY <4>2, SubSeqProperties
      <4> HIDE DEF ps
      <4> QED BY <4>3, OwnSeq
    <3> HIDE DEF ps
    <3>3. IsList(goals') /\ InPlace(goals, ps, goals')
      BY <2>2, <3>1, <3>2, Followed DEF RightInv, GoalsTyped
    <3>4. ASSUME NEW s \in [TVar -> Values], Meant(s), LeftHolds(s)' PROVE LeftHolds(s)
      <4>1. (\A n \in DOMAIN goals' : Holds(s, goals'[n])) /\ \A p \in unsolved : Holds(s, p)
        BY <3>1, <3>4 DEF LeftHolds
      <4>2. Holds(s, Head(goals))
        BY <2>3, <3>1, <3>3, <3>4, <4>1 DEF RightFor, InPlace
      <4> QED BY <3>3, <4>1, <4>2 DEF LeftHolds, InPlace
    <3> QED BY <2>2, <3>1, <3>4 DEF RightInv, GoalsTyped, FollowsFromRest, Meant, Satisfies
  <2> QED BY <2>4, <2>5, <2>6
<1>5. CASE Conclude
  <2>1. /\ UNCHANGED <<goal, goals, unsolved, asmps>> /\ goal # None
        /\ verdict' \in {"solved", "stuck"}
    BY <1>5 DEF Conclude, vars
  <2> QED BY <2>1 DEF RightInv, GoalsTyped, FollowsFromRest, Meant, Satisfies, LeftHolds
<1> QED BY <1>1, <1>2, <1>3, <1>4, <1>5 DEF RightNext

\* However a goal is rewritten, what the solver says of it is true, if the first
\* goal always follows from what is put in its place, and is only called
\* unsolvable when it is false and no solution has been lost on the way.
THEOREM RightDecides == RightSpec => []DecisionsSound
<1>1. SolverInit => RightInv
  BY RightInit
<1>2. RightInv /\ [RightNext]_<<vars, solverVars>> => RightInv'
  BY RightStep
<1>3. RightInv => DecisionsSound
  <2> SUFFICES ASSUME RightInv, goal # None, NEW s \in [TVar -> Values], Satisfies(s),
                      Defined(s, goal)
               PROVE  IF verdict = "unsolvable" THEN ~Holds(s, goal)
                      ELSE (\A p \in {goals[n] : n \in DOMAIN goals} \cup unsolved : Holds(s, p))
                             => Holds(s, goal)
    BY DEF DecisionsSound
  <2>1. /\ verdict = "unsolvable" => Refuted(s, goal)
        /\ LeftHolds(s) => Holds(s, goal)
    BY DEF RightInv, FollowsFromRest, Meant
  <2> QED BY <2>1 DEF Refuted, LeftHolds
<1> QED BY <1>1, <1>2, <1>3, PTL DEF RightSpec

-----------------------------------------------------------------------------
(* The loop with the rules that build no types                             *)

\* A type that has a value has arguments with values.
LEMMA PartsValued ==
  ASSUME NEW s, Ops \subseteq ProvedOps, NEW t, IsType(t), ~IsLeaf(t), Value(s, t) # Nothing
  PROVE  \A n \in 2 .. Len(t) : Value(s, t[n]) # Nothing
<1>1. Operation(t) /\ \A n \in 1 .. 3 : DeepType(Arg(t, n))
  BY DEF IsType, LeafType, IsLeaf
<1>2. Len(t) \in 2 .. 4
  BY <1>1 DEF Operation, Applied
<1>3. \A n \in 1 .. 3 : DeepValue(s, Arg(t, n)) # Nothing
  <2>1. Nothing \notin {DeepValue(s, Arg(t, 1)), DeepValue(s, Arg(t, 2)),
                        DeepValue(s, Arg(t, 3))}
    BY DEF Value, vApply
  <2> QED BY <2>1
<1>4. ASSUME NEW n \in 2 .. Len(t) PROVE Value(s, t[n]) # Nothing
  <2> DEFINE m == n - 1
  <2>1. m \in 1 .. 3 /\ m < Len(t) /\ m + 1 = n
    <3> DEFINE l == Len(t)
    <3>1. l \in 2 .. 4 /\ n \in 2 .. l
      BY <1>2
    <3> HIDE DEF l
    <3>2. m \in 1 .. 3 /\ m < l /\ m + 1 = n
      BY <3>1
    <3> QED BY <3>2 DEF l
  <2>2. Arg(t, m) = t[n]
    BY <2>1 DEF Arg
  <2>3. DeepType(t[n]) /\ DeepValue(s, t[n]) # Nothing
    BY <1>1, <1>3, <2>1, <2>2
  <2> QED BY <2>3, DeepValues
<1> QED BY <1>4

\* The types that have a value for the values s.
Valued(T, s) == {t \in T : Value(s, t) # Nothing}

LEMMA ValuedTypes ==
  ASSUME NEW T, ClosedTypes(T), Ops \subseteq ProvedOps, NEW s
  PROVE  /\ ClosedTypes(Valued(T, s))
         /\ \A p : Over(T, p) /\ Defined(s, p) <=> Over(Valued(T, s), p)
<1>1. \A n \in InfNat : Num(n) \in Valued(T, s)
  BY NumValue DEF ClosedTypes, Valued, InfNat, Inf, Nothing
<1>2. \A t \in Valued(T, s) : IsType(t) /\ Simplified(t)
  BY DEF ClosedTypes, Valued
<1>3. ASSUME NEW t \in Valued(T, s), ~IsLeaf(t), NEW n \in 2 .. Len(t)
      PROVE  t[n] \in Valued(T, s)
  <2>1. t \in T /\ IsType(t) /\ Value(s, t) # Nothing
    BY <1>2 DEF Valued
  <2>2. t[n] \in T
    BY <1>3, <2>1 DEF ClosedTypes
  <2>3. Value(s, t[n]) # Nothing
    BY <1>3, <2>1, PartsValued
  <2> QED BY <2>2, <2>3 DEF Valued
<1>4. ClosedTypes(Valued(T, s))
  BY <1>1, <1>2, <1>3 DEF ClosedTypes
<1>5. ASSUME NEW p, Over(T, p), Defined(s, p) PROVE Over(Valued(T, s), p)
  <2>1. CASE p \in {True, False}
    BY <2>1 DEF Over
  <2>2. ASSUME NEW t \in T, p = Fin(t) PROVE Over(Valued(T, s), p)
    <3>1. t \in Valued(T, s)
      BY <1>5, <2>2, HoldsOf DEF Valued
    <3> QED BY <2>2, <3>1 DEF Over
  <2>3. ASSUME NEW t \in T, NEW u \in T, p \in {Equal(t, u), Geq(t, u)}
        PROVE  Over(Valued(T, s), p)
    <3>1. t \in Valued(T, s) /\ u \in Valued(T, s)
      BY <1>5, <2>3, HoldsOf DEF Valued
    <3> QED BY <2>3, <3>1 DEF Over
  <2> QED BY <1>5, <2>1, <2>2, <2>3 DEF Over
<1>6. ASSUME NEW p, Over(Valued(T, s), p) PROVE Over(T, p) /\ Defined(s, p)
  <2>1. CASE p \in {True, False}
    BY <2>1 DEF Over, Defined, True, False
  <2>2. ASSUME NEW t \in Valued(T, s), p = Fin(t) PROVE Over(T, p) /\ Defined(s, p)
    BY <2>2, HoldsOf DEF Over, Valued
  <2>3. ASSUME NEW t \in Valued(T, s), NEW u \in Valued(T, s), p \in {Equal(t, u), Geq(t, u)}
        PROVE  Over(T, p) /\ Defined(s, p)
    BY <2>3, HoldsOf DEF Over, Valued
  <2> QED BY <1>6, <2>1, <2>2, <2>3 DEF Over
<1> QED BY <1>4, <1>5, <1>6

\* The goals of an answer.
LEMMA AnswerList ==
  ASSUME NEW T, NEW r, AnswerOver(T, r), r.result = "SolvedIf"
  PROVE  /\ r = SolvedIf(r.props) /\ IsList(r.props)
         /\ \A n \in DOMAIN r.props : Over(T, r.props[n])
<1>1. CASE r \in {NoMatch, Unsolved, Unsolvable, SolvedIf(<<>>)}
  BY <1>1, EmptyList DEF NoMatch, Unsolved, Unsolvable, SolvedIf
<1>2. ASSUME NEW p, Over(T, p), r = SolvedIf(<<p>>)
      PROVE  /\ r = SolvedIf(r.props) /\ IsList(r.props)
             /\ \A n \in DOMAIN r.props : Over(T, r.props[n])
  <2>1. r.props = <<p>>
    BY <1>2 DEF SolvedIf
  <2>2. IsList(<<p>>) /\ \A n \in DOMAIN <<p>> : <<p>>[n] = p
    BY ListOfOne
  <2> QED BY <1>2, <2>1, <2>2
<1>3. ASSUME NEW p, NEW q, Over(T, p), Over(T, q), r = SolvedIf(<<p, q>>)
      PROVE  /\ r = SolvedIf(r.props) /\ IsList(r.props)
             /\ \A n \in DOMAIN r.props : Over(T, r.props[n])
  <2>1. r.props = <<p, q>>
    BY <1>3 DEF SolvedIf
  <2>2. <<p, q>> \in Seq({p, q}) /\ \A n \in DOMAIN <<p, q>> : <<p, q>>[n] \in {p, q}
    OBVIOUS
  <2>3. IsList(<<p, q>>)
    BY <2>2, OwnSeq
  <2> QED BY <1>3, <2>1, <2>2, <2>3
<1> QED BY <1>1, <1>2, <1>3 DEF AnswerOver

\* The goals that are left are about types of T, have a meaning where the goal
\* has one, and no solution has been lost.
PlainInv(T) ==
  /\ IInv /\ GoalsTyped /\ Lossless
  /\ \A n \in DOMAIN goals :
       /\ Over(T, goals[n])
       /\ \A s \in [TVar -> Values] : Meant(s) => Defined(s, goals[n])

\* What the rules say of the first goal.
LEMMA HeadAnswered ==
  ASSUME NEW T, ClosedTypes(T), Ops \subseteq ProvedOps, PlainInv(T), goals # <<>>,
         NEW r \in PlainAnswers(Head(goals))
  PROVE  /\ 1 \in DOMAIN goals /\ goals[1] = Head(goals)
         /\ AnswerOver(T, r)
         /\ \A s \in [TVar -> Values] : Meant(s) =>
              ExactFor(s, r, Head(goals)) /\ AnswerOver(Valued(T, s), r)
<1>1. 1 \in DOMAIN goals /\ goals[1] = Head(goals)
  <2> DEFINE S == {goals[n] : n \in DOMAIN goals}
  <2>1. goals \in Seq(S)
    BY DEF PlainInv, GoalsTyped, IsList
  <2> HIDE DEF S
  <2> QED BY <2>1
<1> DEFINE p == Head(goals)
<1>2. Over(T, p) /\ \A s \in [TVar -> Values] : Meant(s) => Defined(s, p)
  BY <1>1 DEF PlainInv
<1>3. ASSUME NEW s \in [TVar -> Values], Meant(s)
      PROVE  ExactFor(s, r, p) /\ AnswerOver(Valued(T, s), r)
  <2>1. Allowed(s)
    BY <1>3, SolutionsAreAllowed DEF PlainInv, Meant
  <2> HIDE DEF p
  <2>2. ExactFor(s, r, p)
    BY <1>2, <1>3, <2>1, PlainAnswersExact DEF p
  <2>3. ClosedTypes(Valued(T, s)) /\ Over(Valued(T, s), p)
    BY <1>2, <1>3, ValuedTypes
  <2> QED BY <2>2, <2>3, PlainAnswersOver DEF p
<1> QED BY <1>1, <1>2, <1>3, PlainAnswersOver

LEMMA PlainInit ==
  ASSUME NEW T
  PROVE  SolverInit => PlainInv(T)
<1> SUFFICES ASSUME SolverInit PROVE PlainInv(T)
  OBVIOUS
<1>1. goals = <<>> /\ DOMAIN goals = {}
  BY DEF SolverInit
<1>2. GoalsTyped
  BY <1>1, EmptyList DEF SolverInit, GoalsTyped
<1> QED BY <1>1, <1>2, InitIInv DEF SolverInit, PlainInv, Lossless

\* One step of the loop in detail: what a rule that answers the first goal does.
LEMMA PlainTake ==
  ASSUME NEW T, ClosedTypes(T), Ops \subseteq ProvedOps, PlainInv(T), goals # <<>>,
         NEW r \in PlainAnswers(Head(goals)), Take(r)
  PROVE  /\ RightAnswer(r) /\ IsList(goals') /\ UNCHANGED <<vars, goal>>
         /\ r \in {Unsolved, Unsolvable} \cup {SolvedIf(SubSeq(goals', 1, n)) : n \in 0 .. Len(goals')}
         /\ \A n \in DOMAIN goals' :
              \/ \E m \in DOMAIN goals : goals'[n] = goals[m]
              \/ /\ Over(T, goals'[n])
                 /\ \A s \in [TVar -> Values] : Meant(s) =>
                      /\ Defined(s, goals'[n])
                      /\ Refuted(s, goals'[n]) => Refuted(s, Head(goals))
<1>1. /\ AnswerOver(T, r)
      /\ \A s \in [TVar -> Values] : Meant(s) =>
           ExactFor(s, r, Head(goals)) /\ AnswerOver(Valued(T, s), r)
  BY HeadAnswered
<1>2. RightAnswer(r)
  BY <1>1 DEF RightAnswer, ExactFor, PlainInv
<1>3. Follow(r) /\ UNCHANGED vars /\ IsList(goals)
  BY DEF Take, PlainInv, GoalsTyped
<1>4. CASE r.result = "SolvedIf"
  <2> DEFINE ps == r.props
  <2>1. goals' = ps \o Tail(goals) /\ UNCHANGED goal
    BY <1>3, <1>4 DEF Follow
  <2>2. r = SolvedIf(ps) /\ IsList(ps) /\ \A n \in DOMAIN ps : Over(T, ps[n])
    BY <1>1, <1>4, AnswerList
  <2>3. IsList(goals') /\ InPlace(goals, ps, goals')
    BY <1>3, <2>1, <2>2, Followed
  <2>4. ASSUME NEW s \in [TVar -> Values], Meant(s), NEW n \in DOMAIN ps
        PROVE  Defined(s, ps[n]) /\ (Refuted(s, ps[n]) => Refuted(s, Head(goals)))
    <3>1. Over(Valued(T, s), ps[n])
      BY <1>1, <1>4, <2>4, AnswerList
    <3>2. Defined(s, ps[n])
      BY <3>1, ValuedTypes
    <3>3. KeepsFor(s, r, Head(goals))
      BY <1>1, <2>4 DEF ExactFor
    <3> QED BY <1>4, <2>4, <3>2, <3>3 DEF KeepsFor
  <2> HIDE DEF ps
  <2>5. r \in {SolvedIf(SubSeq(goals', 1, n)) : n \in 0 .. Len(goals')}
    BY <2>2, <2>3 DEF InPlace
  <2>6. ASSUME NEW n \in DOMAIN goals', ~\E m \in DOMAIN goals : goals'[n] = goals[m]
        PROVE  \E m \in DOMAIN ps : goals'[n] = ps[m]
    BY <2>3, <2>6 DEF InPlace
  <2> QED BY <1>2, <1>3, <2>1, <2>2, <2>3, <2>4, <2>5, <2>6
<1>5. CASE r.result = "Unsolved"
  <2>1. r = Unsolved
    BY <1>1, <1>5 DEF AnswerOver, NoMatch, Unsolved, Unsolvable, SolvedIf
  <2>2. goals' = Tail(goals) /\ UNCHANGED goal
    BY <1>3, <1>5 DEF Follow
  <2>3. IsList(goals') /\ \A n \in DOMAIN goals' : \E m \in DOMAIN goals : goals'[n] = goals[m]
    BY <1>3, <2>2, RestOfGoals
  <2> QED BY <1>2, <1>3, <2>1, <2>2, <2>3
<1>6. CASE r.result = "Unsolvable"
  <2>1. r = Unsolvable
    BY <1>1, <1>6 DEF AnswerOver, NoMatch, Unsolved, Unsolvable, SolvedIf
  <2>2. UNCHANGED <<goal, goals>>
    BY <1>3, <1>6 DEF Follow
  <2> QED BY <1>2, <1>3, <2>1, <2>2
<1> QED BY <1>3, <1>4, <1>5, <1>6 DEF Follow

\* Every step with the rules that build no types is one that is right.
LEMMA PlainStepIsRight ==
  ASSUME NEW T, ClosedTypes(T), Ops \subseteq ProvedOps, PlainInv(T),
         [PlainNext]_<<vars, solverVars>>
  PROVE  [RightNext]_<<vars, solverVars>>
<1>1. CASE MakeContext \/ DropAssumed \/ Conclude \/ UNCHANGED <<vars, solverVars>>
  BY <1>1 DEF RightNext
<1>2. ASSUME NEW g \in Goals, AskFor(g, g) PROVE RightNext
  <2>1. goal' = g /\ goals' = <<g>> /\ Head(goals') = g
    BY <1>2, ListOfOne DEF AskFor
  <2>2. \A s : RightFor(s, SolvedIf(<<g>>), g)
    BY ListOfOne DEF RightFor, SolvedIf
  <2>3. RightAsk
    BY <1>2, <2>1, <2>2 DEF RightAsk
  <2> QED BY <2>3 DEF RightNext
<1>3. ASSUME goals # <<>>, NEW r \in PlainAnswers(Head(goals)), Take(r) PROVE RightNext
  BY <1>3, PlainTake DEF RightNext, RightRewrite
<1> QED BY <1>1, <1>2, <1>3 DEF PlainNext

LEMMA PlainStep ==
  ASSUME NEW T, ClosedTypes(T), Ops \subseteq ProvedOps, WidthBounds, \A g \in Goals : Over(T, g),
         PlainInv(T), [PlainNext]_<<vars, solverVars>>
  PROVE  PlainInv(T)'
<1> USE QuickSolverAssumption
<1>1. [Next]_vars
  BY DEF PlainNext, MakeContext, AskFor, DropAssumed, Take, Conclude, Next
<1>2. IInv'
  BY <1>1, StepIInv DEF PlainInv
<1>3. CASE MakeContext \/ UNCHANGED <<vars, solverVars>>
  <2>1. asmps' = asmps /\ UNCHANGED <<goal, goals, unsolved, verdict>>
    BY <1>3, SameContext DEF solverVars
  <2> QED BY <1>2, <2>1 DEF PlainInv, GoalsTyped, Lossless, Meant, Satisfies
<1>4. ASSUME NEW g \in Goals, AskFor(g, g) PROVE PlainInv(T)'
  <2>1. /\ goal' = g /\ goals' = <<g>> /\ g # None
        /\ IsList(goals') /\ DOMAIN goals' = {1} /\ goals'[1] = g
    BY <1>4, ListOfOne DEF AskFor
  <2>2. GoalsTyped'
    BY <2>1 DEF GoalsTyped
  <2>3. \A s : Meant(s)' => Defined(s, g)
    BY <2>1 DEF Meant
  <2> QED BY <1>2, <2>1, <2>2, <2>3 DEF PlainInv, Lossless
<1>5. CASE DropAssumed
  <2>1. goals' = Tail(goals) /\ goals # <<>> /\ UNCHANGED <<vars, goal, unsolved, verdict>>
    BY <1>5 DEF DropAssumed, Assumed
  <2>2. /\ IsList(goals') /\ asmps' = asmps /\ goal # None
        /\ \A n \in DOMAIN goals' : \E m \in DOMAIN goals : goals'[n] = goals[m]
    BY <2>1, RestOfGoals DEF PlainInv, GoalsTyped, vars
  <2>3. \A s : Meant(s)' => Meant(s)
    BY <2>1, <2>2 DEF Meant, Satisfies
  <2> QED BY <1>2, <2>1, <2>2, <2>3 DEF PlainInv, GoalsTyped, Lossless
<1>6. ASSUME goals # <<>>, NEW r \in PlainAnswers(Head(goals)), Take(r) PROVE PlainInv(T)'
  <2>1. /\ IsList(goals') /\ UNCHANGED <<vars, goal>>
        /\ \A n \in DOMAIN goals' :
              \/ \E m \in DOMAIN goals : goals'[n] = goals[m]
              \/ /\ Over(T, goals'[n])
                 /\ \A s \in [TVar -> Values] : Meant(s) =>
                      /\ Defined(s, goals'[n])
                      /\ Refuted(s, goals'[n]) => Refuted(s, Head(goals))
    BY <1>6, PlainTake
  <2>2. \A s : Meant(s)' => Meant(s)
    BY <2>1 DEF Meant, Satisfies, vars
  <2>3. 1 \in DOMAIN goals /\ goals[1] = Head(goals) /\ goal # None
    BY <1>6, HeadAnswered DEF PlainInv, GoalsTyped
  <2>4. GoalsTyped'
    BY <2>1, <2>3 DEF PlainInv, GoalsTyped
  <2>5. Lossless'
    BY <2>1, <2>2, <2>3 DEF PlainInv, Lossless
  <2> QED BY <1>2, <2>1, <2>2, <2>4, <2>5 DEF PlainInv
<1>7. CASE Conclude
  <2>1. UNCHANGED <<goal, goals, unsolved, asmps>> /\ goal # None
    BY <1>7 DEF Conclude, vars
  <2> QED BY <1>2, <2>1 DEF PlainInv, GoalsTyped, Lossless, Meant, Satisfies
<1> QED BY <1>3, <1>4, <1>5, <1>6, <1>7 DEF PlainNext

\* The loop with the rules of Fin.hs and Numeric.hs that build no types, tried in
\* any order, takes only steps that are right: the first goal follows from what a
\* rule puts in its place, and a goal is called unsolvable only if it is false and
\* no solution has been lost before.  The goals are about any types of a set that
\* has the numbers and the arguments of its members.
THEOREM PlainRulesAreRight ==
  ASSUME NEW T, ClosedTypes(T), Ops \subseteq ProvedOps, WidthBounds, \A g \in Goals : Over(T, g)
  PROVE  PlainSpec => RightSpec
<1>1. SolverInit => PlainInv(T)
  BY PlainInit
<1>2. PlainInv(T) /\ [PlainNext]_<<vars, solverVars>> => PlainInv(T)'
  BY PlainStep
<1>3. PlainInv(T) /\ [PlainNext]_<<vars, solverVars>> => [RightNext]_<<vars, solverVars>>
  BY PlainStepIsRight
<1> QED BY <1>1, <1>2, <1>3, PTL DEF PlainSpec, RightSpec

\* So what the solver says of a goal with these rules is true.
THEOREM PlainDecides ==
  ASSUME NEW T, ClosedTypes(T), Ops \subseteq ProvedOps, WidthBounds, \A g \in Goals : Over(T, g)
  PROVE  PlainSpec => []DecisionsSound
<1>1. PlainSpec => RightSpec
  BY PlainRulesAreRight
<1> QED BY <1>1, RightDecides, PTL
=============================================================================
