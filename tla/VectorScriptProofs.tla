------------------------- MODULE VectorScriptProofs -------------------------
(***************************************************************************)
(* That the methods of BV compute modulo 2 ^^ size and give the bits that  *)
(* Cryptol's operations give, and that vectors, bytes and integers are on  *)
(* the other side of the wire what they were on this one: for vectors and  *)
(* integers of any size.                                                   *)
(***************************************************************************)
EXTENDS VectorScript, VectorJSON, WellFoundedInduction, SequenceTheorems, FiniteSetTheorems,
        TLAPS

-----------------------------------------------------------------------------
(* Recursion over numbers *)

\* Induction, for a set of numbers.
LEMMA SetInduction ==
  ASSUME NEW S \in SUBSET Nat, 0 \in S, \A n \in Nat : n \in S => n + 1 \in S
  PROVE  S = Nat
<1> DEFINE R == {ss \in Nat \X Nat : ss[1] < ss[2]}
           T == Nat \ S
<1>1. IsWellFoundedOn(R, Nat)
  BY NatLessThanWellFounded DEF OpToRel
<1>2. ASSUME T # {} PROVE FALSE
  <2>1. PICK x \in T : \A y \in T : <<y, x>> \notin R
    BY <1>1, <1>2, WFMin
  <2>2. x \in Nat /\ x \notin S
    BY <2>1
  <2>3. x - 1 \in Nat /\ <<x - 1, x>> \in R
    <3>1. x # 0
      BY <2>2
    <3> QED BY <2>2, <3>1
  <2>4. x - 1 \in S
    BY <2>1, <2>3
  <2>5. (x - 1) + 1 = x
    BY <2>2
  <2> QED BY <2>2, <2>3, <2>4, <2>5
<1> QED BY <1>2

\* A function with a first value and a step to each other value, and that there is one.
Steps(f, Val, first, next) ==
  f \in [Nat -> Val] /\ f[0] = first /\ \A n \in Nat : f[n + 1] = next[n + 1][f[n]]

LEMMA Recursion ==
  ASSUME NEW Val, NEW first \in Val, NEW next \in [Nat -> [Val -> Val]]
  PROVE  \E f : Steps(f, Val, first, next)
<1> DEFINE Part(m, f) == /\ f \in [0 .. m -> Val] /\ f[0] = first
                         /\ \A k \in 0 .. m - 1 : f[k + 1] = next[k + 1][f[k]]
           Some == {m \in Nat : \E f : Part(m, f)}
           part == [m \in Nat |-> CHOOSE f : Part(m, f)]
<1>1. Some = Nat
  <2>1. Part(0, [k \in 0 .. 0 |-> first])
    OBVIOUS
  <2>2. 0 \in Some
    <3> HIDE DEF Part
    <3> QED BY <2>1
  <2>3. ASSUME NEW m \in Nat, NEW f, Part(m, f)
        PROVE  \E g : Part(m + 1, g)
    <3> DEFINE g == [k \in 0 .. m + 1 |-> IF k <= m THEN f[k] ELSE next[m + 1][f[m]]]
    <3>1. g \in [0 .. m + 1 -> Val] /\ g[0] = first
      BY <2>3
    <3>2. ASSUME NEW k \in 0 .. m PROVE g[k + 1] = next[k + 1][g[k]]
      <4>1. CASE k = m
        BY <4>1
      <4>2. CASE k # m
        <5>1. k \in 0 .. m - 1 /\ g[k] = f[k] /\ g[k + 1] = f[k + 1]
          BY <4>2
        <5> QED BY <2>3, <5>1
      <4> QED BY <4>1, <4>2
    <3>3. (m + 1) - 1 = m
      OBVIOUS
    <3>4. Part(m + 1, g)
      BY <3>1, <3>2, <3>3
    <3> HIDE DEF Part, g
    <3> QED BY <3>4
  <2>4. \A m \in Nat : m \in Some => m + 1 \in Some
    <3> HIDE DEF Part
    <3> QED BY <2>3
  <2> HIDE DEF Some
  <2>5. Some \in SUBSET Nat
    BY DEF Some
  <2> QED BY <2>2, <2>4, <2>5, SetInduction
<1>2. \A m \in Nat : Part(m, part[m])
  <2> HIDE DEF Part
  <2> QED BY <1>1
<1>3. ASSUME NEW m \in Nat
      PROVE  \A k \in 0 .. m : part[m + 1][k] = part[m][k]
  <2> DEFINE Same == {k \in Nat : k <= m => part[m + 1][k] = part[m][k]}
  <2>1. Part(m, part[m]) /\ Part(m + 1, part[m + 1])
    <3> HIDE DEF Part, part
    <3> QED BY <1>2
  <2> HIDE DEF part
  <2>2. 0 \in Same
    BY <2>1
  <2>3. ASSUME NEW k \in Nat, k \in Same PROVE k + 1 \in Same
    <3>1. CASE k + 1 <= m
      <4>1. k \in 0 .. m - 1 /\ k \in 0 .. (m + 1) - 1
        BY <3>1
      <4> QED BY <2>1, <2>3, <4>1
    <3>2. CASE ~(k + 1 <= m)
      BY <3>2
    <3> QED BY <3>1, <3>2
  <2> HIDE DEF Same
  <2>4. Same = Nat
    <3>1. Same \in SUBSET Nat
      BY DEF Same
    <3> QED BY <2>2, <2>3, <3>1, SetInduction
  <2> QED BY <2>4 DEF Same
<1>4. ASSUME NEW m \in Nat
      PROVE  /\ part[m][m] \in Val /\ part[0][0] = first
             /\ part[m + 1][m + 1] = next[m + 1][part[m + 1][m]]
  <2>1. Part(0, part[0]) /\ Part(m, part[m]) /\ Part(m + 1, part[m + 1])
    <3> HIDE DEF Part, part
    <3> QED BY <1>2
  <2> HIDE DEF part
  <2>2. m \in 0 .. (m + 1) - 1
    OBVIOUS
  <2> QED BY <2>1, <2>2
<1> DEFINE f == [m \in Nat |-> part[m][m]]
<1> HIDE DEF Part, Some, part
<1>5. ASSUME NEW m \in Nat PROVE f[m + 1] = next[m + 1][f[m]]
  BY <1>3, <1>4
<1>6. f \in [Nat -> Val] /\ f[0] = first
  BY <1>4
<1> HIDE DEF f
<1>7. Steps(f, Val, first, next)
  BY <1>5, <1>6 DEF Steps
<1> QED BY <1>7

-----------------------------------------------------------------------------
(* Powers of two and sums *)

LEMMA Powers ==
  /\ Pow2 \in [Nat -> Nat \ {0}] /\ Pow2[0] = 1
  /\ \A n \in Nat : Pow2[n + 1] = 2 * Pow2[n]
<1> DEFINE Positive == Nat \ {0}
           step == [n \in Nat |-> [x \in Positive |-> 2 * x]]
           Def(f) == f = [n \in Nat |-> IF n = 0 THEN 1 ELSE 2 * f[n - 1]]
<1>1. step \in [Nat -> [Positive -> Positive]]
  OBVIOUS
<1>2. PICK f : Steps(f, Positive, 1, step)
  <2>1. 1 \in Positive
    OBVIOUS
  <2> HIDE DEF step, Positive
  <2> QED BY <1>1, <2>1, Recursion
<1>3. f \in [Nat -> Positive] /\ f[0] = 1 /\ \A n \in Nat : f[n + 1] = step[n + 1][f[n]]
  BY <1>2 DEF Steps
<1>10. ASSUME NEW n \in Nat PROVE f[n] = IF n = 0 THEN 1 ELSE 2 * f[n - 1]
  <2>1. CASE n # 0
    <3>1. n - 1 \in Nat /\ (n - 1) + 1 = n
      BY <2>1
    <3>2. f[n] = step[n][f[n - 1]]
      BY <1>3, <3>1
    <3> QED BY <1>3, <2>1, <3>1, <3>2
  <2> QED BY <1>3, <2>1
<1>4. Def(f)
  BY <1>3, <1>10
<1>5. Pow2 = CHOOSE g : Def(g)
  BY DEF Pow2
<1>6. Def(Pow2)
  <2> HIDE DEF Def
  <2> QED BY <1>4, <1>5
<1>7. ASSUME NEW n \in Nat PROVE Pow2[n + 1] = 2 * Pow2[n]
  BY <1>6
<1> DEFINE Good == {n \in Nat : Pow2[n] \in Positive}
<1>8. Good = Nat
  <2>1. 0 \in Good
    BY <1>6
  <2>2. ASSUME NEW n \in Nat, n \in Good PROVE n + 1 \in Good
    BY <1>7, <2>2
  <2>3. Good \in SUBSET Nat
    OBVIOUS
  <2> HIDE DEF Good
  <2> QED BY <2>1, <2>2, <2>3, SetInduction
<1>9. Pow2 \in [Nat -> Positive]
  <2>1. \A n \in Nat : Pow2[n] \in Positive
    BY <1>8
  <2>2. Pow2 = [n \in Nat |-> Pow2[n]]
    BY <1>6
  <2> HIDE DEF Positive
  <2> QED BY <2>1, <2>2
<1> QED BY <1>6, <1>7, <1>9

\* The partial sums of Total.
LEMMA Totals ==
  ASSUME NEW n \in Nat, NEW term \in [1 .. n -> Int]
  PROVE  \E f \in [0 .. n -> Int] : /\ f[0] = 0 /\ Total(n, term) = f[n]
                                   /\ \A k \in 1 .. n : f[k] = f[k - 1] + term[k]
<1> DEFINE step == [k \in Nat |-> [x \in Int |-> IF k \in 1 .. n THEN x + term[k] ELSE x]]
           Def(f) == f = [k \in 0 .. n |-> IF k = 0 THEN 0 ELSE f[k - 1] + term[k]]
<1>1. step \in [Nat -> [Int -> Int]]
  OBVIOUS
<1>10. PICK f : Steps(f, Int, 0, step)
  <2> DEFINE All == Int
  <2>1. 0 \in All /\ step \in [Nat -> [All -> All]]
    BY <1>1
  <2> HIDE DEF step, All
  <2>2. \E f : Steps(f, All, 0, step)
    BY <2>1, Recursion
  <2> QED BY <2>2 DEF All
<1>2. f \in [Nat -> Int] /\ f[0] = 0 /\ \A k \in Nat : f[k + 1] = step[k + 1][f[k]]
  BY <1>10 DEF Steps
<1> DEFINE g == [k \in 0 .. n |-> f[k]]
<1>3. ASSUME NEW k \in 1 .. n PROVE f[k] = f[k - 1] + term[k]
  <2>1. k - 1 \in Nat /\ (k - 1) + 1 = k
    OBVIOUS
  <2>2. f[k] = step[k][f[k - 1]]
    BY <1>2, <2>1
  <2> QED BY <1>2, <2>1, <2>2
<1>4. Def(g)
  BY <1>2, <1>3
<1>5. Total(n, term) = (CHOOSE h : Def(h))[n]
  BY DEF Total
<1> DEFINE h == CHOOSE h : Def(h)
<1>6. Def(h)
  <2> HIDE DEF Def
  <2> QED BY <1>4
<1> HIDE DEF h
<1>7. h[0] = 0 /\ \A k \in 1 .. n : h[k] = h[k - 1] + term[k]
  BY <1>6
<1> DEFINE Good == {k \in Nat : k <= n => h[k] \in Int}
<1>8. Good = Nat
  <2>1. 0 \in Good
    BY <1>7
  <2>2. ASSUME NEW k \in Nat, k \in Good PROVE k + 1 \in Good
    <3>1. CASE k + 1 <= n
      <4>1. k + 1 \in 1 .. n /\ (k + 1) - 1 = k
        BY <3>1
      <4>2. h[k + 1] = h[k] + term[k + 1]
        BY <1>7, <4>1
      <4> QED BY <2>2, <3>1, <4>1, <4>2
    <3> QED BY <3>1
  <2>3. Good \in SUBSET Nat
    OBVIOUS
  <2> HIDE DEF Good
  <2> QED BY <2>1, <2>2, <2>3, SetInduction
<1>9. h \in [0 .. n -> Int]
  <2>1. \A k \in 0 .. n : h[k] \in Int
    BY <1>8
  <2> QED BY <1>6, <2>1
<1> QED BY <1>5, <1>7, <1>9 DEF h

LEMMA FromBitsBounds ==
  ASSUME NEW n \in Nat, NEW places
  PROVE  FromBits(n, places) \in 0 .. Pow2[n] - 1
<1> DEFINE term == [k \in 1 .. n |-> IF k - 1 \in places THEN Pow2[k - 1] ELSE 0]
<1>1. term \in [1 .. n -> Int]
  BY Powers
<1>2. FromBits(n, places) = Total(n, term)
  BY DEF FromBits
<1> HIDE DEF term
<1>3. PICK f \in [0 .. n -> Int] : /\ f[0] = 0 /\ Total(n, term) = f[n]
                                  /\ \A k \in 1 .. n : f[k] = f[k - 1] + term[k]
  BY <1>1, Totals
<1> DEFINE Good == {k \in Nat : k <= n => f[k] \in 0 .. Pow2[k] - 1}
<1>4. 0 \in Good
  <2>1. f[0] = 0 /\ Pow2[0] = 1
    BY <1>3, Powers
  <2> QED BY <2>1
<1>5. ASSUME NEW k \in Nat, k \in Good PROVE k + 1 \in Good
  <2>1. CASE k + 1 <= n
    <3>1. k + 1 \in 1 .. n /\ (k + 1) - 1 = k
      BY <2>1
    <3>2. f[k + 1] = f[k] + term[k + 1] /\ term[k + 1] \in {0, Pow2[k]}
      BY <1>3, <3>1 DEF term
    <3>3. f[k] \in 0 .. Pow2[k] - 1 /\ Pow2[k + 1] = 2 * Pow2[k] /\ Pow2[k] \in Nat
      BY <1>5, <2>1, Powers
    <3>4. f[k + 1] \in 0 .. Pow2[k + 1] - 1
      <4> DEFINE x == f[k]
                 y == f[k + 1]
                 e == term[k + 1]
                 p == Pow2[k]
                 q == Pow2[k + 1]
      <4>1. y = x + e /\ e \in {0, p} /\ x \in 0 .. p - 1 /\ q = 2 * p /\ p \in Nat
        BY <3>2, <3>3
      <4> HIDE DEF x, y, e, p, q
      <4>2. y \in 0 .. q - 1
        BY <4>1
      <4> QED BY <4>2 DEF y, q
    <3> QED BY <3>4
  <2> QED BY <2>1
<1>6. Good = Nat
  <2>1. Good \in SUBSET Nat
    OBVIOUS
  <2> HIDE DEF Good
  <2> QED BY <1>4, <1>5, <2>1, SetInduction
<1> QED BY <1>2, <1>3, <1>6

-----------------------------------------------------------------------------
(* Remainders *)

LEMMA Remainder ==
  ASSUME NEW p \in Nat \ {0}, NEW v \in Int
  PROVE  v = p * (v \div p) + (v % p) /\ v % p \in 0 .. p - 1 /\ v \div p \in Int
OBVIOUS

LEMMA RemainderUnique ==
  ASSUME NEW p \in Nat \ {0}, NEW v \in Int, NEW q \in Int, NEW r \in 0 .. p - 1, v = p * q + r
  PROVE  v % p = r /\ v \div p = q
<1> DEFINE quot == v \div p
           rest == v % p
           d == quot - q
<1>1. v = p * quot + rest /\ rest \in 0 .. p - 1 /\ quot \in Int
  BY Remainder
<1> HIDE DEF quot, rest
<1>2. p * d = r - rest /\ d \in Int
  BY <1>1
<1>3. d < 1 /\ d > -1
  BY <1>1, <1>2
<1>4. d = 0
  BY <1>2, <1>3
<1>5. rest = r /\ quot = q
  BY <1>1, <1>4
<1> QED BY <1>5 DEF quot, rest

LEMMA SmallRemainder ==
  ASSUME NEW p \in Nat \ {0}, NEW v \in 0 .. p - 1
  PROVE  v % p = v /\ v \div p = 0
BY RemainderUnique

LEMMA SameRemainder ==
  ASSUME NEW p \in Nat \ {0}, NEW v \in Int, NEW w \in Int, NEW k \in Int, w = v + p * k
  PROVE  w % p = v % p /\ w \div p = (v \div p) + k
<1> DEFINE quot == v \div p
           rest == v % p
<1>1. v = p * quot + rest /\ rest \in 0 .. p - 1 /\ quot \in Int
  BY Remainder
<1> HIDE DEF quot, rest
<1> DEFINE q == quot + k
<1>2. w = p * q + rest /\ q \in Int
  BY <1>1
<1> HIDE DEF q
<1>3. w % p = rest /\ w \div p = q
  BY <1>1, <1>2, RemainderUnique
<1> QED BY <1>3 DEF q, quot, rest

LEMMA PowerOfSum ==
  ASSUME NEW m \in Nat
  PROVE  \A n \in Nat : Pow2[m + n] = Pow2[m] * Pow2[n]
<1> DEFINE Good == {n \in Nat : Pow2[m + n] = Pow2[m] * Pow2[n]}
<1>1. 0 \in Good
  BY Powers
<1>2. ASSUME NEW n \in Nat, n \in Good PROVE n + 1 \in Good
  <2>1. /\ Pow2[m] \in Nat /\ Pow2[n] \in Nat /\ Pow2[n + 1] = 2 * Pow2[n]
        /\ Pow2[(m + n) + 1] = 2 * Pow2[m + n] /\ (m + n) + 1 = m + (n + 1)
    BY Powers
  <2>2. Pow2[m + (n + 1)] = Pow2[m] * Pow2[n + 1]
    BY <1>2, <2>1
  <2> QED BY <2>2
<1>3. Good = Nat
  <2>1. Good \in SUBSET Nat
    OBVIOUS
  <2> HIDE DEF Good
  <2> QED BY <1>1, <1>2, <2>1, SetInduction
<1> QED BY <1>3

\* The low bits of a number are those of its remainder.
LEMMA BitOfRemainder ==
  ASSUME NEW n \in Nat, NEW k \in 0 .. n - 1, NEW w \in Int
  PROVE  Bit(w % Pow2[n], k) = Bit(w, k)
<1> DEFINE p == Pow2[k]
           h == Pow2[n - k - 1]
           q == w \div Pow2[n]
           r == w % Pow2[n]
<1>1. p \in Nat \ {0} /\ h \in Nat \ {0} /\ Pow2[n] \in Nat \ {0}
  BY Powers
<1>2. Pow2[n] = p * (2 * h)
  <2>1. n - k - 1 \in Nat /\ n - k \in Nat /\ k + (n - k) = n /\ (n - k - 1) + 1 = n - k
    OBVIOUS
  <2>2. Pow2[k + (n - k)] = p * Pow2[n - k]
    BY <2>1, PowerOfSum
  <2>3. Pow2[(n - k - 1) + 1] = 2 * h
    BY <2>1, Powers
  <2>4. Pow2[n] = p * Pow2[n - k] /\ Pow2[n - k] = 2 * h
    BY <2>1, <2>2, <2>3
  <2> QED BY <1>1, <2>4
<1> DEFINE b == Pow2[n]
<1>3. w = b * q + r /\ q \in Int /\ r \in Int
  <2> HIDE DEF b
  <2>1. b \in Nat \ {0} /\ q = w \div b /\ r = w % b
    BY <1>1 DEF b
  <2> HIDE DEF q, r
  <2> QED BY <2>1, Remainder
<1> HIDE DEF p, h, q, r
<1> DEFINE c == 2 * (h * q)
<1>4. w = r + p * c /\ c \in Int
  BY <1>1, <1>2, <1>3
<1> DEFINE low == r \div p
           hq == h * q
<1>5. w \div p = low + c /\ low \in Int /\ hq \in Int
  <2>1. hq \in Int
    BY <1>1, <1>3
  <2>2. low \in Int
    BY <1>1, <1>3, Remainder
  <2>3. w \div p = low + c
    <3> HIDE DEF c
    <3> QED BY <1>1, <1>3, <1>4, SameRemainder
  <2> QED BY <2>1, <2>2, <2>3
<1>6. (low + 2 * hq) % 2 = low % 2
  <2> HIDE DEF hq, low
  <2> QED BY <1>5
<1>7. (w \div p) % 2 = low % 2
  BY <1>5, <1>6
<1> QED BY <1>7 DEF Bit, p, r

-----------------------------------------------------------------------------
(* Vectors *)

Vec == {a \in [size : Nat, value : Nat] : a.value < Pow2[a.size]}

LEMMA Vector ==
  ASSUME NEW a \in Vec
  PROVE  /\ a.size \in Nat /\ Pow2[a.size] \in Nat \ {0} /\ a.value \in 0 .. Pow2[a.size] - 1
         /\ a = [size |-> a.size, value |-> a.value] /\ DOMAIN a = {"size", "value"}
BY Powers DEF Vec

\* The constructor of BV makes a vector, or refuses to.
LEMMA Made ==
  ASSUME NEW n \in Nat, NEW v \in Int
  PROVE  IF v \in 0 .. Pow2[n] - 1
         THEN BV(n, v) = [size |-> n, value |-> v] /\ BV(n, v) \in Vec
         ELSE BV(n, v) = ValueError
BY Powers DEF BV, Fits, Vec

LEMMA Result ==
  ASSUME NEW n \in Int, NEW v \in Int
  PROVE  BV(n, v) \in Vec \cup {ValueError}
<1>1. CASE n >= 0
  BY <1>1, Made
<1>2. CASE ~(n >= 0)
  BY <1>2 DEF BV
<1> QED BY <1>1, <1>2

LEMMA NoVector ==
  /\ DOMAIN ValueError # {"size", "value"} /\ ValueError \notin Vec
  /\ \A x : /\ DOMAIN [bool |-> x] # {"size", "value"} /\ DOMAIN [int |-> x] # {"size", "value"}
           /\ DOMAIN [bytes |-> x] # {"size", "value"} /\ DOMAIN [list |-> x] # {"size", "value"}
BY DEF ValueError, Vec

LEMMA VectorsAreVec ==
  ASSUME NEW n \in Nat
  PROVE  Vectors(n) \subseteq Vec
BY Made, Powers DEF Vectors

-----------------------------------------------------------------------------
(* Arithmetic *)

\* A vector of n bits with the remainder of v.
LEMMA RemainderVector ==
  ASSUME NEW n \in Nat, NEW v \in Int
  PROVE  /\ v % Pow2[n] \in 0 .. Pow2[n] - 1
         /\ BV(n, v % Pow2[n]) = [size |-> n, value |-> v % Pow2[n]]
         /\ BV(n, v % Pow2[n]) \in Vec
<1>1. Pow2[n] \in Nat \ {0}
  BY Powers
<1>2. v % Pow2[n] \in 0 .. Pow2[n] - 1
  BY <1>1, Remainder
<1> QED BY <1>2, Made

LEMMA Reduced ==
  ASSUME NEW a \in Vec, NEW v \in Nat
  PROVE  mod_if_overflow(a, v) = v % Pow2[a.size]
<1>1. a.size \in Nat /\ Pow2[a.size] \in Nat \ {0}
  BY Vector
<1>2. v < Pow2[a.size] => v % Pow2[a.size] = v
  BY <1>1, SmallRemainder
<1> QED BY <1>1, <1>2 DEF mod_if_overflow, Fits

LEMMA FromSigned ==
  ASSUME NEW n \in Nat, NEW v \in Int
  PROVE  from_signed(n, v) = [size |-> n, value |-> v % Pow2[n]] /\ from_signed(n, v) \in Vec
<1> DEFINE p == Pow2[n]
           r == v % p
<1>1. p \in Nat \ {0} /\ r \in 0 .. p - 1
  BY Powers, Remainder
<1>2. BV(n, r) = [size |-> n, value |-> r] /\ BV(n, r) \in Vec
  BY RemainderVector
<1>3. r % p = r
  BY <1>1, SmallRemainder
<1>4. CASE n = 0
  <2>1. p = 1
    BY <1>4, Powers
  <2>2. r = 0
    BY <1>1, <2>1
  <2> QED BY <1>2, <1>4, <2>2 DEF from_signed
<1>5. CASE n # 0 /\ v >= 0
  BY <1>2, <1>5 DEF from_signed
<1>6. CASE n # 0 /\ ~(v >= 0)
  <2>1. -(-(v + 1)) - 1 = v
    OBVIOUS
  <2>2. from_signed(n, v) = BV(n, r % p)
    BY <1>6, <2>1 DEF from_signed, LowBits
  <2> QED BY <1>2, <1>3, <2>2
<1> QED BY <1>4, <1>5, <1>6

LEMMA SignedValue ==
  ASSUME NEW a \in Vec, a.size # 0
  PROVE  /\ Signed(a) \in -(Pow2[a.size - 1]) .. Pow2[a.size - 1] - 1
         /\ \E k \in Int : Signed(a) = a.value + Pow2[a.size] * k
<1> DEFINE n == a.size
           h == Pow2[n - 1]
           x == a.value
           q == x \div h
           r == x % h
<1>1. n \in Nat /\ n - 1 \in Nat /\ (n - 1) + 1 = n
  BY Vector
<1>2. h \in Nat \ {0} /\ Pow2[n] = 2 * h /\ x \in 0 .. Pow2[n] - 1
  BY <1>1, Vector, Powers
<1>3. x = h * q + r /\ r \in 0 .. h - 1 /\ q \in Int
  <2> HIDE DEF h
  <2>1. x \in Int
    BY <1>2
  <2> HIDE DEF x
  <2> QED BY <1>2, <2>1, Remainder
<1> HIDE DEF h, q, r
<1>4. q \in {0, 1}
  <2>1. q < 2 /\ q > -1
    BY <1>2, <1>3
  <2> QED BY <1>3, <2>1
<1>5. Bit(x, n - 1) = q
  BY <1>4 DEF Bit, q, h
<1>6. Signed(a) = IF q = 0 THEN x ELSE x - 2 * h
  BY <1>2, <1>5 DEF Signed
<1>7. CASE q = 0
  <2>1. Signed(a) = x + Pow2[n] * 0
    BY <1>2, <1>6, <1>7
  <2>2. x \in 0 .. h - 1
    BY <1>2, <1>3, <1>7
  <2> QED BY <1>2, <1>6, <1>7, <2>1, <2>2 DEF h
<1>8. CASE q = 1
  <2>1. Signed(a) = x + Pow2[n] * (-1)
    BY <1>2, <1>6, <1>8
  <2>2. x \in h .. 2 * h - 1
    BY <1>2, <1>3, <1>8
  <2> QED BY <1>2, <1>6, <1>8, <2>1, <2>2 DEF h
<1> QED BY <1>4, <1>7, <1>8

-----------------------------------------------------------------------------
(* What the methods return *)

\* A result is a vector, or it is not taken for one.
Proper(r) == DOMAIN r = {"size", "value"} => r \in Vec

LEMMA Concatenated ==
  ASSUME NEW a \in Vec, NEW b \in Vec
  PROVE  /\ concat(a, b) = [size |-> a.size + b.size, value |-> a.value * Pow2[b.size] + b.value]
         /\ concat(a, b) \in Vec
<1> DEFINE p == Pow2[a.size]
           q == Pow2[b.size]
           v == a.value * q + b.value
<1>1. /\ a.size \in Nat /\ b.size \in Nat /\ p \in Nat /\ q \in Nat
      /\ a.value \in 0 .. p - 1 /\ b.value \in 0 .. q - 1
  BY Vector
<1>2. Pow2[a.size + b.size] = p * q
  BY <1>1, PowerOfSum
<1>3. v \in 0 .. p * q - 1
  <2> HIDE DEF p, q
  <2>1. a.value * q <= (p - 1) * q /\ a.value * q >= 0
    BY <1>1
  <2> QED BY <1>1, <2>1
<1>4. v \in Int /\ a.size + b.size \in Nat
  BY <1>1, <1>3
<1> QED BY <1>2, <1>3, <1>4, Made DEF concat

LEMMA Widened ==
  ASSUME NEW a \in Vec, NEW n \in Nat
  PROVE  /\ widen(a, n) = [size |-> a.size + n, value |-> a.value]
         /\ widen(a, n) \in Vec
<1>1. a.size \in Nat /\ Pow2[a.size] \in Nat /\ Pow2[n] \in Nat \ {0} /\ a.value \in 0 .. Pow2[a.size] - 1
  BY Vector, Powers
<1>2. Pow2[a.size + n] = Pow2[a.size] * Pow2[n]
  BY <1>1, PowerOfSum
<1>3. Pow2[a.size + n] >= Pow2[a.size]
  BY <1>1, <1>2
<1> QED BY <1>1, <1>2, <1>3, Made DEF widen

LEMMA ShiftedLeft ==
  ASSUME NEW a \in Vec, NEW n \in Nat
  PROVE  /\ lshift(a, n) = [size |-> a.size + n, value |-> a.value * Pow2[n]]
         /\ lshift(a, n) \in Vec
<1> DEFINE p == Pow2[a.size]
           q == Pow2[n]
           v == a.value * q
<1>1. a.size \in Nat /\ p \in Nat /\ q \in Nat \ {0} /\ a.value \in 0 .. p - 1
  BY Vector, Powers
<1>2. Pow2[a.size + n] = p * q
  BY <1>1, PowerOfSum
<1>3. v \in 0 .. p * q - 1
  <2> HIDE DEF p, q
  <2>1. a.value * q <= (p - 1) * q /\ a.value * q >= 0
    BY <1>1
  <2> QED BY <1>1, <2>1
<1>4. v \in Int /\ a.size + n \in Nat
  BY <1>1, <1>3
<1> QED BY <1>2, <1>3, <1>4, Made DEF lshift

LEMMA Quotients ==
  ASSUME NEW n \in Nat, NEW v \in 0 .. Pow2[n] - 1, NEW k \in 0 .. n
  PROVE  v \div Pow2[k] \in 0 .. Pow2[n - k] - 1
<1> DEFINE p == Pow2[k]
           h == Pow2[n - k]
           q == v \div p
           r == v % p
<1>1. p \in Nat \ {0} /\ h \in Nat \ {0} /\ Pow2[n] \in Nat
  BY Powers
<1>2. Pow2[n] = p * h
  <2>1. n - k \in Nat /\ k \in Nat /\ k + (n - k) = n
    OBVIOUS
  <2> QED BY <2>1, PowerOfSum
<1>3. v = p * q + r /\ r \in 0 .. p - 1 /\ q \in Int
  <2> HIDE DEF p
  <2>1. v \in Int
    BY <1>1
  <2> QED BY <1>1, <2>1, Remainder
<1> HIDE DEF p, h, q, r
<1>4. q > -1
  BY <1>1, <1>3
<1>5. p * q < p * h
  BY <1>1, <1>2, <1>3
<1>6. q < h
  BY <1>1, <1>3, <1>5
<1> QED BY <1>1, <1>3, <1>4, <1>6 DEF q, p, h

LEMMA ShiftedRight ==
  ASSUME NEW a \in Vec, NEW n \in Nat
  PROVE  /\ rshift(a, n) = [size |-> IF a.size < n THEN 0 ELSE a.size - n, value |-> a.value \div Pow2[n]]
         /\ rshift(a, n) \in Vec
<1>1. a.size \in Nat /\ Pow2[a.size] \in Nat /\ a.value \in 0 .. Pow2[a.size] - 1
  BY Vector
<1>2. CASE n <= a.size
  <2>1. a.value \div Pow2[n] \in 0 .. Pow2[a.size - n] - 1
    BY <1>1, <1>2, Quotients
  <2>2. a.size - n \in Nat /\ a.value \div Pow2[n] \in Int
    BY <1>1, <1>2, <2>1, Powers
  <2> QED BY <1>1, <1>2, <2>1, <2>2, Made DEF rshift, ShiftRight
<1>3. CASE ~(n <= a.size)
  <2>1. n - a.size \in Nat /\ a.size + (n - a.size) = n
    BY <1>1, <1>3
  <2>2. Pow2[n] = Pow2[a.size] * Pow2[n - a.size] /\ Pow2[n - a.size] \in Nat \ {0} /\ Pow2[n] \in Nat \ {0}
    <3> DEFINE m == a.size
               j == n - a.size
    <3>1. m \in Nat /\ j \in Nat /\ m + j = n
      BY <1>1, <2>1
    <3> HIDE DEF m, j
    <3>2. Pow2[m + j] = Pow2[m] * Pow2[j]
      BY <3>1, PowerOfSum
    <3>3. Pow2[j] \in Nat \ {0} /\ Pow2[n] \in Nat \ {0}
      BY <3>1, Powers
    <3> QED BY <3>1, <3>2, <3>3 DEF m, j
  <2>3. a.value \in 0 .. Pow2[n] - 1
    BY <1>1, <2>2
  <2>4. a.value \div Pow2[n] = 0
    BY <2>2, <2>3, SmallRemainder
  <2>5. BV(0, 0) = [size |-> 0, value |-> 0] /\ BV(0, 0) \in Vec
    BY Made, Powers
  <2> QED BY <1>1, <1>3, <2>4, <2>5 DEF rshift, ShiftRight
<1> QED BY <1>1, <1>2, <1>3

LEMMA Inverted ==
  ASSUME NEW a \in Vec
  PROVE  /\ invert(a) = [size |-> a.size, value |-> Pow2[a.size] - 1 - a.value]
         /\ invert(a) \in Vec
<1>1. a.size \in Nat /\ Pow2[a.size] \in Nat \ {0} /\ a.value \in 0 .. Pow2[a.size] - 1
  BY Vector
<1>2. Pow2[a.size] - 1 - a.value \in 0 .. Pow2[a.size] - 1
  BY <1>1
<1> QED BY <1>1, <1>2, Made DEF invert

LEMMA Sliced ==
  ASSUME NEW a \in Vec, NEW high \in Int, NEW low \in Int, 0 <= low, low <= high, high <= a.size
  PROVE  /\ getslice(a, high, low) =
              [size |-> high - low, value |-> (a.value \div Pow2[low]) % Pow2[high - low]]
         /\ getslice(a, high, low) \in Vec
<1> DEFINE w == a.value \div Pow2[low]
<1>1. a.size \in Nat /\ a.value \in Int /\ low \in Nat /\ high - low \in Nat
  BY Vector
<1>2. w \in Int
  BY <1>1, Powers, Remainder
<1> HIDE DEF w
<1>3. /\ BV(high - low, w % Pow2[high - low]) = [size |-> high - low, value |-> w % Pow2[high - low]]
      /\ BV(high - low, w % Pow2[high - low]) \in Vec
  BY <1>1, <1>2, RemainderVector
<1>4. getslice(a, high, low) = BV(high - low, w % Pow2[high - low])
  BY <1>1 DEF getslice, LowBits, ShiftRight, w
<1> QED BY <1>3, <1>4 DEF w

LEMMA Answers ==
  /\ \A r \in Vec \cup {ValueError} : Proper(r)
  /\ \A x : Proper([bool |-> x]) /\ Proper([int |-> x]) /\ Proper([bytes |-> x]) /\ Proper([list |-> x])
BY NoVector DEF Proper

\* The numbers of the bitwise operators.
LEMMA BitwiseNumbers ==
  ASSUME NEW n \in Nat, NEW v \in Int, NEW w \in Int
  PROVE  And(n, v, w) \in 0 .. Pow2[n] - 1 /\ Or(n, v, w) \in Int /\ Xor(n, v, w) \in Int
<1>1. \A places : FromBits(n, places) \in 0 .. Pow2[n] - 1
  BY FromBitsBounds
<1>2. Pow2[n] \in Nat \ {0}
  BY Powers
<1> DEFINE p == Pow2[n]
<1>3. w \div p \in Int
  <2> HIDE DEF p
  <2>1. p \in Nat \ {0}
    BY <1>2 DEF p
  <2> QED BY <2>1, Remainder
<1>4. p * (w \div p) \in Int
  BY <1>2, <1>3
<1>5. And(n, v, w) \in 0 .. Pow2[n] - 1
  BY <1>1 DEF And
<1>6. \A places : FromBits(n, places) \in Int
  BY <1>1, <1>2
<1>7. Or(n, v, w) \in Int
  BY <1>4, <1>6 DEF Or, ShiftRight
<1>8. Xor(n, v, w) \in Int
  BY <1>4, <1>6 DEF Xor, ShiftRight
<1> QED BY <1>5, <1>7, <1>8

LEMMA BitwiseAnswers ==
  ASSUME NEW a \in Vec
  PROVE  /\ \A i \in Int : /\ AndInt(a, i) = [size |-> a.size, value |-> And(a.size, a.value, i)]
                           /\ AndInt(a, i) \in Vec
                           /\ OrInt(a, i) \in Vec \cup {ValueError}
                           /\ XorInt(a, i) \in Vec \cup {ValueError}
         /\ \A b \in Vec : /\ bvAnd(a, b) \in Vec \cup {ValueError}
                           /\ bvOr(a, b) \in Vec \cup {ValueError}
                           /\ bvXor(a, b) \in Vec \cup {ValueError}
<1>1. a.size \in Nat /\ a.value \in Int /\ Pow2[a.size] \in Nat
  BY Vector
<1>2. ASSUME NEW i \in Int
      PROVE  /\ AndInt(a, i) = [size |-> a.size, value |-> And(a.size, a.value, i)]
             /\ AndInt(a, i) \in Vec
             /\ OrInt(a, i) \in Vec \cup {ValueError}
             /\ XorInt(a, i) \in Vec \cup {ValueError}
  <2>1. /\ And(a.size, a.value, i) \in 0 .. Pow2[a.size] - 1
        /\ Or(a.size, a.value, i) \in Int /\ Xor(a.size, a.value, i) \in Int
    BY <1>1, BitwiseNumbers
  <2>2. And(a.size, a.value, i) \in Int
    BY <1>1, <2>1
  <2>3. BV(a.size, And(a.size, a.value, i)) = AndInt(a, i)
    BY DEF AndInt
  <2>4. /\ BV(a.size, Or(a.size, a.value, i)) \in Vec \cup {ValueError}
        /\ BV(a.size, Xor(a.size, a.value, i)) \in Vec \cup {ValueError}
    BY <1>1, <2>1, Result
  <2>5. /\ AndInt(a, i) = [size |-> a.size, value |-> And(a.size, a.value, i)]
        /\ AndInt(a, i) \in Vec
    BY <1>1, <2>1, <2>2, <2>3, Made
  <2> QED BY <2>4, <2>5 DEF OrInt, XorInt
<1>3. ASSUME NEW b \in Vec
      PROVE  /\ bvAnd(a, b) \in Vec \cup {ValueError}
             /\ bvOr(a, b) \in Vec \cup {ValueError}
             /\ bvXor(a, b) \in Vec \cup {ValueError}
  <2>1. b.value \in Int
    BY Vector
  <2>2. /\ bvAnd(a, b) = Equal(a, b, AndInt(a, b.value))
        /\ bvOr(a, b) = Equal(a, b, OrInt(a, b.value))
        /\ bvXor(a, b) = Equal(a, b, XorInt(a, b.value))
    BY DEF bvAnd, bvOr, bvXor, AndInt, OrInt, XorInt
  <2> QED BY <1>2, <2>1, <2>2 DEF Equal
<1> QED BY <1>2, <1>3

LEMMA BitReplaced ==
  ASSUME NEW a \in Vec, NEW i \in Int, NEW b \in BOOLEAN
  PROVE  with_bit(a, i, b) \in Vec \cup {ValueError}
<1>1. CASE i < 0 \/ i >= a.size
  BY <1>1 DEF with_bit
<1>2. CASE ~(i < 0 \/ i >= a.size)
  <2>1. i \in Nat /\ a.size \in Nat
    BY <1>2, Vector
  <2>2. Pow2[i] \in Int /\ Pow2[a.size] \in Int
    BY <2>1, Powers
  <2>3. Pow2[a.size] - 1 - Pow2[i] \in Int
    BY <2>2
  <2>4. OrInt(a, Pow2[i]) \in Vec \cup {ValueError}
    BY <2>2, BitwiseAnswers
  <2>5. AndInt(a, Pow2[a.size] - 1 - Pow2[i]) \in Vec
    BY <2>3, BitwiseAnswers
  <2> QED BY <1>2, <2>4, <2>5 DEF with_bit
<1> QED BY <1>1, <1>2

LEMMA BitsReplaced ==
  ASSUME NEW a \in Vec, NEW low \in Int, NEW b \in Vec
  PROVE  with_bits(a, low, b) \in Vec \cup {ValueError}
<1>1. CASE low < 0 \/ low >= a.size \/ low + b.size > a.size
  BY <1>1 DEF with_bits
<1>2. CASE ~(low < 0 \/ low >= a.size \/ low + b.size > a.size)
  <2> DEFINE wider == a.size - (low + b.size)
             ones == BV(b.size, Pow2[b.size] - 1)
             mask == widen(lshift(ones, low), wider)
             moved == widen(lshift(b, low), wider)
             rest == bvAnd(a, invert(mask))
  <2>1. low \in Nat /\ wider \in Nat /\ a.size \in Nat /\ b.size \in Nat
    BY <1>2, Vector
  <2>2. Pow2[b.size] - 1 \in 0 .. Pow2[b.size] - 1 /\ Pow2[b.size] - 1 \in Int
    BY <2>1, Powers
  <2>3. ones \in Vec /\ ones.size = b.size
    BY <2>1, <2>2, Made
  <2> HIDE DEF ones
  <2> DEFINE shifted == lshift(ones, low)
             copy == lshift(b, low)
  <2>4. shifted \in Vec /\ shifted.size = b.size + low /\ copy \in Vec
    <3>1. /\ shifted = [size |-> ones.size + low, value |-> ones.value * Pow2[low]]
          /\ shifted \in Vec
      BY <2>1, <2>3, ShiftedLeft
    <3>2. copy \in Vec
      BY <2>1, ShiftedLeft
    <3> QED BY <2>3, <3>1, <3>2
  <2> HIDE DEF wider, shifted, copy
  <2>5. mask \in Vec /\ mask.size = (b.size + low) + wider /\ moved \in Vec
    <3>1. widen(shifted, wider) = [size |-> shifted.size + wider, value |-> shifted.value]
      BY <2>1, <2>4, Widened
    <3>2. widen(shifted, wider) \in Vec /\ widen(copy, wider) \in Vec
      BY <2>1, <2>4, Widened
    <3> QED BY <2>4, <3>1, <3>2 DEF shifted, copy
  <2>6. mask.size = a.size
    BY <2>1, <2>5 DEF wider
  <2> HIDE DEF mask, moved
  <2>7. invert(mask) \in Vec /\ invert(mask).size = a.size
    BY <2>5, <2>6, Inverted
  <2>8. rest \in Vec
    <3>1. invert(mask).value \in Int
      BY <2>7, Vector
    <3>2. rest = AndInt(a, invert(mask).value)
      BY <2>7 DEF bvAnd, AndInt, Equal
    <3> QED BY <3>1, <3>2, BitwiseAnswers
  <2>9. bvOr(rest, moved) \in Vec \cup {ValueError}
    <3> HIDE DEF rest
    <3> QED BY <2>5, <2>8, BitwiseAnswers
  <2>10. with_bits(a, low, b) = bvOr(rest, moved)
    BY <1>2 DEF with_bits, wider, ones, mask, moved, shifted, copy
  <2> QED BY <2>9, <2>10
<1> QED BY <1>1, <1>2

\* Joining concatenates one vector after another, and keeps to vectors.
LEMMA Joining ==
  ASSUME NEW bs \in Seq(Vec)
  PROVE  /\ join(bs) \in Vec
         /\ \E joined :
              /\ joined[0] = BV(0, 0) /\ join(bs) = joined[Len(bs)]
              /\ \A k \in 0 .. Len(bs) : joined[k] \in Vec
              /\ \A k \in 1 .. Len(bs) : joined[k] = concat(joined[k - 1], bs[k])
<1> DEFINE n == Len(bs)
           step == [k \in Nat |-> [x \in Vec |-> IF k \in 1 .. n THEN concat(x, bs[k]) ELSE x]]
           empty == BV(0, 0)
           Def(f) == f = [k \in 0 .. n |-> IF k = 0 THEN empty ELSE concat(f[k - 1], bs[k])]
<1>1. n \in Nat /\ \A k \in 1 .. n : bs[k] \in Vec
  OBVIOUS
<1>2. empty \in Vec
  BY Made, Powers
<1>3. step \in [Nat -> [Vec -> Vec]]
  <2> HIDE DEF n
  <2>1. \A k \in Nat, x \in Vec : (IF k \in 1 .. n THEN concat(x, bs[k]) ELSE x) \in Vec
    BY <1>1, Concatenated
  <2> QED BY <2>1
<1> HIDE DEF empty
<1>4. PICK f : Steps(f, Vec, empty, step)
  <2> HIDE DEF step
  <2> QED BY <1>2, <1>3, Recursion
<1> HIDE DEF n
<1>5. f \in [Nat -> Vec] /\ f[0] = empty /\ \A k \in Nat : f[k + 1] = step[k + 1][f[k]]
  BY <1>4 DEF Steps
<1> DEFINE g == [k \in 0 .. n |-> f[k]]
<1>6. ASSUME NEW k \in 1 .. n PROVE f[k] = concat(f[k - 1], bs[k])
  <2>1. k - 1 \in Nat /\ (k - 1) + 1 = k /\ k \in Nat
    BY <1>1
  <2>2. f[k] = step[k][f[k - 1]]
    BY <1>5, <2>1
  <2> QED BY <1>5, <2>1, <2>2
<1>7. Def(g)
  BY <1>1, <1>5, <1>6
<1> DEFINE h == CHOOSE h : Def(h)
<1>8. Def(h)
  <2> HIDE DEF Def
  <2> QED BY <1>7
<1>9. join(bs) = h[n]
  BY DEF join, empty, n
<1> HIDE DEF h
<1>10. h[0] = empty /\ \A k \in 1 .. n : h[k] = concat(h[k - 1], bs[k])
  BY <1>1, <1>8
<1> DEFINE Good == {k \in Nat : k <= n => h[k] \in Vec}
<1>11. Good = Nat
  <2>1. 0 \in Good
    BY <1>2, <1>10
  <2>2. ASSUME NEW k \in Nat, k \in Good PROVE k + 1 \in Good
    <3>1. CASE k + 1 <= n
      <4>1. k + 1 \in 1 .. n /\ (k + 1) - 1 = k
        BY <1>1, <3>1
      <4>2. h[k + 1] = concat(h[k], bs[k + 1]) /\ h[k] \in Vec /\ bs[k + 1] \in Vec
        BY <1>1, <1>10, <2>2, <4>1
      <4>3. concat(h[k], bs[k + 1]) \in Vec
        BY <4>2, Concatenated
      <4> QED BY <4>2, <4>3
    <3> QED BY <3>1
  <2>3. Good \in SUBSET Nat
    OBVIOUS
  <2> HIDE DEF Good
  <2> QED BY <2>1, <2>2, <2>3, SetInduction
<1>12. join(bs) \in Vec /\ \A k \in 0 .. n : h[k] \in Vec
  BY <1>1, <1>9, <1>11
<1>13. h[0] = BV(0, 0)
  BY <1>10 DEF empty
<1> QED BY <1>9, <1>10, <1>12, <1>13 DEF n

LEMMA FromBytes ==
  ASSUME NEW bs \in Seq(0 .. 255), NEW n \in Nat, NEW order
  PROVE  from_bytes(bs, n, order) \in Vec \cup {ValueError}
<1> DEFINE len == Len(bs)
           Weight(k) == IF order = "big" THEN len - k ELSE k - 1
           term == [k \in 1 .. len |-> bs[k] * Pow2[8 * Weight(k)]]
<1>1. len \in Nat /\ \A k \in 1 .. len : bs[k] \in Int
  <2>1. bs \in Seq(Int)
    <3> DEFINE Byte == 0 .. 255
    <3>1. Byte \subseteq Int /\ bs \in Seq(Byte)
      OBVIOUS
    <3> HIDE DEF Byte
    <3>2. \A S, T : S \subseteq T => Seq(S) \subseteq Seq(T)
      OBVIOUS
    <3> QED BY <3>1, <3>2
  <2> QED BY <2>1
<1>2. term \in [1 .. len -> Int]
  <2>1. ASSUME NEW k \in 1 .. len PROVE bs[k] * Pow2[8 * Weight(k)] \in Int
    <3>1. 8 * Weight(k) \in Nat
      <4> HIDE DEF len
      <4> QED BY <1>1
    <3>2. Pow2[8 * Weight(k)] \in Int /\ bs[k] \in Int
      <4> HIDE DEF len, Weight
      <4> QED BY <1>1, <3>1, Powers
    <3> QED BY <3>2
  <2> HIDE DEF len, Weight
  <2> QED BY <2>1
<1>3. from_bytes(bs, n, order) = IF n >= 8 * len THEN BV(n, Total(len, term)) ELSE ValueError
  BY DEF from_bytes
<1> HIDE DEF term, len
<1>4. Total(len, term) \in Int
  BY <1>1, <1>2, Totals
<1> QED BY <1>3, <1>4, Result

-----------------------------------------------------------------------------
(* Arithmetic is modular *)

Mod(n, v) == [size |-> n, value |-> v % Pow2[n]]

LEMMA Sums ==
  ASSUME NEW a \in Vec, NEW b \in Vec
  PROVE  /\ Modular(a, "+", b, Add(a, b)) /\ Add(a, b) \in Vec \cup {ValueError}
         /\ Modular(a, "*", b, Mul(a, b)) /\ Mul(a, b) \in Vec \cup {ValueError}
<1>1. a.size \in Nat /\ a.value \in Nat /\ b.value \in Nat
  BY Vector
<1>2. a.value + b.value \in Nat /\ a.value * b.value \in Nat
  BY <1>1
<1>3. /\ BV(a.size, mod_if_overflow(a, a.value + b.value)) = Mod(a.size, a.value + b.value)
      /\ BV(a.size, mod_if_overflow(a, a.value + b.value)) \in Vec
      /\ BV(a.size, mod_if_overflow(a, a.value * b.value)) = Mod(a.size, a.value * b.value)
      /\ BV(a.size, mod_if_overflow(a, a.value * b.value)) \in Vec
  BY <1>1, <1>2, Reduced, RemainderVector DEF Mod
<1>4. /\ Add(a, b) = IF a.size = b.size THEN Mod(a.size, a.value + b.value) ELSE ValueError
      /\ Mul(a, b) = IF a.size = b.size THEN Mod(a.size, a.value * b.value) ELSE ValueError
      /\ Add(a, b) \in Vec \cup {ValueError} /\ Mul(a, b) \in Vec \cup {ValueError}
  BY <1>3 DEF Add, Mul, Equal
<1>5. Modular(a, "+", b, Add(a, b))
  BY <1>4 DEF Modular, Mod
<1>6. Modular(a, "*", b, Mul(a, b))
  BY <1>4 DEF Modular, Mod
<1> QED BY <1>4, <1>5, <1>6

\* The value of a vector and the number it stands for with a sign differ by a
\* multiple of 2 ^^ size.
LEMMA SignedRemainder ==
  ASSUME NEW a \in Vec, a.size # 0, NEW v \in Int
  PROVE  /\ Signed(a) \in Int
         /\ (Signed(a) - v) % Pow2[a.size] = (a.value - v) % Pow2[a.size]
         /\ (v - Signed(a)) % Pow2[a.size] = (v - a.value) % Pow2[a.size]
<1> DEFINE p == Pow2[a.size]
           x == a.value
           s == Signed(a)
<1>1. p \in Nat \ {0} /\ x \in Int
  BY Vector
<1>2. PICK k \in Int : s = x + p * k
  BY SignedValue
<1> HIDE DEF p, x, s
<1>3. s \in Int /\ -k \in Int
  BY <1>1, <1>2
<1> DEFINE d == x - v
           e == v - x
           ds == s - v
           es == v - s
<1>4. /\ d \in Int /\ e \in Int /\ ds \in Int /\ es \in Int
      /\ ds = d + p * k /\ es = e + p * (-k)
  BY <1>1, <1>2, <1>3
<1> HIDE DEF d, e, ds, es
<1>5. ds % p = d % p /\ es % p = e % p
  BY <1>1, <1>3, <1>4, SameRemainder
<1> QED BY <1>3, <1>5 DEF d, e, ds, es, p, x, s

LEMMA Differences ==
  ASSUME NEW a \in Vec, NEW b \in Vec
  PROVE  Modular(a, "-", b, Sub(a, b)) /\ Sub(a, b) \in Vec \cup {ValueError}
<1>1. a.size \in Nat /\ b.size \in Nat /\ a.value \in Int /\ b.value \in Int
  BY Vector
<1>2. CASE a.size # b.size
  BY <1>2 DEF Sub, Equal, Modular
<1>3. CASE a.size = b.size /\ a.size = 0
  <2>1. a.value = 0 /\ b.value = 0 /\ a = [size |-> 0, value |-> 0]
    <3>1. /\ a.value \in 0 .. Pow2[a.size] - 1 /\ b.value \in 0 .. Pow2[b.size] - 1
          /\ a = [size |-> a.size, value |-> a.value]
      BY Vector
    <3>2. Pow2[a.size] = 1 /\ Pow2[b.size] = 1
      BY <1>3, Powers
    <3>3. a.value \in 0 .. 0 /\ b.value \in 0 .. 0
      BY <3>1, <3>2
    <3> QED BY <1>3, <3>1, <3>3
  <2>2. Sub(a, b) = a /\ (a.value - b.value) % Pow2[a.size] = 0
    BY <1>3, <2>1, Powers DEF Sub, Equal
  <2> QED BY <1>3, <2>1, <2>2 DEF Modular
<1>4. CASE a.size = b.size /\ a.size # 0
  <2> DEFINE d == Signed(a) - Signed(b)
  <2>1. /\ Signed(a) \in Int /\ Signed(b) \in Int
        /\ (Signed(a) - Signed(b)) % Pow2[a.size] = (a.value - Signed(b)) % Pow2[a.size]
    <3>1. Signed(b) \in Int
      BY <1>1, <1>4, SignedRemainder
    <3> QED BY <1>4, <3>1, SignedRemainder
  <2>2. (a.value - Signed(b)) % Pow2[a.size] = (a.value - b.value) % Pow2[a.size]
    BY <1>1, <1>4, SignedRemainder
  <2>3. d \in Int
    BY <2>1
  <2>4. Sub(a, b) = from_signed(a.size, d)
    BY <1>4 DEF Sub, Equal
  <2> HIDE DEF d
  <2>5. Sub(a, b) = [size |-> a.size, value |-> d % Pow2[a.size]] /\ Sub(a, b) \in Vec
    BY <1>1, <2>3, <2>4, FromSigned
  <2>6. d % Pow2[a.size] = (a.value - b.value) % Pow2[a.size]
    BY <2>1, <2>2 DEF d
  <2> QED BY <1>4, <2>5, <2>6 DEF Modular
<1> QED BY <1>2, <1>3, <1>4

LEMMA IntegerSum ==
  ASSUME NEW a \in Vec, NEW i \in Int
  PROVE  Modular(a, "+int", i, AddInt(a, i)) /\ AddInt(a, i) \in Vec \cup {ValueError}
<1> DEFINE n == a.size
           s == a.value + i
<1>1. n \in Nat /\ a.value \in Nat /\ s \in Int
  BY Vector
<1> HIDE DEF n, s
<1>2. BV(n, s % Pow2[n]) = Mod(n, s) /\ BV(n, s % Pow2[n]) \in Vec
  BY <1>1, RemainderVector DEF Mod
<1>3. CASE s >= 0
  <2>1. mod_if_overflow(a, s) = s % Pow2[n]
    BY <1>1, <1>3, Reduced DEF n
  <2>2. AddInt(a, i) = Mod(n, s) /\ AddInt(a, i) \in Vec
    BY <1>2, <2>1 DEF AddInt, n, s
  <2> QED BY <2>2 DEF Modular, Mod, n, s
<1>4. CASE ~(s >= 0)
  <2>1. i \notin 0 .. Pow2[n] - 1
    BY <1>1, <1>4 DEF s
  <2>2. mod_if_overflow(a, s) \in {s, s % Pow2[n]}
    BY DEF mod_if_overflow, n
  <2>3. BV(n, s) = ValueError
    BY <1>4 DEF BV
  <2>4. AddInt(a, i) \in {ValueError, Mod(n, s)} /\ AddInt(a, i) \in Vec \cup {ValueError}
    BY <1>2, <2>2, <2>3 DEF AddInt, n, s
  <2> QED BY <2>1, <2>4 DEF Modular, Mod, n, s
<1> QED BY <1>3, <1>4

LEMMA IntegerDifferences ==
  ASSUME NEW a \in Vec, NEW i \in Int
  PROVE  /\ Modular(a, "-int", i, SubInt(a, i)) /\ SubInt(a, i) \in Vec \cup {ValueError}
         /\ Modular(a, "int-", i, RSubInt(a, i)) /\ RSubInt(a, i) \in Vec \cup {ValueError}
<1> DEFINE n == a.size
           p == Pow2[n]
           x == a.value
<1>1. n \in Nat /\ p \in Nat \ {0} /\ x \in Int
  BY Vector
<1>2. CASE i \notin 0 .. p - 1
  <2>1. SubInt(a, i) = ValueError /\ RSubInt(a, i) = ValueError
    BY <1>1, <1>2 DEF SubInt, RSubInt, CheckedInt
  <2> QED BY <1>2, <2>1 DEF Modular
<1>3. CASE i \in 0 .. p - 1
  <2>1. SubInt(a, i) = Mod(n, x - i) /\ SubInt(a, i) \in Vec
    <3>1. CASE n = 0
      <4>1. p = 1 /\ i = 0 /\ x \in 0 .. p - 1 /\ a = [size |-> n, value |-> x]
        <5>1. p = 1 /\ x \in 0 .. p - 1 /\ a = [size |-> n, value |-> x]
          BY <3>1, Vector, Powers
        <5> QED BY <1>3, <5>1
      <4>2. x - i = 0 /\ x = 0 /\ 0 % p = 0
        BY <4>1
      <4>3. SubInt(a, i) = a
        BY <1>1, <1>3, <3>1 DEF SubInt, CheckedInt
      <4> QED BY <4>1, <4>2, <4>3 DEF Mod
    <3>2. CASE n # 0
      <4> DEFINE d == Signed(a) - i
      <4>1. d \in Int /\ d % p = (x - i) % p
        BY <3>2, SignedRemainder
      <4>2. SubInt(a, i) = from_signed(n, d)
        BY <1>1, <1>3, <3>2 DEF SubInt, CheckedInt
      <4> HIDE DEF d
      <4> QED BY <1>1, <4>1, <4>2, FromSigned DEF Mod
    <3> QED BY <3>1, <3>2
  <2>2. RSubInt(a, i) = Mod(n, i - x) /\ RSubInt(a, i) \in Vec
    <3>1. CASE n = 0
      <4>1. p = 1 /\ i = 0 /\ x \in 0 .. p - 1 /\ a = [size |-> n, value |-> x]
        <5>1. p = 1 /\ x \in 0 .. p - 1 /\ a = [size |-> n, value |-> x]
          BY <3>1, Vector, Powers
        <5> QED BY <1>3, <5>1
      <4>2. i - x = 0 /\ x = 0 /\ 0 % p = 0
        BY <4>1
      <4>3. RSubInt(a, i) = a
        BY <1>1, <1>3, <3>1 DEF RSubInt, CheckedInt
      <4> QED BY <4>1, <4>2, <4>3 DEF Mod
    <3>2. CASE n # 0
      <4> DEFINE d == i - Signed(a)
      <4>1. d \in Int /\ d % p = (i - x) % p
        BY <3>2, SignedRemainder
      <4>2. RSubInt(a, i) = from_signed(n, d)
        BY <1>1, <1>3, <3>2 DEF RSubInt, CheckedInt
      <4> HIDE DEF d
      <4> QED BY <1>1, <4>1, <4>2, FromSigned DEF Mod
    <3> QED BY <3>1, <3>2
  <2>3. Modular(a, "-int", i, SubInt(a, i))
    BY <2>1 DEF Modular, Mod
  <2>4. Modular(a, "int-", i, RSubInt(a, i))
    BY <2>2 DEF Modular, Mod
  <2> QED BY <2>1, <2>2, <2>3, <2>4
<1> QED BY <1>2, <1>3

LEMMA IntegerProduct ==
  ASSUME NEW a \in Vec, NEW i \in Int
  PROVE  Modular(a, "*int", i, MulInt(a, i)) /\ MulInt(a, i) \in Vec \cup {ValueError}
<1> DEFINE n == a.size
           p == Pow2[n]
           y == a.value * i
           r == y % p
<1>1. n \in Nat /\ p \in Nat \ {0} /\ a.value \in Nat
  BY Vector
<1>2. CASE i \notin 0 .. p - 1
  <2>1. MulInt(a, i) = ValueError
    BY <1>1, <1>2 DEF MulInt, CheckedInt
  <2> QED BY <1>2, <2>1 DEF Modular
<1>3. CASE i \in 0 .. p - 1
  <2>1. y \in Nat
    BY <1>1, <1>3
  <2> HIDE DEF y
  <2>2. mod_if_overflow(a, y) = r
    BY <2>1, Reduced
  <2>3. r \in 0 .. p - 1
    <3> HIDE DEF p
    <3> QED BY <1>1, <2>1, Remainder
  <2>4. r % p = r /\ r \in Int
    BY <1>1, <2>3, SmallRemainder
  <2>5. MulInt(a, i) = from_signed(n, r)
    BY <1>1, <1>3, <2>2 DEF MulInt, CheckedInt, y
  <2> HIDE DEF r
  <2>6. MulInt(a, i) = [size |-> n, value |-> r] /\ MulInt(a, i) \in Vec
    BY <1>1, <2>4, <2>5, FromSigned
  <2> QED BY <2>6 DEF Modular, r, y
<1> QED BY <1>2, <1>3

LEMMA IntegerBits ==
  ASSUME NEW a \in Vec, NEW i \in Int
  PROVE  /\ Modular(a, "&int", i, AndInt(a, i))
         /\ Modular(a, "|int", i, OrInt(a, i))
         /\ Modular(a, "^int", i, XorInt(a, i))
<1> DEFINE n == a.size
           p == Pow2[n]
           x == a.value
           r == i % p
           q == i \div p
<1>1. n \in Nat /\ p \in Nat \ {0} /\ x \in Int
  BY Vector
<1>2. i = p * q + r /\ r \in 0 .. p - 1 /\ q \in Int
  <2> HIDE DEF p
  <2> QED BY <1>1, Remainder
<1>3. /\ bvAnd(a, Mod(n, i)) = AndInt(a, r)
      /\ bvOr(a, Mod(n, i)) = OrInt(a, r)
      /\ bvXor(a, Mod(n, i)) = XorInt(a, r)
  BY DEF Mod, bvAnd, bvOr, bvXor, AndInt, OrInt, XorInt, Equal
<1>4. AndInt(a, r) = AndInt(a, i)
  <2>1. \A k \in 0 .. n - 1 : Bit(r, k) = Bit(i, k)
    BY <1>1, BitOfRemainder
  <2>2. {k \in 0 .. n - 1 : Bit(x, k) = 1 /\ Bit(r, k) = 1}
          = {k \in 0 .. n - 1 : Bit(x, k) = 1 /\ Bit(i, k) = 1}
    BY <2>1
  <2> QED BY <2>2 DEF AndInt, And
<1>5. Modular(a, "&int", i, AndInt(a, i))
  BY <1>3, <1>4 DEF Modular, Mod
<1>6. CASE i \in 0 .. p - 1
  <2>1. r = i
    BY <1>1, <1>6, SmallRemainder
  <2>2. OrInt(a, i) = bvOr(a, Mod(n, i)) /\ XorInt(a, i) = bvXor(a, Mod(n, i))
    BY <1>3, <2>1
  <2> QED BY <1>5, <2>2 DEF Modular, Mod
<1>7. CASE i \notin 0 .. p - 1
  <2>1. q >= 1 \/ q <= -1
    <3> HIDE DEF p, q, r
    <3>1. q # 0
      BY <1>1, <1>2, <1>7
    <3> QED BY <1>2, <3>1
  <2>2. ASSUME NEW v \in 0 .. p - 1 PROVE BV(n, v + p * q) = ValueError
    <3>1. v + p * q \in Int /\ v + p * q \notin 0 .. p - 1
      <4> HIDE DEF p, q
      <4>1. p * q >= p \/ p * q <= -p
        BY <1>1, <1>2, <2>1
      <4> QED BY <1>1, <1>2, <4>1
    <3> QED BY <1>1, <3>1, Made
  <2>3. \A places : BV(n, FromBits(n, places) + p * q) = ValueError
    BY <1>1, <2>2, FromBitsBounds
  <2>4. OrInt(a, i) = ValueError /\ XorInt(a, i) = ValueError
    BY <2>3 DEF OrInt, XorInt, Or, Xor, ShiftRight
  <2> QED BY <1>5, <1>7, <2>4 DEF Modular
<1> QED BY <1>6, <1>7

LEMMA Signs ==
  /\ \A a \in Vec : /\ Modular(a, "to_signed_int", 0, to_signed_int(a))
                    /\ Proper(to_signed_int(a))
  /\ \A a \in Vec, n \in Nat, v \in Int :
       /\ Modular(a, "from_signed_int", [size |-> n, value |-> v], from_signed_int(n, v))
       /\ from_signed_int(n, v) \in Vec \cup {ValueError}
<1>1. ASSUME NEW a \in Vec
      PROVE  /\ Modular(a, "to_signed_int", 0, to_signed_int(a))
             /\ Proper(to_signed_int(a))
  <2>1. CASE a.size = 0
    BY <2>1, Answers DEF to_signed_int, Modular
  <2>2. CASE a.size # 0
    <3>1. to_signed_int(a) = [int |-> Signed(a)]
      BY <2>2 DEF to_signed_int
    <3>2. Signed(a) \in -(Pow2[a.size - 1]) .. Pow2[a.size - 1] - 1
      BY <2>2, SignedValue
    <3>3. Signed(a) % Pow2[a.size] = a.value
      <4>1. a.value \in 0 .. Pow2[a.size] - 1 /\ a.size \in Nat /\ Pow2[a.size] \in Nat \ {0}
        BY Vector
      <4>2. Signed(a) \in Int /\ (Signed(a) - 0) % Pow2[a.size] = (a.value - 0) % Pow2[a.size]
        BY <2>2, SignedRemainder
      <4>3. Signed(a) - 0 = Signed(a) /\ a.value - 0 = a.value
        BY <4>1, <4>2
      <4>4. a.value % Pow2[a.size] = a.value
        BY <4>1, SmallRemainder
      <4> QED BY <4>2, <4>3, <4>4
    <3>4. a = [size |-> a.size, value |-> a.value]
      BY Vector
    <3> DEFINE s == Signed(a)
    <3> HIDE DEF s
    <3>5. [size |-> a.size, value |-> s % Pow2[a.size]] = a
      BY <3>3, <3>4 DEF s
    <3>6. [int |-> s].int = s
      OBVIOUS
    <3>7. Modular(a, "to_signed_int", 0, [int |-> s])
      BY <2>2, <3>2, <3>5, <3>6 DEF Modular, s
    <3> QED BY <3>1, <3>7, Answers DEF s
  <2> QED BY <2>1, <2>2
<1>2. ASSUME NEW a \in Vec, NEW n \in Nat, NEW v \in Int
      PROVE  /\ Modular(a, "from_signed_int", [size |-> n, value |-> v], from_signed_int(n, v))
             /\ from_signed_int(n, v) \in Vec \cup {ValueError}
  <2> DEFINE h == Pow2[n - 1]
  <2>1. CASE n = 0
    BY <2>1 DEF from_signed_int, Modular
  <2>2. CASE n # 0
    <3>1. n - 1 \in Nat /\ n > 0
      BY <2>2
    <3>2. h \in Nat \ {0}
      BY <3>1, Powers
    <3>3. CASE v \in -h .. h - 1
      <4>1. from_signed_int(n, v) = from_signed(n, v)
        <5> HIDE DEF h
        <5>1. ~(v < -h \/ v > h - 1)
          BY <3>2, <3>3
        <5> QED BY <2>2, <5>1 DEF from_signed_int, h
      <4>2. from_signed_int(n, v) = [size |-> n, value |-> v % Pow2[n]] /\ from_signed_int(n, v) \in Vec
        BY <4>1, FromSigned
      <4> QED BY <3>1, <3>3, <4>2 DEF Modular
    <3>4. CASE v \notin -h .. h - 1
      <4>1. from_signed_int(n, v) = ValueError
        <5> HIDE DEF h
        <5>1. v < -h \/ v > h - 1
          BY <3>2, <3>4
        <5> QED BY <5>1 DEF from_signed_int, h
      <4> QED BY <3>4, <4>1 DEF Modular
    <3> QED BY <3>3, <3>4
  <2> QED BY <2>1, <2>2
<1> QED BY <1>1, <1>2

-----------------------------------------------------------------------------
(* Bits of numbers *)

\* The n low bits of a number, most significant first.
Word(n, v) == [k \in 1 .. n |-> Bit(v, n - k)]

LEMMA BitsAreWord ==
  ASSUME NEW a
  PROVE  Bits(a) = Word(a.size, a.value)
BY DEF Bits, Word, Bit

LEMMA BitRange ==
  ASSUME NEW v \in Int, NEW k \in Nat
  PROVE  Bit(v, k) \in {0, 1}
<1> DEFINE q == v \div Pow2[k]
<1>1. q \in Int
  BY Powers, Remainder
<1> HIDE DEF q
<1>2. q % 2 \in {0, 1}
  BY <1>1
<1> QED BY <1>2 DEF Bit, q

\* A number that starts with v and ends with the n bits of w.
LEMMA BitOfJoin ==
  ASSUME NEW n \in Nat, NEW v \in Int, NEW w \in 0 .. Pow2[n] - 1, NEW k \in Nat
  PROVE  Bit(v * Pow2[n] + w, k) = IF k < n THEN Bit(w, k) ELSE Bit(v, k - n)
<1> DEFINE p == Pow2[n]
           x == v * p + w
<1>1. p \in Nat \ {0} /\ x \in Int /\ x = p * v + w
  BY Powers
<1>2. x % p = w /\ x \div p = v
  <2> HIDE DEF p, x
  <2>1. w \in 0 .. p - 1
    BY DEF p
  <2> QED BY <1>1, <2>1, RemainderUnique
<1> HIDE DEF x
<1>3. CASE k < n
  <2>1. k \in 0 .. n - 1
    BY <1>3
  <2> QED BY <1>1, <1>2, <1>3, <2>1, BitOfRemainder DEF x
<1>4. CASE ~(k < n)
  <2> DEFINE j == k - n
             m == Pow2[j]
             q == x \div Pow2[k]
             r == x % Pow2[k]
  <2>1. j \in Nat /\ n + j = k
    BY <1>4
  <2>2. Pow2[k] = p * m /\ m \in Nat \ {0}
    BY <2>1, PowerOfSum, Powers
  <2> HIDE DEF j
  <2> DEFINE s == v \div m
             t == v % m
  <2>3. v = m * s + t /\ t \in 0 .. m - 1 /\ s \in Int
    <3> HIDE DEF m
    <3> QED BY <2>2, Remainder
  <2> DEFINE b == Pow2[k]
             rest == p * t + w
  <2>4. b \in Nat \ {0} /\ b = p * m
    BY <2>2, Powers
  <2> HIDE DEF b, m, s, t, p
  <2>5. x = b * s + rest
    BY <1>1, <2>2, <2>3, <2>4 DEF p, x
  <2>6. rest \in 0 .. b - 1
    <3>1. w \in 0 .. p - 1
      BY DEF p
    <3>2. p * t >= 0 /\ p * t <= p * (m - 1)
      BY <1>1, <2>2, <2>3
    <3>3. p * (m - 1) = p * m - p
      BY <1>1, <2>2
    <3>4. p * t \in Int
      BY <1>1, <2>3
    <3> QED BY <1>1, <2>4, <3>1, <3>2, <3>3, <3>4
  <2> HIDE DEF rest
  <2>7. x \div b = s
    <3> HIDE DEF x
    <3>1. b \in Nat \ {0} /\ x \in Int /\ s \in Int /\ rest \in 0 .. b - 1 /\ x = b * s + rest
      BY <1>1, <2>3, <2>4, <2>5, <2>6
    <3> QED BY <3>1, RemainderUnique
  <2> QED BY <1>4, <2>7 DEF Bit, b, s, m, j, x, p
<1> QED BY <1>3, <1>4

\* Bits above those of a number are 0.
LEMMA BitAbove ==
  ASSUME NEW n \in Nat, NEW v \in 0 .. Pow2[n] - 1, NEW k \in Nat, k >= n
  PROVE  Bit(v, k) = 0
<1>1. Pow2[k] \in Nat \ {0} /\ Pow2[n] <= Pow2[k]
  <2>1. k - n \in Nat /\ n + (k - n) = k
    OBVIOUS
  <2>2. Pow2[k] = Pow2[n] * Pow2[k - n] /\ Pow2[n] \in Nat \ {0} /\ Pow2[k - n] \in Nat \ {0}
    BY <2>1, PowerOfSum, Powers
  <2> QED BY <2>2
<1>2. v \in 0 .. Pow2[k] - 1
  <2>1. Pow2[n] \in Nat
    BY Powers
  <2> QED BY <1>1, <2>1
<1>3. v \div Pow2[k] = 0
  BY <1>1, <1>2, SmallRemainder
<1> QED BY <1>3 DEF Bit

LEMMA BitOfZero ==
  ASSUME NEW k \in Nat
  PROVE  Bit(0, k) = 0
<1>1. 0 \in 0 .. Pow2[0] - 1
  BY Powers
<1> QED BY <1>1, BitAbove

LEMMA BitOfQuotient ==
  ASSUME NEW n \in Nat, NEW v \in Int, NEW k \in Nat
  PROVE  Bit(v \div Pow2[n], k) = Bit(v, k + n)
<1> DEFINE p == Pow2[n]
           q == v \div p
           r == v % p
<1>1. p \in Nat \ {0}
  BY Powers
<1>2. v = p * q + r /\ r \in 0 .. p - 1 /\ q \in Int
  <2> HIDE DEF p
  <2> QED BY <1>1, Remainder
<1> HIDE DEF q, r
<1>3. v = q * p + r
  BY <1>1, <1>2
<1>4. k + n \in Nat /\ ~(k + n < n) /\ (k + n) - n = k
  OBVIOUS
<1>5. Bit(q * p + r, k + n) = Bit(q, k)
  <2> DEFINE j == k + n
  <2>1. j \in Nat /\ ~(j < n) /\ j - n = k
    BY <1>4
  <2> HIDE DEF j
  <2>2. Bit(q * p + r, j) = Bit(q, j - n)
    BY <1>2, <2>1, BitOfJoin
  <2> QED BY <2>1, <2>2 DEF j
<1> QED BY <1>3, <1>5 DEF q

\* A number of n bits is known by its bits.
LEMMA BitsDetermine ==
  ASSUME NEW n \in Nat
  PROVE  \A v, w \in 0 .. Pow2[n] - 1 : (\A k \in 0 .. n - 1 : Bit(v, k) = Bit(w, k)) => v = w
<1> DEFINE Same(m) == \A v, w \in 0 .. Pow2[m] - 1 :
                        (\A k \in 0 .. m - 1 : Bit(v, k) = Bit(w, k)) => v = w
           Good == {m \in Nat : Same(m)}
<1>1. 0 \in Good
  <2>1. Pow2[0] - 1 = 0
    BY Powers
  <2> QED BY <2>1
<1>2. ASSUME NEW m \in Nat, m \in Good PROVE m + 1 \in Good
  <2> DEFINE p == Pow2[m]
  <2>1. p \in Nat \ {0} /\ Pow2[m + 1] = 2 * p
    BY Powers
  <2>2. ASSUME NEW v \in 0 .. Pow2[m + 1] - 1
        PROVE  v = p * Bit(v, m) + (v % p) /\ v % p \in 0 .. p - 1
    <3> DEFINE q == v \div p
               r == v % p
    <3>1. v = p * q + r /\ r \in 0 .. p - 1 /\ q \in Int /\ v \in 0 .. 2 * p - 1
      <4>1. v \in 0 .. 2 * p - 1 /\ v \in Int
        BY <2>1
      <4> HIDE DEF p
      <4> QED BY <2>1, <4>1, Remainder
    <3> HIDE DEF p, q, r
    <3>2. q < 2 /\ q > -1
      BY <2>1, <3>1
    <3>3. q \in {0, 1}
      BY <3>1, <3>2
    <3>4. Bit(v, m) = q
      BY <3>3 DEF Bit, q, p
    <3> QED BY <3>1, <3>4 DEF q, r
  <2>3. ASSUME NEW v \in 0 .. Pow2[m + 1] - 1, NEW w \in 0 .. Pow2[m + 1] - 1,
               \A k \in 0 .. (m + 1) - 1 : Bit(v, k) = Bit(w, k)
        PROVE  v = w
    <3>1. /\ v = p * Bit(v, m) + (v % p) /\ v % p \in 0 .. p - 1
          /\ w = p * Bit(w, m) + (w % p) /\ w % p \in 0 .. p - 1
      BY <2>2
    <3>2. Bit(v, m) = Bit(w, m) /\ \A k \in 0 .. m - 1 : Bit(v, k) = Bit(w, k)
      BY <2>3
    <3>3. v \in Int /\ w \in Int
      BY <2>1
    <3>4. \A k \in 0 .. m - 1 : Bit(v % p, k) = Bit(w % p, k)
      BY <3>2, <3>3, BitOfRemainder
    <3>5. v % p = w % p
      <4> DEFINE x == v % p
                 y == w % p
      <4>1. x \in 0 .. p - 1 /\ y \in 0 .. p - 1 /\ \A k \in 0 .. m - 1 : Bit(x, k) = Bit(y, k)
        BY <3>1, <3>4
      <4> HIDE DEF x, y
      <4>2. x = y
        BY <1>2, <4>1
      <4> QED BY <4>2 DEF x, y
    <3> QED BY <3>1, <3>2, <3>5
  <2> QED BY <2>3
<1>3. Good = Nat
  <2>1. Good \in SUBSET Nat
    OBVIOUS
  <2> HIDE DEF Good
  <2> QED BY <1>1, <1>2, <2>1, SetInduction
<1> QED BY <1>3

LEMMA BitOfFromBits ==
  ASSUME NEW n \in Nat, NEW places, NEW i \in 0 .. n - 1
  PROVE  Bit(FromBits(n, places), i) = IF i \in places THEN 1 ELSE 0
<1> DEFINE term == [k \in 1 .. n |-> IF k - 1 \in places THEN Pow2[k - 1] ELSE 0]
           One(j) == IF j \in places THEN 1 ELSE 0
<1>1. term \in [1 .. n -> Int]
  BY Powers
<1>2. FromBits(n, places) = Total(n, term)
  BY DEF FromBits
<1> HIDE DEF term
<1>3. PICK f \in [0 .. n -> Int] : /\ f[0] = 0 /\ Total(n, term) = f[n]
                                  /\ \A k \in 1 .. n : f[k] = f[k - 1] + term[k]
  BY <1>1, Totals
<1> DEFINE Fine(k) == f[k] \in 0 .. Pow2[k] - 1 /\ \A j \in 0 .. k - 1 : Bit(f[k], j) = One(j)
           Good == {k \in Nat : k <= n => Fine(k)}
<1>4. 0 \in Good
  <2>1. f[0] = 0 /\ Pow2[0] = 1
    BY <1>3, Powers
  <2> QED BY <2>1
<1>7. \A j : One(j) \in {0, 1}
  OBVIOUS
<1>5. ASSUME NEW k \in Nat, k \in Good PROVE k + 1 \in Good
  <2> SUFFICES ASSUME k + 1 <= n PROVE Fine(k + 1)
    OBVIOUS
  <2>1. k + 1 \in 1 .. n /\ (k + 1) - 1 = k
    OBVIOUS
  <2>2. f[k + 1] = f[k] + One(k) * Pow2[k]
    <3>1. f[k + 1] = f[k] + term[k + 1]
      BY <1>3, <2>1
    <3>2. term[k + 1] = IF k \in places THEN Pow2[k] ELSE 0
      BY <2>1 DEF term
    <3>3. Pow2[k] \in Nat
      BY Powers
    <3>4. term[k + 1] = One(k) * Pow2[k]
      BY <3>2, <3>3
    <3> QED BY <3>1, <3>4
  <2> DEFINE v == One(k)
             w == f[k]
             p == Pow2[k]
  <2> HIDE DEF One
  <2>3. /\ v \in {0, 1} /\ p \in Nat \ {0} /\ Pow2[k + 1] = 2 * p
        /\ w \in 0 .. p - 1 /\ \A j \in 0 .. k - 1 : Bit(w, j) = One(j)
    <3>1. p \in Nat \ {0} /\ Pow2[k + 1] = 2 * p
      BY Powers
    <3>2. Fine(k)
      BY <1>5
    <3> QED BY <1>7, <3>1, <3>2
  <2> HIDE DEF v, w, p
  <2>4. f[k + 1] = v * p + w /\ v * p \in {0, p}
    <3>1. f[k + 1] = w + v * p
      BY <2>2 DEF v, w, p
    <3>2. v * p \in {0, p}
      BY <2>3
    <3> QED BY <2>3, <3>1, <3>2
  <2>5. f[k + 1] \in 0 .. Pow2[k + 1] - 1
    BY <2>3, <2>4
  <2>6. ASSUME NEW j \in 0 .. k PROVE Bit(f[k + 1], j) = One(j)
    <3>1. w \in 0 .. Pow2[k] - 1 /\ v \in Int /\ j \in Nat
      BY <2>3 DEF p
    <3>2. Bit(v * Pow2[k] + w, j) = IF j < k THEN Bit(w, j) ELSE Bit(v, j - k)
      BY <3>1, BitOfJoin
    <3>3. f[k + 1] = v * Pow2[k] + w
      BY <2>4 DEF p
    <3>4. CASE j < k
      <4>1. j \in 0 .. k - 1
        BY <3>4
      <4> QED BY <2>3, <3>2, <3>3, <3>4, <4>1
    <3>5. CASE j = k
      <4>1. Bit(v, 0) = v
        <5>1. v \div 1 = v /\ v % 2 = v
          BY <2>3
        <5>2. Bit(v, 0) = (v \div Pow2[0]) % 2 /\ Pow2[0] = 1
          BY Powers DEF Bit
        <5> QED BY <5>1, <5>2
      <4>2. j - k = 0 /\ ~(j < k)
        BY <3>5
      <4> QED BY <3>2, <3>3, <3>5, <4>1, <4>2 DEF v
    <3> QED BY <3>4, <3>5
  <2> QED BY <2>1, <2>5, <2>6
<1>6. Good = Nat
  <2>1. Good \in SUBSET Nat
    OBVIOUS
  <2> HIDE DEF Good
  <2> QED BY <1>4, <1>5, <2>1, SetInduction
<1>8. \A j \in 0 .. n - 1 : Bit(f[n], j) = One(j)
  <2>1. n \in Good
    BY <1>6
  <2> QED BY <2>1
<1> QED BY <1>2, <1>3, <1>8

\* The complement of a number of n bits.
LEMMA BitOfComplement ==
  ASSUME NEW n \in Nat, NEW v \in 0 .. Pow2[n] - 1, NEW k \in 0 .. n - 1
  PROVE  Bit(Pow2[n] - 1 - v, k) = 1 - Bit(v, k)
<1> DEFINE p == Pow2[k]
           q == v \div p
           r == v % p
           h == Pow2[n - k - 1]
           w == Pow2[n] - 1 - v
<1>1. p \in Nat \ {0} /\ h \in Nat /\ Pow2[n] \in Nat /\ Pow2[n] = 2 * p * h
  <2>1. n - k - 1 \in Nat /\ (k + 1) + (n - k - 1) = n
    OBVIOUS
  <2>2. Pow2[k + 1] = 2 * p /\ Pow2[(k + 1) + (n - k - 1)] = Pow2[k + 1] * h
    <3> DEFINE m == k + 1
               l == n - k - 1
    <3>1. m \in Nat /\ l \in Nat
      BY <2>1
    <3> HIDE DEF m, l
    <3>2. Pow2[m + l] = Pow2[m] * Pow2[l]
      BY <3>1, PowerOfSum
    <3> QED BY <3>2, Powers DEF m, l
  <2> HIDE DEF h
  <2>3. Pow2[n] = Pow2[k + 1] * h
    BY <2>1, <2>2
  <2>4. p \in Nat \ {0} /\ Pow2[n] \in Nat
    BY Powers
  <2>5. h \in Nat
    BY <2>1, Powers DEF h
  <2> QED BY <2>2, <2>3, <2>4, <2>5
<1>2. v = p * q + r /\ r \in 0 .. p - 1 /\ q \in Int
  <2> HIDE DEF p
  <2>1. v \in Int
    BY <1>1
  <2> QED BY <1>1, <2>1, Remainder
<1>3. w = 2 * p * h - 1 - v /\ w \in Int
  BY <1>1
<1> HIDE DEF p, q, r, h, w
<1> DEFINE c == 2 * h - 1 - q
           d == p - 1 - r
<1>4. w = p * c + d /\ c \in Int /\ d \in 0 .. p - 1
  BY <1>1, <1>2, <1>3
<1> HIDE DEF d
<1>5. w \div p = c
  <2> HIDE DEF c
  <2> QED BY <1>1, <1>3, <1>4, RemainderUnique
<1>6. c % 2 = 1 - (q % 2)
  BY <1>1, <1>2
<1> QED BY <1>5, <1>6 DEF Bit, p, q, w

LEMMA BitOfPower ==
  ASSUME NEW i \in Nat, NEW k \in Nat
  PROVE  Bit(Pow2[i], k) = IF k = i THEN 1 ELSE 0
<1>1. 0 \in 0 .. Pow2[i] - 1 /\ 1 * Pow2[i] + 0 = Pow2[i]
  BY Powers
<1>2. Bit(Pow2[i], k) = IF k < i THEN Bit(0, k) ELSE Bit(1, k - i)
  <2> DEFINE one == 1
             none == 0
  <2>1. one \in Int /\ none \in 0 .. Pow2[i] - 1 /\ one * Pow2[i] + none = Pow2[i]
    BY <1>1
  <2> HIDE DEF one, none
  <2>2. Bit(one * Pow2[i] + none, k) = IF k < i THEN Bit(none, k) ELSE Bit(one, k - i)
    BY <2>1, BitOfJoin
  <2> QED BY <2>1, <2>2 DEF one, none
<1>3. Bit(1, 0) = 1
  BY Powers DEF Bit
<1>4. ASSUME NEW j \in Nat, j >= 1 PROVE Bit(1, j) = 0
  <2>1. 1 \in 0 .. Pow2[1] - 1
    <3>1. Pow2[0 + 1] = 2 * Pow2[0] /\ 0 + 1 = 1
      BY Powers
    <3> QED BY <3>1, Powers
  <2> QED BY <1>4, <2>1, BitAbove
<1>5. CASE k < i
  BY <1>2, <1>5, BitOfZero
<1>6. CASE k = i
  BY <1>2, <1>3, <1>6
<1>7. CASE k > i
  <2>1. k - i \in Nat /\ k - i >= 1
    BY <1>7
  <2> QED BY <1>2, <1>4, <1>7, <2>1
<1> QED BY <1>5, <1>6, <1>7

-----------------------------------------------------------------------------
(* Numbers as sequences of bits *)

LEMMA WordSeq ==
  ASSUME NEW n \in Nat, NEW v \in Int
  PROVE  /\ Word(n, v) \in Seq(Int) /\ Len(Word(n, v)) = n
         /\ DOMAIN Word(n, v) = 1 .. n
         /\ \A k \in 1 .. n : Word(n, v)[k] = Bit(v, n - k) /\ Word(n, v)[k] \in {0, 1}
<1>1. \A k \in 1 .. n : Bit(v, n - k) \in {0, 1}
  BY BitRange
<1>2. Word(n, v) \in [1 .. n -> Int]
  BY <1>1 DEF Word
<1>3. Word(n, v) \in Seq(Int)
  BY <1>2, SeqDef
<1>4. Len(Word(n, v)) = n
  BY <1>2, <1>3, LenProperties
<1> QED BY <1>1, <1>2, <1>3, <1>4 DEF Word

LEMMA SameBits ==
  ASSUME NEW n \in Nat, NEW v \in Int, NEW w \in Int, \A k \in 0 .. n - 1 : Bit(v, k) = Bit(w, k)
  PROVE  Word(n, v) = Word(n, w)
<1>1. \A k \in 1 .. n : n - k \in 0 .. n - 1
  OBVIOUS
<1> QED BY <1>1 DEF Word

LEMMA ZerosAreWord ==
  ASSUME NEW n \in Nat
  PROVE  Zeros(n) = Word(n, 0)
<1>1. \A k \in 1 .. n : Bit(0, n - k) = 0
  BY BitOfZero
<1> QED BY <1>1 DEF Zeros, Word

\* s \o t, by a name that the provers can match.
Cat(s, t) == s \o t

LEMMA WordsJoined ==
  ASSUME NEW m \in Nat, NEW v \in Int, NEW n \in Nat, NEW w \in 0 .. Pow2[n] - 1,
         NEW l \in Nat, l = m + n, NEW x \in Int, x = v * Pow2[n] + w
  PROVE  Cat(Word(m, v), Word(n, w)) = Word(l, x)
<1> DEFINE s == Word(m, v)
           t == Word(n, w)
           u == Word(m + n, x)
<1>1. w \in Int /\ x \in Int /\ m + n \in Nat
  BY Powers
<1>2. \A k \in Nat : Bit(x, k) = IF k < n THEN Bit(w, k) ELSE Bit(v, k - n)
  BY BitOfJoin
<1>3. /\ s \in Seq(Int) /\ Len(s) = m /\ \A k \in 1 .. m : s[k] = Bit(v, m - k)
      /\ t \in Seq(Int) /\ Len(t) = n /\ \A k \in 1 .. n : t[k] = Bit(w, n - k)
      /\ u \in Seq(Int) /\ Len(u) = m + n /\ \A k \in 1 .. m + n : u[k] = Bit(x, (m + n) - k)
  <2>1. s \in Seq(Int) /\ Len(s) = m /\ \A k \in 1 .. m : s[k] = Bit(v, m - k)
    BY WordSeq
  <2>2. t \in Seq(Int) /\ Len(t) = n /\ \A k \in 1 .. n : t[k] = Bit(w, n - k)
    BY <1>1, WordSeq
  <2> DEFINE j == m + n
  <2>3. j \in Nat
    OBVIOUS
  <2> HIDE DEF j
  <2>4. Word(j, x) \in Seq(Int) /\ Len(Word(j, x)) = j /\ \A k \in 1 .. j : Word(j, x)[k] = Bit(x, j - k)
    BY <2>3, WordSeq
  <2> QED BY <2>1, <2>2, <2>4 DEF j
<1> HIDE DEF s, t, u
<1>4. /\ s \o t \in Seq(Int) /\ Len(s \o t) = m + n
      /\ \A k \in 1 .. m + n : (s \o t)[k] = IF k <= m THEN s[k] ELSE t[k - m]
  <2>1. s \in Seq(Int) /\ t \in Seq(Int) /\ Len(s) = m /\ Len(t) = n
    BY <1>3
  <2>2. /\ s \o t \in Seq(Int) /\ Len(s \o t) = Len(s) + Len(t)
        /\ \A k \in 1 .. Len(s) + Len(t) : (s \o t)[k] = IF k <= Len(s) THEN s[k] ELSE t[k - Len(s)]
    BY <2>1, ConcatProperties
  <2> QED BY <2>1, <2>2
<1>5. ASSUME NEW k \in 1 .. m + n PROVE (s \o t)[k] = u[k]
  <2>1. (m + n) - k \in Nat
    OBVIOUS
  <2>2. CASE k <= m
    <3>1. k \in 1 .. m /\ ~((m + n) - k < n) /\ ((m + n) - k) - n = m - k
      BY <2>2
    <3> QED BY <1>2, <1>3, <1>4, <2>1, <2>2, <3>1
  <2>3. CASE ~(k <= m)
    <3>1. k - m \in 1 .. n /\ (m + n) - k < n /\ n - (k - m) = (m + n) - k
      BY <2>3
    <3>2. (s \o t)[k] = Bit(w, n - (k - m))
      BY <1>3, <1>4, <2>3, <3>1
    <3>3. u[k] = Bit(w, (m + n) - k)
      BY <1>2, <1>3, <2>1, <3>1
    <3> QED BY <3>1, <3>2, <3>3
  <2> QED BY <2>2, <2>3
<1>6. s \o t = u
  BY <1>3, <1>4, <1>5, SeqEqual
<1>7. Cat(s, t) = u
  BY <1>6 DEF Cat
<1> QED BY <1>7 DEF s, t, u

LEMMA PartOfWord ==
  ASSUME NEW n \in Nat, NEW v \in Int, NEW low \in 0 .. n, NEW high \in low .. n
  PROVE  SubSeq(Word(n, v), n - high + 1, n - low) = Word(high - low, v \div Pow2[low])
<1> DEFINE m == high - low
           x == v \div Pow2[low]
           s == Word(n, v)
           t == Word(m, x)
           a == n - high + 1
           b == n - low
           u == SubSeq(s, a, b)
<1>1. x \in Int /\ m \in Nat /\ low \in Nat /\ a \in Int /\ b \in Int /\ b - a + 1 = m
  <2>1. m \in Nat /\ low \in Nat /\ a \in Int /\ b \in Int /\ b - a + 1 = m
    OBVIOUS
  <2>2. x \in Int
    BY <2>1, Powers, Remainder
  <2> QED BY <2>1, <2>2
<1>2. \A k \in Nat : Bit(x, k) = Bit(v, k + low)
  BY <1>1, BitOfQuotient
<1> HIDE DEF x
<1>3. /\ s \in Seq(Int) /\ Len(s) = n /\ \A k \in 1 .. n : s[k] = Bit(v, n - k) /\ s[k] \in {0, 1}
      /\ t \in Seq(Int) /\ Len(t) = m /\ \A k \in 1 .. m : t[k] = Bit(x, m - k)
  BY <1>1, WordSeq
<1> HIDE DEF s, t
<1>4. \A i \in a .. b : s[i] \in Int
  <2>1. \A i \in a .. b : i \in 1 .. n
    OBVIOUS
  <2> QED BY <1>3, <2>1
<1>5. u \in Seq(Int) /\ Len(u) = m /\ \A k \in 1 .. m : u[k] = s[a + k - 1]
  <2> HIDE DEF a, b
  <2>1. /\ u \in Seq(Int) /\ Len(u) = (IF a <= b THEN b - a + 1 ELSE 0)
        /\ \A k \in 1 .. b - a + 1 : u[k] = s[a + k - 1]
    BY <1>1, <1>4, SubSeqProperties
  <2>2. a <= b \/ m = 0
    BY <1>1
  <2> QED BY <1>1, <2>1, <2>2
<1> HIDE DEF u
<1>6. ASSUME NEW k \in 1 .. m PROVE u[k] = t[k]
  <2>1. a + k - 1 \in 1 .. n /\ n - (a + k - 1) = (m - k) + low /\ m - k \in Nat
    OBVIOUS
  <2> HIDE DEF a, m
  <2> QED BY <1>2, <1>3, <1>5, <2>1
<1>7. u = t
  BY <1>3, <1>5, <1>6, SeqEqual
<1> QED BY <1>7 DEF u, t, s, m, x, a, b

-----------------------------------------------------------------------------
(* The methods, on bits *)

LEMMA VecBits ==
  ASSUME NEW a \in Vec
  PROVE  /\ a.size \in Nat /\ a.value \in Int /\ a.value \in 0 .. Pow2[a.size] - 1
         /\ Bits(a) = Word(a.size, a.value) /\ BitsOf(a) = Word(a.size, a.value)
         /\ Bits(a) \in Seq(Int) /\ Len(Bits(a)) = a.size
         /\ \A k \in 1 .. a.size : Bits(a)[k] = Bit(a.value, a.size - k) /\ Bits(a)[k] \in {0, 1}
<1>1. /\ a.size \in Nat /\ a.value \in Int /\ a.value \in 0 .. Pow2[a.size] - 1
      /\ DOMAIN a = {"size", "value"}
  BY Vector
<1>2. Bits(a) = Word(a.size, a.value)
  BY BitsAreWord
<1>3. BitsOf(a) = Bits(a)
  BY <1>1 DEF BitsOf
<1> DEFINE w == Word(a.size, a.value)
<1>4. w \in Seq(Int) /\ Len(w) = a.size /\ \A k \in 1 .. a.size : w[k] = Bit(a.value, a.size - k) /\ w[k] \in {0, 1}
  BY <1>1, WordSeq
<1> QED BY <1>1, <1>2, <1>3, <1>4

LEMMA ZeroAgrees ==
  ASSUME NEW a \in Vec
  PROVE  Agree(a, "zero", 0, zero(a))
<1>1. a.size \in Nat /\ Pow2[a.size] \in Nat \ {0}
  BY Vector
<1>2. zero(a) \in Vec /\ zero(a) = [size |-> a.size, value |-> 0]
  BY <1>1, Made DEF zero
<1>3. BitsOf(zero(a)) = Zeros(a.size)
  BY <1>1, <1>2, VecBits, ZerosAreWord
<1> QED BY <1>3 DEF Agree

LEMMA InvertAgrees ==
  ASSUME NEW a \in Vec
  PROVE  Agree(a, "invert", 0, invert(a))
<1> DEFINE n == a.size
           w == Pow2[n] - 1 - a.value
<1>1. /\ n \in Nat /\ a.value \in 0 .. Pow2[n] - 1
      /\ \A k \in 1 .. n : Bits(a)[k] = Bit(a.value, n - k)
  BY VecBits
<1>2. invert(a) \in Vec /\ invert(a) = [size |-> n, value |-> w]
  BY Inverted
<1>3. BitsOf(invert(a)) = Word(n, w)
  BY <1>2, VecBits
<1>4. ASSUME NEW k \in 1 .. n PROVE Bit(w, n - k) = 1 - Bits(a)[k]
  <2>1. n - k \in 0 .. n - 1
    BY <1>1
  <2> QED BY <1>1, <2>1, BitOfComplement
<1>5. Word(n, w) = [k \in 1 .. n |-> 1 - Bits(a)[k]]
  BY <1>4 DEF Word
<1> QED BY <1>3, <1>5 DEF Agree

LEMMA EndsAgree ==
  ASSUME NEW a \in Vec
  PROVE  Agree(a, "msb", 0, msb(a)) /\ Agree(a, "lsb", 0, lsb(a))
<1>1. /\ a.size \in Nat
      /\ \A k \in 1 .. a.size : Bits(a)[k] = Bit(a.value, a.size - k)
  BY VecBits
<1>2. CASE a.size = 0
  BY <1>2 DEF Agree, msb, lsb
<1>3. CASE a.size # 0
  <2>1. /\ msb(a) = [bool |-> Bit(a.value, a.size - 1) = 1]
        /\ lsb(a) = [bool |-> Bit(a.value, 0) = 1]
    BY <1>1, <1>3 DEF msb, lsb, getitem
  <2>2. Bits(a)[1] = Bit(a.value, a.size - 1) /\ Bits(a)[a.size] = Bit(a.value, 0)
    BY <1>1, <1>3
  <2>3. msb(a).bool = (Bits(a)[1] = 1) /\ lsb(a).bool = (Bits(a)[a.size] = 1)
    BY <2>1, <2>2
  <2> QED BY <1>3, <2>3 DEF Agree
<1> QED BY <1>2, <1>3

LEMMA GetItemAgrees ==
  ASSUME NEW a \in Vec, NEW i \in Int
  PROVE  Agree(a, "getitem", i, getitem(a, i))
<1>1. /\ a.size \in Nat
      /\ \A k \in 1 .. a.size : Bits(a)[k] = Bit(a.value, a.size - k)
  BY VecBits
<1>2. CASE i \in 0 .. a.size - 1
  <2>1. getitem(a, i) = [bool |-> Bit(a.value, i) = 1]
    BY <1>1, <1>2 DEF getitem
  <2>2. a.size - i \in 1 .. a.size /\ a.size - (a.size - i) = i
    BY <1>1, <1>2
  <2>3. getitem(a, i).bool = (Bits(a)[a.size - i] = 1)
    BY <1>1, <2>1, <2>2
  <2> QED BY <1>2, <2>3 DEF Agree
<1>3. CASE i \notin 0 .. a.size - 1
  <2>1. getitem(a, i) = ValueError
    BY <1>1, <1>3 DEF getitem
  <2> QED BY <1>3, <2>1 DEF Agree
<1> QED BY <1>2, <1>3

LEMMA WidenAgrees ==
  ASSUME NEW a \in Vec, NEW n \in Int
  PROVE  Agree(a, "widen", n, widen(a, n))
<1>1. CASE n < 0
  <2>1. widen(a, n) = ValueError
    BY <1>1 DEF widen
  <2> QED BY <1>1, <2>1 DEF Agree
<1>2. CASE n >= 0
  <2>1. n \in Nat /\ a.size \in Nat /\ a.value \in 0 .. Pow2[a.size] - 1 /\ Pow2[a.size] \in Nat
    BY <1>2, Vector, Powers
  <2>2. widen(a, n) \in Vec /\ widen(a, n) = [size |-> a.size + n, value |-> a.value]
    BY <2>1, Widened
  <2>3. Cat(Word(n, 0), Word(a.size, a.value)) = Word(a.size + n, a.value)
    <3> DEFINE l == a.size + n
               none == 0
               m == a.size
               v == a.value
    <3>1. /\ n \in Nat /\ m \in Nat /\ l = n + m /\ l \in Nat /\ none \in Int
          /\ v \in 0 .. Pow2[m] - 1 /\ v \in Int /\ v = none * Pow2[m] + v
      BY <2>1
    <3> HIDE DEF l, none, m, v
    <3>2. Cat(Word(n, none), Word(m, v)) = Word(l, v)
      BY <3>1, WordsJoined
    <3> QED BY <3>2 DEF l, none, m, v
  <2>4. Cat(Zeros(n), Bits(a)) = Word(a.size + n, a.value)
    BY <2>1, <2>3, VecBits, ZerosAreWord
  <2>5. BitsOf(widen(a, n)) = Word(a.size + n, a.value)
    BY <2>2, VecBits
  <2>6. BitsOf(widen(a, n)) = Zeros(n) \o Bits(a)
    BY <2>4, <2>5 DEF Cat
  <2> QED BY <1>2, <2>6 DEF Agree
<1> QED BY <1>1, <1>2

LEMMA LeftShiftAgrees ==
  ASSUME NEW a \in Vec, NEW n \in Int
  PROVE  Agree(a, "lshift", n, lshift(a, n))
<1>1. CASE n < 0
  <2>1. lshift(a, n) = ValueError
    BY <1>1 DEF lshift
  <2> QED BY <1>1, <2>1 DEF Agree
<1>2. CASE n >= 0
  <2>1. n \in Nat /\ a.size \in Nat /\ a.value \in Int /\ 0 \in 0 .. Pow2[n] - 1 /\ Pow2[n] \in Nat
    BY <1>2, Vector, Powers
  <2>2. lshift(a, n) \in Vec /\ lshift(a, n) = [size |-> a.size + n, value |-> a.value * Pow2[n]]
    BY <2>1, ShiftedLeft
  <2>3. Cat(Word(a.size, a.value), Word(n, 0)) = Word(a.size + n, a.value * Pow2[n])
    <3> DEFINE l == a.size + n
               x == a.value * Pow2[n]
               none == 0
               m == a.size
               v == a.value
    <3>1. /\ m \in Nat /\ v \in Int /\ n \in Nat /\ l = m + n /\ l \in Nat
          /\ x = v * Pow2[n] + none /\ x \in Int /\ none \in 0 .. Pow2[n] - 1
      BY <2>1
    <3> HIDE DEF l, x, none, m, v
    <3>2. Cat(Word(m, v), Word(n, none)) = Word(l, x)
      BY <3>1, WordsJoined
    <3> QED BY <3>2 DEF l, x, none, m, v
  <2>4. Cat(Bits(a), Zeros(n)) = Word(a.size + n, a.value * Pow2[n])
    BY <2>1, <2>3, VecBits, ZerosAreWord
  <2>5. BitsOf(lshift(a, n)) = Word(a.size + n, a.value * Pow2[n])
    BY <2>2, VecBits
  <2>6. BitsOf(lshift(a, n)) = Bits(a) \o Zeros(n)
    BY <2>4, <2>5 DEF Cat
  <2> QED BY <1>2, <2>6 DEF Agree
<1> QED BY <1>1, <1>2

LEMMA RightShiftAgrees ==
  ASSUME NEW a \in Vec, NEW n \in Int
  PROVE  Agree(a, "rshift", n, rshift(a, n))
<1>1. CASE n < 0
  <2>1. rshift(a, n) = ValueError
    BY <1>1 DEF rshift
  <2> QED BY <1>1, <2>1 DEF Agree
<1>2. CASE n >= 0
  <2> DEFINE m == IF a.size < n THEN 0 ELSE a.size - n
             x == a.value \div Pow2[n]
  <2>1. n \in Nat /\ a.size \in Nat /\ a.value \in Int
    BY <1>2, VecBits
  <2>2. rshift(a, n) \in Vec /\ rshift(a, n) = [size |-> m, value |-> x]
    BY <2>1, ShiftedRight
  <2>3. BitsOf(rshift(a, n)) = Word(m, x)
    BY <2>2, VecBits
  <2>4. SubSeq(Bits(a), 1, a.size - n) = Word(m, x)
    <3>1. CASE a.size < n
      <4>1. SubSeq(Bits(a), 1, a.size - n) = << >>
        BY <2>1, <3>1, SubSeqEmpty
      <4>2. Word(0, x) = << >>
        BY DEF Word
      <4> QED BY <3>1, <4>1, <4>2
    <3>2. CASE ~(a.size < n)
      <4>1. n \in 0 .. a.size /\ a.size \in n .. a.size /\ a.size - a.size + 1 = 1
        BY <2>1, <3>2
      <4> DEFINE size == a.size
      <4>2. size \in Nat /\ n \in 0 .. size /\ size \in n .. size /\ size - size + 1 = 1
        BY <2>1, <4>1
      <4> HIDE DEF size
      <4>3. SubSeq(Word(size, a.value), size - size + 1, size - n) = Word(size - n, a.value \div Pow2[n])
        BY <2>1, <4>2, PartOfWord
      <4> QED BY <3>2, <4>2, <4>3, VecBits DEF size
    <3> QED BY <3>1, <3>2
  <2>5. BitsOf(rshift(a, n)) = SubSeq(Bits(a), 1, a.size - n)
    BY <2>3, <2>4
  <2> QED BY <1>2, <2>5 DEF Agree
<1> QED BY <1>1, <1>2

LEMMA ConcatAgrees ==
  ASSUME NEW a \in Vec, NEW b \in Vec
  PROVE  /\ Agree(a, "concat", b, concat(a, b))
         /\ Bits(concat(a, b)) = Bits(a) \o Bits(b)
<1>1. /\ concat(a, b) = [size |-> a.size + b.size, value |-> a.value * Pow2[b.size] + b.value]
      /\ concat(a, b) \in Vec
  BY Concatenated
<1>2. Cat(Bits(a), Bits(b)) = Word(a.size + b.size, a.value * Pow2[b.size] + b.value)
  <2>1. /\ a.size \in Nat /\ a.value \in Int /\ b.size \in Nat /\ b.value \in 0 .. Pow2[b.size] - 1
        /\ Bits(a) = Word(a.size, a.value) /\ Bits(b) = Word(b.size, b.value)
    BY VecBits
  <2> DEFINE l == a.size + b.size
             x == a.value * Pow2[b.size] + b.value
  <2>2. l \in Nat /\ x \in Int /\ l = a.size + b.size /\ x = a.value * Pow2[b.size] + b.value
    BY <2>1, Powers
  <2> HIDE DEF l, x
  <2>3. Cat(Word(a.size, a.value), Word(b.size, b.value)) = Word(l, x)
    BY <2>1, <2>2, WordsJoined
  <2> QED BY <2>1, <2>3 DEF l, x
<1>4. BitsOf(concat(a, b)) = Cat(Bits(a), Bits(b)) /\ Bits(concat(a, b)) = Cat(Bits(a), Bits(b))
  BY <1>1, <1>2, VecBits
<1>3. BitsOf(concat(a, b)) = Bits(a) \o Bits(b) /\ Bits(concat(a, b)) = Bits(a) \o Bits(b)
  BY <1>4 DEF Cat
<1> QED BY <1>3 DEF Agree

LEMMA EqAgrees ==
  ASSUME NEW a \in Vec, NEW b \in Vec
  PROVE  Agree(a, "eq", b, eq(a, b))
<1>1. (a.size = b.size /\ a.value = b.value) = (Bits(a) = Bits(b))
  <2>1. ASSUME a.size = b.size, a.value = b.value PROVE Bits(a) = Bits(b)
    BY <2>1, VecBits
  <2>2. ASSUME Bits(a) = Bits(b) PROVE a.size = b.size /\ a.value = b.value
    <3>1. a.size = b.size
      BY <2>2, VecBits
    <3>2. ASSUME NEW k \in 0 .. a.size - 1 PROVE Bit(a.value, k) = Bit(b.value, k)
      <4>1. /\ \A j \in 1 .. a.size : Bits(a)[j] = Bit(a.value, a.size - j)
            /\ \A j \in 1 .. b.size : Bits(b)[j] = Bit(b.value, b.size - j)
            /\ a.size \in Nat
        BY VecBits
      <4>2. a.size - k \in 1 .. a.size /\ a.size - (a.size - k) = k
        BY <4>1
      <4> QED BY <2>2, <3>1, <4>1, <4>2
    <3>3. a.value = b.value
      BY <3>1, <3>2, VecBits, BitsDetermine
    <3> QED BY <3>1, <3>3
  <2> QED BY <2>1, <2>2
<1>2. eq(a, b).bool = (Bits(a) = Bits(b))
  BY <1>1 DEF eq
<1> QED BY <1>2 DEF Agree

LEMMA SliceAgrees ==
  ASSUME NEW a \in Vec, NEW high \in Int, NEW low \in Int
  PROVE  Agree(a, "getslice", [high |-> high, low |-> low], getslice(a, high, low))
<1>1. a.size \in Nat /\ a.value \in Int
  BY VecBits
<1>2. CASE 0 <= low /\ low <= high /\ high <= a.size
  <2> DEFINE m == high - low
             x == a.value \div Pow2[low]
  <2>1. /\ getslice(a, high, low) = [size |-> m, value |-> x % Pow2[m]]
        /\ getslice(a, high, low) \in Vec
    BY <1>2, Sliced
  <2>2. m \in Nat /\ low \in 0 .. a.size /\ high \in low .. a.size /\ low \in Nat
    BY <1>1, <1>2
  <2>3. x \in Int /\ x % Pow2[m] \in Int
    <3>1. x \in Int
      BY <1>1, <2>2, Powers, Remainder
    <3> DEFINE p == Pow2[m]
    <3>2. p \in Nat \ {0}
      BY <2>2, Powers
    <3> HIDE DEF x, p
    <3>3. x % p \in 0 .. p - 1
      BY <3>1, <3>2, Remainder
    <3>4. x % p \in Int
      BY <3>2, <3>3
    <3> QED BY <3>1, <3>4 DEF p
  <2>4. SubSeq(Bits(a), a.size - high + 1, a.size - low) = Word(m, x)
    <3> DEFINE n == a.size
    <3>3. n \in Nat /\ low \in 0 .. n /\ high \in low .. n
      BY <1>1, <2>2
    <3> HIDE DEF n
    <3>4. SubSeq(Word(n, a.value), n - high + 1, n - low) = Word(m, x)
      BY <1>1, <3>3, PartOfWord
    <3>1. SubSeq(Word(a.size, a.value), a.size - high + 1, a.size - low) = Word(m, x)
      BY <3>4 DEF n
    <3>2. Bits(a) = Word(a.size, a.value)
      BY VecBits
    <3> QED BY <3>1, <3>2
  <2>5. Word(m, x % Pow2[m]) = Word(m, x)
    <3> HIDE DEF x, m
    <3> QED BY <2>2, <2>3, BitOfRemainder, SameBits
  <2>6. BitsOf(getslice(a, high, low)) = SubSeq(Bits(a), a.size - high + 1, a.size - low)
    BY <2>1, <2>4, <2>5, VecBits
  <2> QED BY <1>2, <2>6 DEF Agree
<1>3. CASE ~(0 <= low /\ low <= high /\ high <= a.size)
  <2>1. getslice(a, high, low) = ValueError
    BY <1>1, <1>3 DEF getslice
  <2> QED BY <1>3, <2>1 DEF Agree
<1> QED BY <1>2, <1>3

LEMMA PopcountAgrees ==
  ASSUME NEW a \in Vec
  PROVE  Agree(a, "popcount", 0, popcount(a))
<1> DEFINE n == a.size
           S == {i \in 0 .. n - 1 : Bit(a.value, i) = 1}
           T == Ones(Bits(a))
           f == [i \in S |-> n - i]
<1>1. /\ n \in Nat /\ Bits(a) = Word(n, a.value) /\ a.value \in Int
      /\ \A k \in 1 .. n : Bits(a)[k] = Bit(a.value, n - k)
  BY VecBits
<1>2. T = {k \in 1 .. n : Bit(a.value, n - k) = 1}
  <2>1. DOMAIN Bits(a) = 1 .. n
    BY <1>1 DEF Word
  <2> QED BY <1>1, <2>1 DEF Ones
<1>3. IsFiniteSet(S)
  <2>1. IsFiniteSet(0 .. n - 1)
    BY <1>1, FS_Interval
  <2> QED BY <2>1, FS_Subset
<1>4. f \in Bijection(S, T)
  <2>1. \A i \in S : n - i \in T
    <3>1. \A i \in S : n - i \in 1 .. n /\ n - (n - i) = i
      BY <1>1
    <3> QED BY <1>2, <3>1
  <2>2. f \in [S -> T]
    BY <2>1
  <2>3. \A i, j \in S : f[i] = f[j] => i = j
    BY <1>1
  <2>4. ASSUME NEW k \in T PROVE \E i \in S : f[i] = k
    <3>1. n - k \in S /\ f[n - k] = k
      BY <1>1, <1>2
    <3> QED BY <3>1
  <2> HIDE DEF f, S, T
  <2>5. f \in Injection(S, T)
    BY <2>2, <2>3 DEF Injection, IsInjective
  <2>6. f \in Surjection(S, T)
    BY <2>2, <2>4 DEF Surjection
  <2> QED BY <2>5, <2>6 DEF Bijection
<1>5. Cardinality(T) = Cardinality(S)
  <2>1. ExistsBijection(S, T)
    BY <1>4 DEF ExistsBijection
  <2> HIDE DEF S, T
  <2> QED BY <1>3, <2>1, FS_Bijection
<1>6. popcount(a).int = Cardinality(Ones(Bits(a)))
  BY <1>5 DEF popcount
<1> QED BY <1>6 DEF Agree

LEMMA BitwiseOnBits ==
  ASSUME NEW n \in Nat, NEW v \in 0 .. Pow2[n] - 1, NEW w \in 0 .. Pow2[n] - 1
  PROVE  /\ And(n, v, w) \in 0 .. Pow2[n] - 1 /\ Or(n, v, w) \in 0 .. Pow2[n] - 1
         /\ Xor(n, v, w) \in 0 .. Pow2[n] - 1
         /\ \A k \in 0 .. n - 1 :
              /\ Bit(And(n, v, w), k) = IF Bit(v, k) = 1 /\ Bit(w, k) = 1 THEN 1 ELSE 0
              /\ Bit(Or(n, v, w), k) = IF Bit(v, k) = 1 \/ Bit(w, k) = 1 THEN 1 ELSE 0
              /\ Bit(Xor(n, v, w), k) = IF Bit(v, k) # Bit(w, k) THEN 1 ELSE 0
<1> DEFINE both == {i \in 0 .. n - 1 : Bit(v, i) = 1 /\ Bit(w, i) = 1}
           some == {i \in 0 .. n - 1 : Bit(v, i) = 1 \/ Bit(w, i) = 1}
           differ == {i \in 0 .. n - 1 : Bit(v, i) # Bit(w, i)}
<1>1. \A places : FromBits(n, places) \in 0 .. Pow2[n] - 1
  BY FromBitsBounds
<1>2. Pow2[n] * (w \div Pow2[n]) = 0
  <2>1. Pow2[n] \in Nat \ {0}
    BY Powers
  <2>2. w \div Pow2[n] = 0
    BY <2>1, SmallRemainder
  <2> QED BY <2>1, <2>2
<1>3. And(n, v, w) = FromBits(n, both)
  BY DEF And
<1>4. Or(n, v, w) = FromBits(n, some)
  <2>1. Or(n, v, w) = FromBits(n, some) + Pow2[n] * (w \div Pow2[n])
    BY DEF Or, ShiftRight
  <2>2. FromBits(n, some) \in Int
    BY <1>1, Powers
  <2> QED BY <1>2, <2>1, <2>2
<1>5. Xor(n, v, w) = FromBits(n, differ)
  <2>1. Xor(n, v, w) = FromBits(n, differ) + Pow2[n] * (w \div Pow2[n])
    BY DEF Xor, ShiftRight
  <2>2. FromBits(n, differ) \in Int
    BY <1>1, Powers
  <2> QED BY <1>2, <2>1, <2>2
<1>6. ASSUME NEW k \in 0 .. n - 1
      PROVE  /\ Bit(FromBits(n, both), k) = IF k \in both THEN 1 ELSE 0
             /\ Bit(FromBits(n, some), k) = IF k \in some THEN 1 ELSE 0
             /\ Bit(FromBits(n, differ), k) = IF k \in differ THEN 1 ELSE 0
  <2> HIDE DEF both, some, differ
  <2> QED BY BitOfFromBits
<1> QED BY <1>1, <1>3, <1>4, <1>5, <1>6

LEMMA BitwiseVectors ==
  ASSUME NEW a \in Vec, NEW b \in Vec, a.size = b.size
  PROVE  /\ bvAnd(a, b) = [size |-> a.size, value |-> And(a.size, a.value, b.value)]
         /\ bvOr(a, b) = [size |-> a.size, value |-> Or(a.size, a.value, b.value)]
         /\ bvXor(a, b) = [size |-> a.size, value |-> Xor(a.size, a.value, b.value)]
         /\ bvAnd(a, b) \in Vec /\ bvOr(a, b) \in Vec /\ bvXor(a, b) \in Vec
<1>1. /\ a.size \in Nat /\ Pow2[a.size] \in Nat
      /\ a.value \in 0 .. Pow2[a.size] - 1 /\ b.value \in 0 .. Pow2[a.size] - 1
  BY Vector
<1> DEFINE x == And(a.size, a.value, b.value)
           y == Or(a.size, a.value, b.value)
           z == Xor(a.size, a.value, b.value)
<1>2. x \in 0 .. Pow2[a.size] - 1 /\ y \in 0 .. Pow2[a.size] - 1 /\ z \in 0 .. Pow2[a.size] - 1
  BY <1>1, BitwiseOnBits
<1>3. bvAnd(a, b) = BV(a.size, x) /\ bvOr(a, b) = BV(a.size, y) /\ bvXor(a, b) = BV(a.size, z)
  BY DEF bvAnd, bvOr, bvXor, Equal
<1> HIDE DEF x, y, z
<1>4. x \in Int /\ y \in Int /\ z \in Int
  BY <1>1, <1>2
<1>5. /\ BV(a.size, x) = [size |-> a.size, value |-> x] /\ BV(a.size, x) \in Vec
      /\ BV(a.size, y) = [size |-> a.size, value |-> y] /\ BV(a.size, y) \in Vec
      /\ BV(a.size, z) = [size |-> a.size, value |-> z] /\ BV(a.size, z) \in Vec
  BY <1>1, <1>2, <1>4, Made
<1> QED BY <1>3, <1>5 DEF x, y, z

LEMMA BitwiseAgree ==
  ASSUME NEW a \in Vec, NEW b \in Vec
  PROVE  /\ Agree(a, "&", b, bvAnd(a, b))
         /\ Agree(a, "|", b, bvOr(a, b))
         /\ Agree(a, "^", b, bvXor(a, b))
<1> DEFINE n == a.size
<1>1. CASE a.size # b.size
  <2>1. bvAnd(a, b) = ValueError /\ bvOr(a, b) = ValueError /\ bvXor(a, b) = ValueError
    BY <1>1 DEF bvAnd, bvOr, bvXor, Equal
  <2>2. Agree(a, "&", b, bvAnd(a, b))
    BY <1>1, <2>1 DEF Agree
  <2>3. Agree(a, "|", b, bvOr(a, b))
    BY <1>1, <2>1 DEF Agree
  <2>4. Agree(a, "^", b, bvXor(a, b))
    BY <1>1, <2>1 DEF Agree
  <2> QED BY <2>2, <2>3, <2>4
<1>2. CASE a.size = b.size
  <2> DEFINE x == And(n, a.value, b.value)
             y == Or(n, a.value, b.value)
             z == Xor(n, a.value, b.value)
             s == Bits(a)
             t == Bits(b)
  <2>1. /\ n \in Nat /\ a.value \in 0 .. Pow2[n] - 1 /\ b.value \in 0 .. Pow2[n] - 1
        /\ \A k \in 1 .. n : s[k] = Bit(a.value, n - k) /\ s[k] \in {0, 1}
        /\ \A k \in 1 .. n : t[k] = Bit(b.value, n - k) /\ t[k] \in {0, 1}
    BY <1>2, VecBits
  <2>2. /\ BitsOf(bvAnd(a, b)) = Word(n, x) /\ BitsOf(bvOr(a, b)) = Word(n, y)
        /\ BitsOf(bvXor(a, b)) = Word(n, z)
    <3>1. /\ bvAnd(a, b) \in Vec /\ bvOr(a, b) \in Vec /\ bvXor(a, b) \in Vec
          /\ bvAnd(a, b).size = n /\ bvOr(a, b).size = n /\ bvXor(a, b).size = n
          /\ bvAnd(a, b).value = x /\ bvOr(a, b).value = y /\ bvXor(a, b).value = z
      <4>1. /\ bvAnd(a, b) = [size |-> n, value |-> x] /\ bvOr(a, b) = [size |-> n, value |-> y]
            /\ bvXor(a, b) = [size |-> n, value |-> z]
            /\ bvAnd(a, b) \in Vec /\ bvOr(a, b) \in Vec /\ bvXor(a, b) \in Vec
        BY <1>2, BitwiseVectors
      <4> HIDE DEF x, y, z
      <4> QED BY <4>1
    <3> HIDE DEF x, y, z
    <3> QED BY <3>1, VecBits
  <2>3. ASSUME NEW k \in 1 .. n
        PROVE  /\ Bit(x, n - k) = s[k] * t[k]
               /\ Bit(y, n - k) = IF s[k] + t[k] = 0 THEN 0 ELSE 1
               /\ Bit(z, n - k) = (s[k] + t[k]) % 2
    <3>1. n - k \in 0 .. n - 1
      BY <2>1
    <3>2. /\ Bit(x, n - k) = IF s[k] = 1 /\ t[k] = 1 THEN 1 ELSE 0
          /\ Bit(y, n - k) = IF s[k] = 1 \/ t[k] = 1 THEN 1 ELSE 0
          /\ Bit(z, n - k) = IF s[k] # t[k] THEN 1 ELSE 0
      <4> DEFINE v == a.value
                 w == b.value
                 j == n - k
      <4>1. v \in 0 .. Pow2[n] - 1 /\ w \in 0 .. Pow2[n] - 1 /\ j \in 0 .. n - 1 /\ n \in Nat
        BY <2>1, <3>1
      <4>2. s[k] = Bit(v, j) /\ t[k] = Bit(w, j)
        BY <2>1
      <4> HIDE DEF v, w, j, n, s, t
      <4>3. /\ Bit(And(n, v, w), j) = IF Bit(v, j) = 1 /\ Bit(w, j) = 1 THEN 1 ELSE 0
            /\ Bit(Or(n, v, w), j) = IF Bit(v, j) = 1 \/ Bit(w, j) = 1 THEN 1 ELSE 0
            /\ Bit(Xor(n, v, w), j) = IF Bit(v, j) # Bit(w, j) THEN 1 ELSE 0
        BY <4>1, BitwiseOnBits
      <4> QED BY <4>2, <4>3 DEF v, w, j
    <3>3. s[k] \in {0, 1} /\ t[k] \in {0, 1}
      BY <2>1
    <3> QED BY <3>2, <3>3
  <2>4. /\ BitsOf(bvAnd(a, b)) = [k \in 1 .. n |-> s[k] * t[k]]
        /\ BitsOf(bvOr(a, b)) = [k \in 1 .. n |-> IF s[k] + t[k] = 0 THEN 0 ELSE 1]
        /\ BitsOf(bvXor(a, b)) = [k \in 1 .. n |-> (s[k] + t[k]) % 2]
    BY <2>2, <2>3 DEF Word
  <2>5. Agree(a, "&", b, bvAnd(a, b))
    BY <1>2, <2>4 DEF Agree
  <2>6. Agree(a, "|", b, bvOr(a, b))
    BY <1>2, <2>4 DEF Agree
  <2>7. Agree(a, "^", b, bvXor(a, b))
    BY <1>2, <2>4 DEF Agree
  <2> QED BY <2>5, <2>6, <2>7
<1> QED BY <1>1, <1>2

LEMMA WithBitAgrees ==
  ASSUME NEW a \in Vec, NEW i \in Int, NEW b \in BOOLEAN
  PROVE  Agree(a, "with_bit", [index |-> i, bit |-> b], with_bit(a, i, b))
<1> DEFINE n == a.size
           v == a.value
           p == Pow2[n]
           r == with_bit(a, i, b)
           s == Bits(a)
           expected == [s EXCEPT ![n - i] = IF b THEN 1 ELSE 0]
<1>1. /\ n \in Nat /\ v \in 0 .. p - 1 /\ s = Word(n, v) /\ v \in Int /\ p \in Nat \ {0}
      /\ \A k \in 1 .. n : s[k] = Bit(v, n - k) /\ s[k] \in {0, 1}
  BY VecBits, Powers
<1>2. CASE i \notin 0 .. n - 1
  <2>1. r = ValueError
    BY <1>1, <1>2 DEF with_bit
  <2> QED BY <1>2, <2>1 DEF Agree
<1>3. CASE i \in 0 .. n - 1
  <2> DEFINE w == IF b THEN Pow2[i] ELSE p - 1 - Pow2[i]
             x == IF b THEN Or(n, v, w) ELSE And(n, v, w)
  <2>1. Pow2[i] \in 0 .. p - 1
    <3>1. i \in Nat /\ n - i \in Nat /\ i + (n - i) = n /\ n - i - 1 \in Nat /\ (n - i - 1) + 1 = n - i
      BY <1>1, <1>3
    <3>2. p = Pow2[i] * Pow2[n - i]
      BY <3>1, PowerOfSum
    <3>3. Pow2[n - i] = 2 * Pow2[n - i - 1] /\ Pow2[n - i - 1] \in Nat \ {0} /\ Pow2[i] \in Nat \ {0}
      BY <3>1, Powers
    <3> DEFINE g == Pow2[i]
               h == Pow2[n - i - 1]
    <3>4. p = 2 * (g * h) /\ g \in Nat \ {0} /\ h \in Nat \ {0}
      BY <3>2, <3>3
    <3> HIDE DEF g, h, p
    <3>5. g * h >= g
      BY <3>4
    <3>6. g \in 0 .. p - 1
      BY <1>1, <3>4, <3>5
    <3> QED BY <3>6 DEF g
  <2>2. w \in 0 .. p - 1
    BY <1>1, <2>1
  <2>3. x \in 0 .. p - 1
    <3> HIDE DEF w
    <3> QED BY <1>1, <2>2, BitwiseOnBits
  <2>4. r = BV(n, x)
    <3>1. ~(i < 0 \/ i >= n)
      BY <1>1, <1>3
    <3> QED BY <3>1 DEF with_bit, OrInt, AndInt
  <2>5. \A k \in 0 .. n - 1 : Bit(w, k) = IF b = (k = i) THEN 1 ELSE 0
    <3>1. \A k \in 0 .. n - 1 : Bit(Pow2[i], k) = IF k = i THEN 1 ELSE 0
      BY <1>1, <1>3, BitOfPower
    <3>2. \A k \in 0 .. n - 1 : Bit(p - 1 - Pow2[i], k) = 1 - Bit(Pow2[i], k)
      BY <1>1, <2>1, BitOfComplement
    <3> QED BY <3>1, <3>2
  <2>6. \A k \in 0 .. n - 1 : Bit(x, k) = IF k = i THEN (IF b THEN 1 ELSE 0) ELSE Bit(v, k)
    <3> HIDE DEF w
    <3>1. \A k \in 0 .. n - 1 : Bit(v, k) \in {0, 1}
      BY <1>1, BitRange
    <3>2. \A k \in 0 .. n - 1 :
            /\ Bit(And(n, v, w), k) = IF Bit(v, k) = 1 /\ Bit(w, k) = 1 THEN 1 ELSE 0
            /\ Bit(Or(n, v, w), k) = IF Bit(v, k) = 1 \/ Bit(w, k) = 1 THEN 1 ELSE 0
      <4>1. n \in Nat /\ v \in 0 .. Pow2[n] - 1 /\ w \in 0 .. Pow2[n] - 1
        BY <1>1, <2>2
      <4> HIDE DEF n, v
      <4> QED BY <4>1, BitwiseOnBits
    <3> QED BY <2>5, <3>1, <3>2
  <2> HIDE DEF x
  <2>7. r \in Vec /\ r = [size |-> n, value |-> x]
    BY <1>1, <2>3, <2>4, Made
  <2>8. BitsOf(r) = Word(n, x)
    BY <2>7, VecBits
  <2>9. Word(n, x) = expected
    <3>1. \A k \in 1 .. n : Bit(x, n - k) = IF k = n - i THEN (IF b THEN 1 ELSE 0) ELSE s[k]
      BY <1>1, <1>3, <2>6
    <3>2. expected = [k \in 1 .. n |-> IF k = n - i THEN (IF b THEN 1 ELSE 0) ELSE s[k]]
      <4>1. DOMAIN s = 1 .. n
        <5>1. DOMAIN Word(n, v) = 1 .. n
          BY DEF Word
        <5> QED BY <1>1, <5>1
      <4> HIDE DEF s
      <4> QED BY <4>1, <1>1, WordSeq
    <3> QED BY <3>1, <3>2 DEF Word
  <2>10. BitsOf(r) = [s EXCEPT ![n - i] = IF b THEN 1 ELSE 0]
    BY <2>8, <2>9
  <2> QED BY <1>3, <2>10 DEF Agree
<1> QED BY <1>2, <1>3

LEMMA WithBitsAgrees ==
  ASSUME NEW a \in Vec, NEW low \in Int, NEW b \in Vec
  PROVE  Agree(a, "with_bits", [low |-> low, bits |-> b], with_bits(a, low, b))
<1> DEFINE n == a.size
           m == b.size
           v == a.value
           r == with_bits(a, low, b)
<1>1. /\ n \in Nat /\ m \in Nat /\ v \in 0 .. Pow2[n] - 1 /\ v \in Int
      /\ b.value \in 0 .. Pow2[m] - 1 /\ b.value \in Int
      /\ Bits(a) = Word(n, v) /\ Bits(b) = Word(m, b.value)
  BY VecBits
<1>2. CASE ~(low \in 0 .. n - 1 /\ low + m <= n)
  <2>1. r = ValueError
    <3>1. low < 0 \/ low >= n \/ low + m > n
      BY <1>1, <1>2
    <3> QED BY <3>1 DEF with_bits
  <2> QED BY <1>2, <2>1 DEF Agree
<1>3. CASE low \in 0 .. n - 1 /\ low + m <= n
  <2> DEFINE wider == n - (low + m)
             ones == BV(m, Pow2[m] - 1)
             shifted == lshift(ones, low)
             mask == widen(shifted, wider)
             copy == lshift(b, low)
             moved == widen(copy, wider)
             inverse == invert(mask)
             rest == bvAnd(a, inverse)
             top == Pow2[m] - 1
             x == top * Pow2[low]
             y == b.value * Pow2[low]
  <2>1. low \in Nat /\ wider \in Nat /\ (m + low) + wider = n
    BY <1>1, <1>3
  <2>2. top \in 0 .. Pow2[m] - 1 /\ top \in Int
    BY <1>1, Powers
  <2>3. ones \in Vec /\ ones = [size |-> m, value |-> top]
    BY <1>1, <2>2, Made
  <2> HIDE DEF top, ones
  <2>4. /\ shifted \in Vec /\ shifted.size = m + low /\ shifted.value = x
        /\ copy \in Vec /\ copy.size = m + low /\ copy.value = y
    <3>1. /\ shifted \in Vec /\ shifted = [size |-> ones.size + low, value |-> ones.value * Pow2[low]]
          /\ copy \in Vec /\ copy = [size |-> m + low, value |-> y]
      BY <2>1, <2>3, ShiftedLeft
    <3>2. ones.size = m /\ ones.value = top
      BY <2>3
    <3>3. shifted = [size |-> m + low, value |-> x]
      BY <3>1, <3>2
    <3> HIDE DEF shifted, copy, x, y
    <3> QED BY <3>1, <3>3
  <2> HIDE DEF wider, shifted, copy
  <2>5. /\ mask \in Vec /\ mask = [size |-> n, value |-> x]
        /\ moved \in Vec /\ moved = [size |-> n, value |-> y]
    <3>1. /\ mask \in Vec /\ mask = [size |-> shifted.size + wider, value |-> shifted.value]
          /\ moved \in Vec /\ moved = [size |-> copy.size + wider, value |-> copy.value]
      BY <2>1, <2>4, Widened
    <3> QED BY <2>1, <2>4, <3>1
  <2> HIDE DEF x, y
  <2> DEFINE z == Pow2[n] - 1 - x
  <2>6. inverse \in Vec /\ inverse = [size |-> n, value |-> z]
    <3> HIDE DEF mask, z
    <3>1. inverse \in Vec /\ inverse = [size |-> mask.size, value |-> Pow2[mask.size] - 1 - mask.value]
      BY <2>5, Inverted
    <3>2. mask.size = n /\ mask.value = x
      BY <2>5
    <3> QED BY <3>1, <3>2 DEF z
  <2> HIDE DEF mask, moved, inverse, z
  <2> DEFINE u == And(n, v, z)
             w == Or(n, u, y)
  <2>7. rest \in Vec /\ rest = [size |-> n, value |-> u]
    <3>1. inverse.size = n /\ inverse.value = z
      BY <2>6
    <3> QED BY <2>6, <3>1, BitwiseVectors
  <2> HIDE DEF rest, u
  <2>8. r \in Vec /\ r = [size |-> n, value |-> w]
    <3>1. rest.size = n /\ rest.value = u /\ moved.size = n /\ moved.value = y
      BY <2>5, <2>7
    <3>2. /\ bvOr(rest, moved) = [size |-> rest.size, value |-> Or(rest.size, rest.value, moved.value)]
          /\ bvOr(rest, moved) \in Vec
      BY <2>5, <2>7, <3>1, BitwiseVectors
    <3>3. r = bvOr(rest, moved)
      <4>1. ~(low < 0 \/ low >= n \/ low + m > n)
        BY <1>1, <1>3
      <4> QED BY <4>1 DEF with_bits, wider, ones, top, shifted, mask, copy, moved, inverse, rest
    <3> QED BY <3>1, <3>2, <3>3
  <2>9. BitsOf(r) = Word(n, w)
    <3> HIDE DEF w, r
    <3>1. r.size = n /\ r.value = w
      BY <2>8
    <3> QED BY <2>8, <3>1, VecBits
  <2>10. /\ x \in 0 .. Pow2[n] - 1 /\ y \in 0 .. Pow2[n] - 1 /\ z \in 0 .. Pow2[n] - 1
         /\ u \in 0 .. Pow2[n] - 1
    <3>1. mask.value = x /\ moved.value = y /\ inverse.value = z /\ rest.value = u
      BY <2>5, <2>6, <2>7
    <3>2. mask.size = n /\ moved.size = n /\ inverse.size = n /\ rest.size = n
      BY <2>5, <2>6, <2>7
    <3> HIDE DEF n
    <3> QED BY <2>5, <2>6, <2>7, <3>1, <3>2, Vector
  <2> DEFINE In(k) == low <= k /\ k < low + m
  <2>11. \A k \in 0 .. n - 1 : Bit(z, k) = IF In(k) THEN 0 ELSE 1
    <3>1. \A k \in 0 .. n - 1 : Bit(x, k) = IF In(k) THEN 1 ELSE 0
      <4>1. ASSUME NEW k \in 0 .. n - 1 PROVE Bit(x, k) = IF In(k) THEN 1 ELSE 0
        <5> DEFINE none == 0
        <5>1. none \in 0 .. Pow2[low] - 1 /\ x = top * Pow2[low] + none /\ k \in Nat
          BY <2>1, <2>2, Powers DEF x
        <5> HIDE DEF none
        <5>2. Bit(x, k) = IF k < low THEN Bit(none, k) ELSE Bit(top, k - low)
          BY <2>1, <2>2, <5>1, BitOfJoin
        <5>3. CASE k < low
          BY <5>1, <5>2, <5>3, BitOfZero DEF none
        <5>4. CASE low <= k /\ k < low + m
          <6>1. k - low \in 0 .. m - 1
            BY <1>1, <2>1, <5>1, <5>4
          <6>2. Bit(Pow2[m] - 1 - none, k - low) = 1 - Bit(none, k - low)
            <7>1. none \in 0 .. Pow2[m] - 1
              BY <1>1, Powers DEF none
            <7> HIDE DEF m
            <7> QED BY <1>1, <6>1, <7>1, BitOfComplement
          <6>3. Bit(none, k - low) = 0
            BY <6>1, BitOfZero DEF none
          <6>4. Pow2[m] - 1 - none = top
            BY <1>1, Powers DEF top, none
          <6> QED BY <5>2, <5>4, <6>2, <6>3, <6>4
        <5>5. CASE k >= low + m
          <6>1. k - low \in Nat /\ k - low >= m /\ ~(k < low) /\ ~In(k)
            BY <1>1, <2>1, <5>1, <5>5
          <6>2. Bit(top, k - low) = 0
            <7> DEFINE j == k - low
            <7>1. m \in Nat /\ top \in 0 .. Pow2[m] - 1 /\ j \in Nat /\ j >= m
              BY <1>1, <2>2, <6>1
            <7> HIDE DEF m, j
            <7>2. Bit(top, j) = 0
              BY <7>1, BitAbove
            <7> QED BY <7>2 DEF j
          <6> QED BY <5>2, <5>5, <6>1, <6>2
        <5> QED BY <1>1, <2>1, <5>1, <5>3, <5>4, <5>5
      <4> QED BY <4>1
    <3>2. \A k \in 0 .. n - 1 : Bit(z, k) = 1 - Bit(x, k)
      <4> HIDE DEF n
      <4> QED BY <1>1, <2>10, BitOfComplement DEF z
    <3> HIDE DEF In
    <3> QED BY <3>1, <3>2
  <2>12. \A k \in 0 .. n - 1 : Bit(y, k) = IF In(k) THEN Bit(b.value, k - low) ELSE 0
    <3>1. ASSUME NEW k \in 0 .. n - 1 PROVE Bit(y, k) = IF In(k) THEN Bit(b.value, k - low) ELSE 0
      <4> DEFINE none == 0
                 q == b.value
      <4>1. none \in 0 .. Pow2[low] - 1 /\ y = q * Pow2[low] + none /\ k \in Nat /\ q \in Int
        BY <1>1, <2>1, Powers DEF y
      <4> HIDE DEF none, q
      <4>2. Bit(y, k) = IF k < low THEN Bit(none, k) ELSE Bit(q, k - low)
        BY <2>1, <4>1, BitOfJoin
      <4>3. CASE k < low
        BY <4>1, <4>2, <4>3, BitOfZero DEF none
      <4>4. CASE low <= k /\ k < low + m
        BY <2>1, <4>1, <4>2, <4>4 DEF q
      <4>5. CASE k >= low + m
        <5>1. k - low \in Nat /\ k - low >= m /\ ~(k < low) /\ ~In(k)
          BY <1>1, <2>1, <4>1, <4>5
        <5>2. Bit(q, k - low) = 0
          <6> DEFINE j == k - low
          <6>1. m \in Nat /\ q \in 0 .. Pow2[m] - 1 /\ j \in Nat /\ j >= m
            BY <1>1, <5>1 DEF q
          <6> HIDE DEF m, j
          <6>2. Bit(q, j) = 0
            BY <6>1, BitAbove
          <6> QED BY <6>2 DEF j
        <5> QED BY <4>2, <4>5, <5>1, <5>2
      <4> QED BY <1>1, <2>1, <4>1, <4>3, <4>4, <4>5
    <3> QED BY <3>1
  <2>13. \A k \in 0 .. n - 1 : Bit(w, k) = IF In(k) THEN Bit(b.value, k - low) ELSE Bit(v, k)
    <3>1. ASSUME NEW k \in 0 .. n - 1
          PROVE  Bit(w, k) = IF In(k) THEN Bit(b.value, k - low) ELSE Bit(v, k)
      <4>1. /\ Bit(u, k) = IF Bit(v, k) = 1 /\ Bit(z, k) = 1 THEN 1 ELSE 0
            /\ Bit(w, k) = IF Bit(u, k) = 1 \/ Bit(y, k) = 1 THEN 1 ELSE 0
        <5>0. /\ n \in Nat /\ v \in 0 .. Pow2[n] - 1 /\ z \in 0 .. Pow2[n] - 1
              /\ u \in 0 .. Pow2[n] - 1 /\ y \in 0 .. Pow2[n] - 1 /\ k \in 0 .. n - 1
          BY <1>1, <2>10
        <5> HIDE DEF n, v, w
        <5>1. Bit(And(n, v, z), k) = IF Bit(v, k) = 1 /\ Bit(z, k) = 1 THEN 1 ELSE 0
          BY <5>0, BitwiseOnBits
        <5>2. Bit(Or(n, u, y), k) = IF Bit(u, k) = 1 \/ Bit(y, k) = 1 THEN 1 ELSE 0
          <6>1. \A i \in 0 .. n - 1 : Bit(Or(n, u, y), i) = IF Bit(u, i) = 1 \/ Bit(y, i) = 1 THEN 1 ELSE 0
            <7>1. n \in Nat /\ u \in 0 .. Pow2[n] - 1 /\ y \in 0 .. Pow2[n] - 1
              BY <5>0
            <7> QED BY <7>1, BitwiseOnBits
          <6> QED BY <5>0, <6>1
        <5> QED BY <5>1, <5>2 DEF u, w
      <4>2. Bit(v, k) \in {0, 1}
        BY <1>1, BitRange
      <4>3. In(k) => Bit(b.value, k - low) \in {0, 1}
        BY <1>1, <2>1, BitRange
      <4> HIDE DEF In, w
      <4> QED BY <2>11, <2>12, <4>1, <4>2, <4>3
    <3> QED BY <3>1
  <2> DEFINE left == SubSeq(Bits(a), 1, n - low - m)
             right == SubSeq(Bits(a), n - low + 1, n)
             t == Word(n, w)
  <2>14. /\ left = Word(wider, v \div Pow2[low + m])
         /\ right = Word(low, v \div Pow2[0])
    <3>1. SubSeq(Word(n, v), n - n + 1, n - (low + m)) = Word(n - (low + m), v \div Pow2[low + m])
      <4> DEFINE l == low + m
                 h == n
      <4>1. l \in 0 .. n /\ h \in l .. n
        BY <1>1, <1>3
      <4> HIDE DEF l, n, h
      <4>2. SubSeq(Word(n, v), n - h + 1, n - l) = Word(h - l, v \div Pow2[l])
        BY <1>1, <4>1, PartOfWord
      <4> QED BY <4>2 DEF l, h
    <3>2. SubSeq(Word(n, v), n - low + 1, n - 0) = Word(low - 0, v \div Pow2[0])
      <4> DEFINE l == 0
      <4>1. l \in 0 .. n /\ low \in l .. n
        BY <1>1, <1>3
      <4> HIDE DEF l, n
      <4>2. SubSeq(Word(n, v), n - low + 1, n - l) = Word(low - l, v \div Pow2[l])
        BY <1>1, <4>1, PartOfWord
      <4> QED BY <4>2 DEF l
    <3>3. n - n + 1 = 1 /\ n - (low + m) = n - low - m /\ n - 0 = n /\ low - 0 = low
      BY <1>1, <2>1
    <3> QED BY <1>1, <3>1, <3>2, <3>3 DEF wider
  <2>15. v \div Pow2[0] = v
    BY <1>1, Powers
  <2> DEFINE g == v \div Pow2[low + m]
  <2>16. g \in Int /\ \A k \in Nat : Bit(g, k) = Bit(v, k + (low + m))
    <3>1. low + m \in Nat
      BY <1>1, <2>1
    <3>2. g \in Int
      BY <1>1, <3>1, Powers, Remainder
    <3> DEFINE l == low + m
    <3> HIDE DEF l
    <3>3. \A k \in Nat : Bit(v \div Pow2[l], k) = Bit(v, k + l)
      BY <1>1, <3>1, BitOfQuotient DEF l
    <3> QED BY <3>2, <3>3 DEF l
  <2> HIDE DEF left, right, g, t, w
  <2> DEFINE mid == Bits(b)
  <2>17. /\ left \in Seq(Int) /\ Len(left) = wider /\ \A k \in 1 .. wider : left[k] = Bit(g, wider - k)
         /\ mid \in Seq(Int) /\ Len(mid) = m /\ \A k \in 1 .. m : mid[k] = Bit(b.value, m - k)
         /\ right \in Seq(Int) /\ Len(right) = low /\ \A k \in 1 .. low : right[k] = Bit(v, low - k)
    <3>1. left = Word(wider, g) /\ mid = Word(m, b.value) /\ right = Word(low, v)
      BY <1>1, <2>14, <2>15 DEF g
    <3> DEFINE q == b.value
    <3>2. m \in Nat /\ v \in Int /\ q \in Int /\ low \in Nat /\ wider \in Nat /\ g \in Int
      BY <1>1, <2>1, <2>16
    <3> HIDE DEF m, v, mid, q
    <3>3. left \in Seq(Int) /\ Len(left) = wider /\ \A k \in 1 .. wider : left[k] = Bit(g, wider - k)
      BY <3>1, <3>2, WordSeq
    <3>4. mid \in Seq(Int) /\ Len(mid) = m /\ \A k \in 1 .. m : mid[k] = Bit(q, m - k)
      BY <3>1, <3>2, WordSeq DEF q
    <3>5. right \in Seq(Int) /\ Len(right) = low /\ \A k \in 1 .. low : right[k] = Bit(v, low - k)
      BY <3>1, <3>2, WordSeq
    <3> QED BY <3>3, <3>4, <3>5 DEF q
  <2>18. t \in Seq(Int) /\ Len(t) = n /\ \A k \in 1 .. n : t[k] = Bit(w, n - k)
    <3>1. w \in Int
      <4>1. w \in 0 .. Pow2[n] - 1
        <5> HIDE DEF n
        <5> QED BY <1>1, <2>10, BitwiseOnBits DEF w
      <4> QED BY <1>1, <4>1, Powers
    <3> HIDE DEF n
    <3> QED BY <1>1, <3>1, WordSeq DEF t
  <2> HIDE DEF mid
  <2> DEFINE lm == left \o mid
             whole == lm \o right
  <2>19. /\ lm \in Seq(Int) /\ Len(lm) = wider + m
         /\ \A k \in 1 .. wider + m : lm[k] = IF k <= wider THEN left[k] ELSE mid[k - wider]
    <3>1. /\ left \in Seq(Int) /\ mid \in Seq(Int) /\ Len(left) = wider /\ Len(mid) = m
      BY <2>17
    <3>2. /\ lm \in Seq(Int) /\ Len(lm) = Len(left) + Len(mid)
          /\ \A k \in 1 .. Len(left) + Len(mid) : lm[k] = IF k <= Len(left) THEN left[k] ELSE mid[k - Len(left)]
      BY <3>1, ConcatProperties
    <3> HIDE DEF m, lm
    <3> QED BY <3>1, <3>2
  <2> HIDE DEF lm
  <2>20. /\ whole \in Seq(Int) /\ Len(whole) = n
         /\ \A k \in 1 .. n : whole[k] = IF k <= wider + m THEN lm[k] ELSE right[k - (wider + m)]
    <3>1. (wider + m) + low = n
      BY <1>1, <2>1
    <3>2. /\ whole \in Seq(Int) /\ Len(whole) = Len(lm) + Len(right)
          /\ \A k \in 1 .. Len(lm) + Len(right) : whole[k] = IF k <= Len(lm) THEN lm[k] ELSE right[k - Len(lm)]
      <4>1. lm \in Seq(Int) /\ right \in Seq(Int)
        BY <2>17, <2>19
      <4> QED BY <4>1, ConcatProperties
    <3> HIDE DEF whole, m, n
    <3> QED BY <2>17, <2>19, <3>1, <3>2
  <2> HIDE DEF whole
  <2>21. ASSUME NEW k \in 1 .. n PROVE t[k] = whole[k]
    <3>0. n - k \in 0 .. n - 1
      BY <1>1
    <3>1. CASE k <= wider
      <4>1. k \in 1 .. wider /\ k <= wider + m /\ k \in 1 .. wider + m /\ wider - k \in Nat
            /\ (wider - k) + (low + m) = n - k /\ ~In(n - k)
        BY <1>1, <2>1, <3>1
      <4>2. Bit(g, wider - k) = Bit(v, (wider - k) + (low + m))
        BY <2>16, <4>1
      <4> HIDE DEF In, n, m
      <4>3. t[k] = Bit(w, n - k) /\ whole[k] = lm[k] /\ lm[k] = left[k]
        BY <2>18, <2>19, <2>20, <3>1, <4>1
      <4>4. left[k] = Bit(g, wider - k)
        BY <2>17, <4>1
      <4>5. Bit(w, n - k) = Bit(v, n - k)
        BY <2>13, <3>0, <4>1
      <4> QED BY <4>1, <4>2, <4>3, <4>4, <4>5
    <3>2. CASE ~(k <= wider) /\ k <= wider + m
      <4>1. k - wider \in 1 .. m /\ k \in 1 .. wider + m
            /\ m - (k - wider) = (n - k) - low /\ In(n - k)
        BY <1>1, <2>1, <3>2
      <4> HIDE DEF In, n, m
      <4>2. t[k] = Bit(w, n - k) /\ whole[k] = lm[k] /\ lm[k] = mid[k - wider]
        BY <2>18, <2>19, <2>20, <3>2, <4>1
      <4>3. mid[k - wider] = Bit(b.value, (n - k) - low)
        BY <2>17, <4>1
      <4>4. Bit(w, n - k) = Bit(b.value, (n - k) - low)
        BY <2>13, <3>0, <4>1
      <4> QED BY <4>2, <4>3, <4>4
    <3>3. CASE ~(k <= wider + m)
      <4>1. k - (wider + m) \in 1 .. low /\ low - (k - (wider + m)) = n - k /\ ~In(n - k)
        BY <1>1, <2>1, <3>3
      <4> HIDE DEF In, n, m
      <4>2. t[k] = Bit(w, n - k) /\ whole[k] = right[k - (wider + m)]
        BY <2>18, <2>20, <3>3, <4>1
      <4>3. right[k - (wider + m)] = Bit(v, n - k)
        BY <2>17, <4>1
      <4>4. Bit(w, n - k) = Bit(v, n - k)
        BY <2>13, <3>0, <4>1
      <4> QED BY <4>2, <4>3, <4>4
    <3> QED BY <1>1, <2>1, <3>1, <3>2, <3>3
  <2>22. t = whole
    <3> HIDE DEF n
    <3> QED BY <2>18, <2>20, <2>21, SeqEqual
  <2>23. BitsOf(r) = left \o mid \o right
    BY <2>9, <2>22 DEF t, whole, lm
  <2>24. BitsOf(r) = SubSeq(Bits(a), 1, n - low - m) \o Bits(b) \o SubSeq(Bits(a), n - low + 1, n)
    BY <2>23 DEF left, mid, right
  <2> HIDE DEF r
  <2>25. Agree(a, "with_bits", [low |-> low, bits |-> b], r)
    BY <1>3, <2>24 DEF Agree
  <2> QED BY <2>25 DEF r
<1> QED BY <1>2, <1>3

LEMMA JoinAgrees ==
  ASSUME NEW a \in Vec, NEW x \in Vec, NEW y \in Vec, NEW z \in Vec
  PROVE  Agree(a, "join", <<x, y, z>>, join(<<x, y, z>>))
<1> DEFINE bs == <<x, y, z>>
<1>1. bs \in Seq(Vec) /\ Len(bs) = 3 /\ bs[1] = x /\ bs[2] = y /\ bs[3] = z
  OBVIOUS
<1> HIDE DEF bs
<1>2. join(bs) \in Vec
  BY <1>1, Joining
<1>3. PICK h : /\ h[0] = BV(0, 0) /\ join(bs) = h[3] /\ \A k \in 0 .. 3 : h[k] \in Vec
               /\ \A k \in 1 .. 3 : h[k] = concat(h[k - 1], bs[k])
  BY <1>1, Joining
<1>4. Bits(h[0]) = <<>>
  <2>1. h[0] = [size |-> 0, value |-> 0]
    BY <1>3, Made, Powers
  <2>2. h[0].size = 0
    BY <2>1
  <2> QED BY <2>2 DEF Bits
<1>5. h[1] = concat(h[0], x) /\ h[2] = concat(h[1], y) /\ h[3] = concat(h[2], z)
      /\ h[0] \in Vec /\ h[1] \in Vec /\ h[2] \in Vec
  BY <1>1, <1>3
<1>6. Bits(h[1]) = Bits(x)
  <2>1. Bits(h[1]) = Bits(h[0]) \o Bits(x)
    BY <1>5, ConcatAgrees
  <2>2. Bits(x) \in Seq(Int)
    BY VecBits
  <2> QED BY <1>4, <2>1, <2>2, ConcatEmptySeq
<1>7. Bits(h[3]) = Bits(x) \o Bits(y) \o Bits(z)
  <2>1. Bits(h[2]) = Bits(h[1]) \o Bits(y)
    BY <1>5, ConcatAgrees
  <2>2. Bits(h[3]) = Bits(h[2]) \o Bits(z)
    BY <1>5, ConcatAgrees
  <2> QED BY <1>6, <2>1, <2>2
<1>8. BitsOf(join(bs)) = Bits(h[3])
  BY <1>2, <1>3, VecBits
<1>9. BitsOf(join(bs)) = Bits(bs[1]) \o Bits(bs[2]) \o Bits(bs[3])
  BY <1>1, <1>7, <1>8
<1>10. Agree(a, "join", bs, join(bs))
  BY <1>9 DEF Agree
<1> QED BY <1>10 DEF bs

LEMMA QuotientOfQuotient ==
  ASSUME NEW v \in Int, NEW m \in Nat, NEW d \in Nat
  PROVE  (v \div Pow2[m]) \div Pow2[d] = v \div Pow2[m + d]
<1> DEFINE p == Pow2[m]
           h == Pow2[d]
           w == v \div p
           s == v % p
           q == w \div h
           r == w % h
<1>1. p \in Nat \ {0} /\ h \in Nat \ {0}
  BY Powers
<1>2. Pow2[m + d] = p * h
  BY PowerOfSum
<1> HIDE DEF p, h
<1>3. v = p * w + s /\ s \in 0 .. p - 1 /\ w \in Int
  BY <1>1, Remainder
<1> HIDE DEF w, s
<1>4. w = h * q + r /\ r \in 0 .. h - 1 /\ q \in Int
  BY <1>1, <1>3, Remainder
<1> HIDE DEF q, r
<1> DEFINE l == p * h
           e == p * r + s
<1>5. l \in Nat \ {0}
  BY <1>1
<1>6. v = l * q + e
  <2>1. p * (h * q + r) = (p * h) * q + p * r
    BY <1>1, <1>4
  <2> QED BY <1>1, <1>3, <1>4, <2>1
<1>7. e \in 0 .. l - 1
  <2>1. p * r >= 0 /\ p * r <= p * (h - 1) /\ p * (h - 1) = p * h - p /\ p * r \in Int
    <3>1. h - 1 - r \in Nat /\ r \in Nat
      BY <1>1, <1>4
    <3>2. p * (h - 1 - r) \in Nat /\ p * r \in Nat
      BY <1>1, <3>1
    <3>3. p * (h - 1 - r) = p * h - p - p * r /\ p * (h - 1) = p * h - p
      BY <1>1, <1>4
    <3> QED BY <1>1, <1>4, <3>2, <3>3
  <2> QED BY <1>1, <1>3, <2>1
<1> HIDE DEF l, e
<1>8. v \div l = q
  BY <1>4, <1>5, <1>6, <1>7, RemainderUnique
<1> QED BY <1>2, <1>8 DEF l, q, w, p, h

LEMMA SplitAgrees ==
  ASSUME NEW a \in Vec, NEW d \in Int
  PROVE  Agree(a, "split", d, split(a, d))
<1> DEFINE n == a.size
           v == a.value
<1>1. n \in Nat /\ v \in Int /\ v \in 0 .. Pow2[n] - 1 /\ a = [size |-> n, value |-> v]
  BY VecBits, Vector
<1>2. CASE ~(d > 0 /\ n % d = 0)
  <2>1. split(a, d) = ValueError
    BY <1>1, <1>2 DEF split
  <2> QED BY <1>2, <2>1 DEF Agree
<1>3. CASE d > 0 /\ n % d = 0
  <2> DEFINE q == n \div d
             part(k) == BV(d, LowBits(ShiftRight(v, n - k * d), d))
             l == [k \in 1 .. q |-> part(k)]
  <2>1. d \in Nat \ {0} /\ q \in Nat /\ n = q * d
    <3> DEFINE rest == n % d
    <3>1. d \in Nat \ {0} /\ n = d * q + rest /\ q \in Int /\ rest = 0
      BY <1>1, <1>3, Remainder
    <3> HIDE DEF q, rest, n
    <3>2. n = d * q
      BY <3>1
    <3>3. ASSUME q < 0 PROVE FALSE
      <4> DEFINE e == -q - 1
      <4>1. e \in Nat /\ q = -(e + 1)
        BY <3>1, <3>3
      <4> HIDE DEF e
      <4>2. d * e \in Nat /\ d * (-(e + 1)) = -(d * e) - d
        BY <3>1, <4>1
      <4> QED BY <1>1, <3>1, <3>2, <4>1, <4>2
    <3> QED BY <3>1, <3>2, <3>3
  <2>2. split(a, d) = [list |-> l]
    <3>1. ~(d <= 0 \/ n % d # 0)
      BY <1>1, <1>3
    <3> QED BY <3>1 DEF split
  <2> HIDE DEF q
  <2>3. ASSUME NEW k \in 0 .. q
        PROVE  /\ n - k * d \in Nat /\ k * d \in Nat
               /\ k # 0 => n - (k - 1) * d = (n - k * d) + d /\ (k - 1) * d + d = k * d
    <3> DEFINE j == q - k
    <3>1. j \in Nat /\ k \in Nat
      BY <2>1
    <3>2. j * d \in Nat /\ k * d \in Nat
      BY <2>1, <3>1
    <3>3. j * d = q * d - k * d /\ (k - 1) * d = k * d - d
      BY <2>1, <3>1
    <3> HIDE DEF n
    <3> QED BY <2>1, <3>2, <3>3
  <2> DEFINE x(k) == v \div Pow2[n - k * d]
  <2>4. ASSUME NEW k \in 1 .. q
        PROVE  part(k) = [size |-> d, value |-> x(k) % Pow2[d]] /\ part(k) \in Vec /\ x(k) \in Int
    <3>1. n - k * d \in Nat
      BY <2>1, <2>3
    <3> DEFINE i == n - k * d
               y == v \div Pow2[i]
    <3>2. y \in Int
      <4> HIDE DEF i, n, v
      <4> QED BY <1>1, <3>1, Powers, Remainder DEF i
    <3>3. part(k) = BV(d, y % Pow2[d])
      BY DEF LowBits, ShiftRight
    <3> HIDE DEF y, part
    <3>4. part(k) = [size |-> d, value |-> y % Pow2[d]] /\ part(k) \in Vec
      BY <2>1, <3>2, <3>3, RemainderVector
    <3> QED BY <3>2, <3>4 DEF y
  <2> HIDE DEF part
  <2>5. l \in [1 .. q -> Vec]
    BY <2>4
  <2>6. l \in Seq(Vec) /\ Len(l) = q
    <3> HIDE DEF l
    <3>1. l \in Seq(Vec)
      BY <2>1, <2>5, SeqDef
    <3> QED BY <2>1, <2>5, <3>1, LenProperties
  <2>7. \A k \in 1 .. q : l[k] = [size |-> d, value |-> x(k) % Pow2[d]]
    BY <2>4
  <2> HIDE DEF l
  <2>8. PICK h : /\ h[0] = BV(0, 0) /\ join(l) = h[q] /\ \A k \in 0 .. q : h[k] \in Vec
                 /\ \A k \in 1 .. q : h[k] = concat(h[k - 1], l[k])
    BY <2>6, Joining
  <2> DEFINE Good == {k \in Nat : k <= q => h[k] = [size |-> k * d, value |-> x(k)]}
  <2>9. Good = Nat
    <3>1. 0 \in Good
      <4>1. 0 * d = 0 /\ n - 0 * d = n
        BY <1>1, <2>1
      <4>2. x(0) = 0
        <5> HIDE DEF v, n
        <5> QED BY <1>1, <4>1, Powers, SmallRemainder
      <4>3. h[0] = [size |-> 0, value |-> 0]
        BY <2>8, Made, Powers
      <4> HIDE DEF x
      <4> QED BY <4>1, <4>2, <4>3
    <3>2. ASSUME NEW k \in Nat, k \in Good PROVE k + 1 \in Good
      <4>1. CASE k + 1 <= q
        <5> DEFINE j == k + 1
                   i == n - j * d
        <5>1. j \in 1 .. q /\ j \in 0 .. q /\ k \in 0 .. q /\ j - 1 = k /\ j # 0
          BY <2>1, <4>1
        <5>2. i \in Nat /\ n - k * d = i + d /\ k * d + d = j * d /\ k * d \in Nat
          <6> HIDE DEF j, n
          <6> QED BY <2>3, <5>1
        <5>3. h[k] = [size |-> k * d, value |-> x(k)]
          BY <3>2, <5>1
        <5>4. h[j] = concat(h[k], l[j]) /\ h[k] \in Vec /\ l[j] \in Vec
          <6> HIDE DEF j
          <6> QED BY <2>5, <2>8, <5>1
        <5>5. l[j] = [size |-> d, value |-> x(j) % Pow2[d]]
          <6> HIDE DEF j, x
          <6> QED BY <2>7, <5>1
        <5> DEFINE y == x(j)
        <5>6. y \in Int
          <6> HIDE DEF j, x
          <6> QED BY <2>4, <5>1
        <5>7. x(k) = y \div Pow2[d]
          <6>1. y = v \div Pow2[i] /\ x(k) = v \div Pow2[i + d]
            BY <5>2
          <6> HIDE DEF i, y, v, x
          <6> QED BY <1>1, <2>1, <5>2, <6>1, QuotientOfQuotient
        <5>8. x(k) * Pow2[d] + (y % Pow2[d]) = y
          <6> HIDE DEF y
          <6> DEFINE p == Pow2[d]
                     s == y \div p
                     t == y % p
          <6>1. p \in Nat \ {0}
            BY <2>1, Powers
          <6> HIDE DEF p
          <6>2. y = p * s + t /\ t \in Int /\ s \in Int
            BY <5>6, <6>1, Remainder
          <6> HIDE DEF s, t
          <6>3. s * p + t = y
            BY <6>1, <6>2
          <6> HIDE DEF x
          <6> QED BY <5>7, <6>3 DEF s, t, p
        <5>9. concat(h[k], l[j]) = [size |-> k * d + d, value |-> x(k) * Pow2[d] + (y % Pow2[d])]
          <6> HIDE DEF y, x
          <6>1. h[k].size = k * d /\ h[k].value = x(k) /\ l[j].size = d /\ l[j].value = y % Pow2[d]
            BY <5>3, <5>5 DEF y
          <6> HIDE DEF j
          <6> QED BY <5>4, <6>1, Concatenated
        <5>10. h[j] = [size |-> j * d, value |-> x(j)]
          <6> HIDE DEF x
          <6>1. h[j] = [size |-> k * d + d, value |-> y]
            <7> HIDE DEF y, j
            <7> QED BY <5>4, <5>8, <5>9
          <6> HIDE DEF j
          <6> QED BY <5>2, <6>1
        <5> HIDE DEF x
        <5> QED BY <5>10
      <4> QED BY <4>1, <2>1
    <3>3. Good \in SUBSET Nat
      OBVIOUS
    <3> HIDE DEF Good
    <3> QED BY <3>1, <3>2, <3>3, SetInduction
  <2>10. join(l) = a
    <3>1. h[q] = [size |-> q * d, value |-> x(q)]
      <4>1. q \in Good /\ q <= q
        <5> HIDE DEF Good
        <5> QED BY <2>1, <2>9
      <4> HIDE DEF x
      <4> QED BY <4>1
    <3>2. x(q) = v
      <4>1. n - q * d = 0
        BY <1>1, <2>1
      <4> HIDE DEF v, n
      <4> QED BY <1>1, <4>1, Powers
    <3> HIDE DEF x
    <3> QED BY <1>1, <2>1, <2>8, <3>1, <3>2
  <2>11. BitsOf(split(a, d)) = Bits(a)
    <3> DEFINE r == split(a, d)
    <3>1. DOMAIN r = {"list"} /\ r.list = l
      BY <2>2
    <3>2. DOMAIN r # {"size", "value"} /\ DOMAIN r # {"bytes"}
      BY <3>1
    <3> HIDE DEF r
    <3>3. BitsOf(r) = Bits(join(l))
      BY <3>1, <3>2 DEF BitsOf
    <3> QED BY <2>10, <3>3 DEF r
  <2>12. split(a, d).list = l /\ DOMAIN l = 1 .. q
    BY <2>2, <2>5
  <2>13. \A k \in DOMAIN split(a, d).list : split(a, d).list[k].size = d
    <3> HIDE DEF x
    <3>1. ASSUME NEW k \in 1 .. q PROVE l[k].size = d
      <4>1. l[k] = [size |-> d, value |-> x(k) % Pow2[d]]
        BY <2>7
      <4> QED BY <4>1
    <3> QED BY <2>12, <3>1
  <2> QED BY <1>3, <2>11, <2>13 DEF Agree
<1> QED BY <1>2, <1>3

\* The bits of the bytes are those of v.
BytesOf(bs, v) ==
    \A k \in 1 .. Len(bs), t \in 0 .. 7 : Bit(bs[k], t) = Bit(v, 8 * (Len(bs) - k) + t)

LEMMA BytesOfNumber ==
  ASSUME NEW len \in Nat, NEW bs, Len(bs) = len, NEW v \in Int, NEW r, r = [bytes |-> bs], BytesOf(bs, v)
  PROVE  BitsOf(r) = Word(8 * len, v)
<1> DEFINE Place(k) == 1 + ((k - 1) \div 8)
           Within(k) == 1 + ((k - 1) % 8)
<1>1. ASSUME NEW k \in 1 .. 8 * len
      PROVE  Bits([size |-> 8, value |-> bs[Place(k)]])[Within(k)] = Bit(v, 8 * len - k)
  <2> DEFINE i == Place(k)
             j == Within(k)
             t == 8 - j
             b == [size |-> 8, value |-> bs[i]]
  <2>1. i \in 1 .. len /\ j \in 1 .. 8 /\ t \in 0 .. 7 /\ 8 * (len - i) + t = 8 * len - k
    <3> DEFINE q == (k - 1) \div 8
               rest == (k - 1) % 8
    <3>1. k - 1 = 8 * q + rest /\ rest \in 0 .. 7 /\ q \in Int
      <4> DEFINE e == 8
                 w == k - 1
      <4>1. e \in Nat \ {0} /\ w \in Int
        OBVIOUS
      <4> HIDE DEF e, w
      <4>2. w = e * (w \div e) + (w % e) /\ w % e \in 0 .. e - 1 /\ w \div e \in Int
        BY <4>1, Remainder
      <4> QED BY <4>2 DEF e, w
    <3>2. i = 1 + q /\ j = 1 + rest
      OBVIOUS
    <3> HIDE DEF q, rest, i, j
    <3>3. q >= 0 /\ q <= len - 1
      BY <3>1
    <3> QED BY <3>1, <3>2, <3>3
  <2> HIDE DEF i, j
  <2>2. Bits(b)[j] = Bit(bs[i], t)
    <3>1. b.size = 8 /\ b.value = bs[i]
      OBVIOUS
    <3> HIDE DEF b
    <3>2. Bits(b) = Word(8, bs[i])
      BY <3>1, BitsAreWord
    <3> QED BY <2>1, <3>2 DEF Word
  <2>3. Bit(bs[i], t) = Bit(v, 8 * (len - i) + t)
    <3> HIDE DEF t
    <3> QED BY <2>1 DEF BytesOf
  <2> QED BY <2>1, <2>2, <2>3 DEF i, j
<1>2. DOMAIN r = {"bytes"} /\ r.bytes = bs /\ DOMAIN r # {"size", "value"}
  OBVIOUS
<1>3. BitsOf(r) = [k \in 1 .. 8 * len |-> Bits([size |-> 8, value |-> bs[Place(k)]])[Within(k)]]
  BY <1>2 DEF BitsOf
<1>4. BitsOf(r) = [k \in 1 .. 8 * len |-> Bit(v, 8 * len - k)]
  <2> HIDE DEF Place, Within
  <2> QED BY <1>1, <1>3
<1> QED BY <1>4 DEF Word

LEMMA BytesAgree ==
  ASSUME NEW a \in Vec, NEW arg
  PROVE  Agree(a, "bytes", arg, [bytes |-> bytes(a)])
<1> DEFINE n == a.size
           v == a.value
           len == (n \div 8) + (IF n % 8 = 0 THEN 0 ELSE 1)
           bs == bytes(a)
           r == [bytes |-> bs]
<1>1. n \in Nat /\ v \in Int /\ v \in 0 .. Pow2[n] - 1 /\ Bits(a) = Word(n, v)
  BY VecBits
<1>2. len \in Nat /\ len = (n + 7) \div 8 /\ 8 * len - n \in Nat
  BY <1>1
<1>3. bs = [k \in 1 .. len |-> (v \div Pow2[8 * (len - k)]) % Pow2[8]]
  BY DEF bytes, LowBits, ShiftRight
<1> HIDE DEF len, bs
<1>4. ASSUME NEW k \in 1 .. len, NEW t \in 0 .. 7
      PROVE  bs[k] \in Int /\ Bit(bs[k], t) = Bit(v, 8 * (len - k) + t)
  <2> DEFINE m == 8 * (len - k)
             w == v \div Pow2[m]
             e == 8
  <2>1. m \in Nat /\ e \in Nat /\ t \in 0 .. e - 1 /\ t \in Nat /\ m + t = t + m
    BY <1>2
  <2>2. bs[k] = w % Pow2[e]
    BY <1>3
  <2> HIDE DEF m, e, n, v
  <2>3. w \in Int /\ Bit(w, t) = Bit(v, t + m)
    BY <1>1, <2>1, Powers, Remainder, BitOfQuotient
  <2> HIDE DEF w
  <2>4. Bit(w % Pow2[e], t) = Bit(w, t)
    BY <2>1, <2>3, BitOfRemainder
  <2>5. w % Pow2[e] \in Int
    <3> DEFINE p == Pow2[e]
    <3>1. p \in Nat \ {0}
      BY <2>1, Powers
    <3> HIDE DEF p
    <3>2. w % p \in Int
      BY <2>3, <3>1, Remainder
    <3> QED BY <3>2 DEF p
  <2>6. Bit(bs[k], t) = Bit(v, m + t)
    BY <2>1, <2>2, <2>3, <2>4
  <2> QED BY <2>2, <2>5, <2>6 DEF m
<1>5. Len(bs) = len
  <2>1. bs \in [1 .. len -> Int]
    <3>1. \A k \in 1 .. len : bs[k] \in Int
      BY <1>4
    <3> QED BY <1>3, <3>1
  <2>2. bs \in Seq(Int)
    BY <1>2, <2>1, SeqDef
  <2> QED BY <1>2, <2>1, <2>2, LenProperties
<1>6. BitsOf(r) = Word(8 * len, v)
  <2>1. BytesOf(bs, v)
    BY <1>4, <1>5 DEF BytesOf
  <2>2. len \in Nat /\ Len(bs) = len /\ v \in Int /\ r = [bytes |-> bs]
    BY <1>1, <1>2, <1>5
  <2> HIDE DEF v, r
  <2> QED BY <2>1, <2>2, BytesOfNumber
<1>7. Cat(Zeros(8 * len - n), Bits(a)) = Word(8 * len, v)
  <2> DEFINE m == 8 * len - n
             l == 8 * len
             none == 0
  <2>1. m \in Nat /\ l \in Nat /\ l = m + n /\ none \in Int /\ v = none * Pow2[n] + v
    BY <1>1, <1>2, Powers
  <2>2. Zeros(m) = Word(m, none)
    BY <2>1, ZerosAreWord
  <2> HIDE DEF m, l, none, n, v
  <2>3. Cat(Word(m, none), Word(n, v)) = Word(l, v)
    BY <1>1, <2>1, WordsJoined
  <2> QED BY <1>1, <2>2, <2>3 DEF m, l
<1>8. r.bytes = bs
  OBVIOUS
<1> HIDE DEF r
<1> QED BY <1>2, <1>5, <1>6, <1>7, <1>8 DEF Agree, Cat, r, bs

LEMMA EightBits ==
  /\ Pow2[8] = 256
  /\ \A k \in Nat : Pow2[8 * (k + 1)] = 256 * Pow2[8 * k] /\ 8 * (k + 1) = 8 * k + 8 /\ 8 * k \in Nat
<1>1. Pow2[8] = 256
  <2>1. Pow2[1] = 2 /\ Pow2[2] = 4 /\ Pow2[3] = 8 /\ Pow2[4] = 16
    <3>1. Pow2[0 + 1] = 2 * Pow2[0] /\ Pow2[1 + 1] = 2 * Pow2[1]
          /\ Pow2[2 + 1] = 2 * Pow2[2] /\ Pow2[3 + 1] = 2 * Pow2[3]
      BY Powers
    <3> QED BY <3>1, Powers
  <2>2. Pow2[4 + 1] = 2 * Pow2[4] /\ Pow2[5 + 1] = 2 * Pow2[5]
        /\ Pow2[6 + 1] = 2 * Pow2[6] /\ Pow2[7 + 1] = 2 * Pow2[7]
    BY Powers
  <2> QED BY <2>1, <2>2
<1>2. ASSUME NEW k \in Nat
      PROVE  Pow2[8 * (k + 1)] = 256 * Pow2[8 * k] /\ 8 * (k + 1) = 8 * k + 8 /\ 8 * k \in Nat
  <2> DEFINE m == 8 * k
             e == 8
  <2>1. m \in Nat /\ e \in Nat /\ 8 * (k + 1) = e + m /\ 8 * (k + 1) = 8 * k + 8
    OBVIOUS
  <2> HIDE DEF m, e
  <2>2. Pow2[e + m] = Pow2[e] * Pow2[m]
    BY <2>1, PowerOfSum
  <2> QED BY <1>1, <2>1, <2>2 DEF m, e
<1> QED BY <1>1, <1>2

\* The same, the first byte least significant.
BytesUp(bs, v) ==
    \A k \in 1 .. Len(bs), t \in 0 .. 7 : Bit(bs[k], t) = Bit(v, 8 * (k - 1) + t)

\* The numbers that the first bytes are, when the first is the most, or the
\* least, significant.
BigSums(f, bs, len) ==
    /\ len = Len(bs) /\ f[0] = 0
    /\ \A k \in 1 .. len : bs[k] \in 0 .. 255 /\ f[k] = f[k - 1] + bs[k] * Pow2[8 * (len - k)]
LittleSums(f, bs, len) ==
    /\ len = Len(bs) /\ f[0] = 0
    /\ \A k \in 1 .. len : bs[k] \in 0 .. 255 /\ f[k] = f[k - 1] + bs[k] * Pow2[8 * (k - 1)]

LEMMA BigBytes ==
  ASSUME NEW bs, NEW len \in Nat, NEW f \in [0 .. len -> Int], BigSums(f, bs, len)
  PROVE  f[len] \in 0 .. Pow2[8 * len] - 1 /\ BytesOf(bs, f[len])
<1> SUFFICES ASSUME len = Len(bs), f[0] = 0, \A k \in 1 .. len : bs[k] \in 0 .. 255,
                    \A k \in 1 .. len : f[k] = f[k - 1] + bs[k] * Pow2[8 * (len - k)]
             PROVE  f[len] \in 0 .. Pow2[8 * len] - 1 /\ BytesOf(bs, f[len])
  BY DEF BigSums
<1> DEFINE Part(k, w) == /\ w \in 0 .. Pow2[8 * k] - 1 /\ f[k] = w * Pow2[8 * (len - k)]
                         /\ \A j \in 1 .. k, t \in 0 .. 7 : Bit(bs[j], t) = Bit(w, 8 * (k - j) + t)
           Good == {k \in Nat : k <= len => \E w \in Int : Part(k, w)}
<1>1. Good = Nat
  <2>1. 0 \in Good
    <3>1. Part(0, 0)
      <4>1. 8 * 0 = 0 /\ Pow2[0] = 1 /\ Pow2[8 * (len - 0)] \in Int
        <5>1. 8 * (len - 0) \in Nat
          OBVIOUS
        <5> QED BY <5>1, Powers
      <4> QED BY <4>1
    <3> HIDE DEF Part
    <3> QED BY <3>1
  <2>2. ASSUME NEW k \in Nat, k \in Good PROVE k + 1 \in Good
    <3>1. CASE k + 1 <= len
      <4> DEFINE n == k + 1
                 b == bs[n]
                 e == 8
      <4>1. PICK w \in Int : Part(k, w)
        <5> HIDE DEF Part
        <5> QED BY <2>2, <3>1
      <4>2. n \in 1 .. len /\ b \in 0 .. 255 /\ b \in Int /\ n - 1 = k /\ e \in Nat /\ n \in Nat
        <5>1. n \in 1 .. len /\ n - 1 = k /\ e \in Nat /\ n \in Nat
          BY <3>1
        <5> HIDE DEF n, e
        <5>2. b \in 0 .. 255 /\ b \in Int
          BY <5>1
        <5> QED BY <5>1, <5>2
      <4> DEFINE u == w * Pow2[e] + b
                 p == Pow2[8 * (len - n)]
      <4>3. Pow2[e] = 256 /\ b \in 0 .. Pow2[e] - 1 /\ u \in Int /\ u = w * 256 + b
            /\ u = w * Pow2[e] + b
        BY <4>2, EightBits
      <4>4. u \in 0 .. Pow2[8 * n] - 1
        <5> DEFINE h == Pow2[8 * k]
        <5>1. Pow2[8 * n] = 256 * h /\ 8 * k \in Nat
          BY EightBits
        <5>2. h \in Nat
          BY <5>1, Powers
        <5>3. w \in 0 .. h - 1
          BY <4>1
        <5> DEFINE l == Pow2[8 * n]
        <5>4. u = w * 256 + b /\ b \in 0 .. 255 /\ l = 256 * h
          BY <4>2, <4>3, <5>1
        <5> HIDE DEF h, l, u, b
        <5>5. u \in 0 .. l - 1
          BY <5>2, <5>3, <5>4
        <5> QED BY <5>5 DEF l
      <4>5. f[n] = u * p
        <5>1. f[n] = f[k] + b * p
          BY <4>2
        <5>2. f[k] = w * Pow2[8 * (len - k)]
          BY <4>1
        <5>3. Pow2[8 * (len - k)] = 256 * p /\ p \in Int
          <6> DEFINE i == len - n
          <6>1. i \in Nat /\ i + 1 = len - k
            BY <4>2
          <6> HIDE DEF i
          <6>2. Pow2[8 * (i + 1)] = 256 * Pow2[8 * i] /\ 8 * i \in Nat
            BY <6>1, EightBits
          <6>3. Pow2[8 * i] \in Int
            BY <6>2, Powers
          <6> QED BY <6>1, <6>2, <6>3 DEF i
        <5> HIDE DEF p, u, b
        <5>4. w * (256 * p) + b * p = (w * 256 + b) * p
          BY <4>2, <5>3
        <5> QED BY <4>3, <5>1, <5>2, <5>3, <5>4
      <4>6. ASSUME NEW j \in 1 .. n, NEW t \in 0 .. 7
            PROVE  Bit(bs[j], t) = Bit(u, 8 * (n - j) + t)
        <5> DEFINE i == 8 * (n - j) + t
        <5>1. i \in Nat /\ t \in Nat
          BY <4>2
        <5>2. Bit(u, i) = IF i < e THEN Bit(b, i) ELSE Bit(w, i - e)
          <6>1. e \in Nat /\ b \in 0 .. Pow2[e] - 1 /\ i \in Nat /\ u = w * Pow2[e] + b
            BY <4>2, <4>3, <5>1
          <6> HIDE DEF i, e, b, n, u
          <6> QED BY <6>1, BitOfJoin
        <5>3. CASE j = n
          <6>1. i = t /\ i < e
            BY <4>2, <5>3
          <6> HIDE DEF i, e, u
          <6> QED BY <5>2, <5>3, <6>1 DEF i
        <5>4. CASE j # n
          <6>1. j \in 1 .. k /\ ~(i < e) /\ i - e = 8 * (k - j) + t
            BY <4>2, <5>4
          <6>2. Bit(bs[j], t) = Bit(w, 8 * (k - j) + t)
            BY <4>1, <6>1
          <6> HIDE DEF i, e, u
          <6> QED BY <5>2, <6>1, <6>2 DEF i
        <5> QED BY <5>3, <5>4
      <4>7. Part(n, u)
        <5> HIDE DEF u, n, p
        <5> QED BY <4>4, <4>5, <4>6 DEF p
      <4> HIDE DEF Part, u
      <4> QED BY <4>3, <4>7
    <3> HIDE DEF Part
    <3> QED BY <3>1
  <2>3. Good \in SUBSET Nat
    OBVIOUS
  <2> HIDE DEF Good
  <2> QED BY <2>1, <2>2, <2>3, SetInduction
<1>2. PICK w \in Int : Part(len, w)
  <2>1. len \in Good /\ len <= len
    <3> HIDE DEF Good
    <3> QED BY <1>1
  <2> HIDE DEF Part
  <2> QED BY <2>1
<1>3. f[len] = w
  <2>1. f[len] = w * Pow2[8 * (len - len)] /\ 8 * (len - len) = 0
    BY <1>2
  <2> QED BY <2>1, Powers
<1> QED BY <1>2, <1>3 DEF BytesOf

LEMMA LittleBytes ==
  ASSUME NEW bs, NEW len \in Nat, NEW f \in [0 .. len -> Int], LittleSums(f, bs, len)
  PROVE  f[len] \in 0 .. Pow2[8 * len] - 1 /\ BytesUp(bs, f[len])
<1> SUFFICES ASSUME len = Len(bs), f[0] = 0, \A k \in 1 .. len : bs[k] \in 0 .. 255,
                    \A k \in 1 .. len : f[k] = f[k - 1] + bs[k] * Pow2[8 * (k - 1)]
             PROVE  f[len] \in 0 .. Pow2[8 * len] - 1 /\ BytesUp(bs, f[len])
  BY DEF LittleSums
<1> DEFINE Part(k) == /\ f[k] \in 0 .. Pow2[8 * k] - 1
                      /\ \A j \in 1 .. k, t \in 0 .. 7 : Bit(bs[j], t) = Bit(f[k], 8 * (j - 1) + t)
           Good == {k \in Nat : k <= len => Part(k)}
<1>1. Good = Nat
  <2>1. 0 \in Good
    <3>1. Part(0)
      BY Powers
    <3> HIDE DEF Part
    <3> QED BY <3>1
  <2>2. ASSUME NEW k \in Nat, k \in Good PROVE k + 1 \in Good
    <3>1. CASE k + 1 <= len
      <4> DEFINE n == k + 1
                 b == bs[n]
                 m == 8 * k
                 w == f[k]
                 u == f[n]
      <4>1. Part(k)
        <5> HIDE DEF Part
        <5> QED BY <2>2, <3>1
      <4>2. n \in 1 .. len /\ b \in 0 .. 255 /\ b \in Int /\ n - 1 = k /\ n \in Nat
        <5>1. n \in 1 .. len /\ n - 1 = k /\ n \in Nat
          BY <3>1
        <5> HIDE DEF n
        <5>2. b \in 0 .. 255
          <6>1. \A j \in 1 .. len : bs[j] \in 0 .. 255
            OBVIOUS
          <6> HIDE DEF w, u, m
          <6> QED BY <5>1, <6>1
        <5>3. b \in Int
          <6> HIDE DEF b
          <6> QED BY <5>2
        <5> QED BY <5>1, <5>2, <5>3
      <4>3. m \in Nat /\ w \in 0 .. Pow2[m] - 1 /\ u = b * Pow2[m] + w /\ Pow2[8 * n] = 256 * Pow2[m]
            /\ Pow2[m] \in Nat
        <5>1. m \in Nat /\ Pow2[8 * n] = 256 * Pow2[m]
          BY EightBits
        <5>2. u = w + b * Pow2[m]
          BY <4>2
        <5>3. Pow2[m] \in Nat /\ w \in 0 .. Pow2[m] - 1
          BY <4>1, <5>1, Powers
        <5> DEFINE h == Pow2[m]
        <5> HIDE DEF h, w, b, u
        <5>4. b * h + w = w + b * h
          BY <4>2, <5>3 DEF h
        <5> QED BY <5>1, <5>2, <5>3, <5>4 DEF h
      <4>4. u \in 0 .. Pow2[8 * n] - 1
        <5> DEFINE h == Pow2[m]
                   l == Pow2[8 * n]
        <5>1. h \in Nat /\ w \in 0 .. h - 1 /\ u = b * h + w /\ l = 256 * h
          BY <4>3
        <5> HIDE DEF h, l, w, u, b
        <5>2. b * h \in Nat /\ b * h <= 255 * h
          <6>1. b \in Nat /\ 255 - b \in Nat
            BY <4>2
          <6>2. (255 - b) * h \in Nat /\ b * h \in Nat
            BY <5>1, <6>1
          <6>3. (255 - b) * h = 255 * h - b * h
            BY <5>1, <6>1
          <6> QED BY <5>1, <6>2, <6>3
        <5>3. u \in 0 .. l - 1
          BY <5>1, <5>2
        <5> QED BY <5>3 DEF l
      <4>5. ASSUME NEW j \in 1 .. n, NEW t \in 0 .. 7
            PROVE  Bit(bs[j], t) = Bit(u, 8 * (j - 1) + t)
        <5> DEFINE i == 8 * (j - 1) + t
        <5>1. i \in Nat /\ t \in Nat
          BY <4>2
        <5>2. Bit(u, i) = IF i < m THEN Bit(w, i) ELSE Bit(b, i - m)
          <6>1. m \in Nat /\ b \in Int /\ w \in 0 .. Pow2[m] - 1 /\ i \in Nat /\ u = b * Pow2[m] + w
            BY <4>2, <4>3, <5>1
          <6> HIDE DEF i, m, b, n, w, u
          <6> QED BY <6>1, BitOfJoin
        <5>3. CASE j = n
          <6>1. i - m = t /\ ~(i < m)
            BY <4>2, <5>3
          <6> HIDE DEF i, m, u, w
          <6> QED BY <5>2, <5>3, <6>1 DEF i
        <5>4. CASE j # n
          <6>1. j \in 1 .. k /\ i < m
            BY <4>2, <5>4
          <6>2. Bit(bs[j], t) = Bit(w, 8 * (j - 1) + t)
            BY <4>1, <6>1
          <6> HIDE DEF i, m, u, w
          <6> QED BY <5>2, <6>1, <6>2 DEF i
        <5> QED BY <5>3, <5>4
      <4>6. Part(n)
        <5> HIDE DEF n
        <5> QED BY <4>4, <4>5
      <4> HIDE DEF Part
      <4> QED BY <4>6
    <3> HIDE DEF Part
    <3> QED BY <3>1
  <2>3. Good \in SUBSET Nat
    OBVIOUS
  <2> HIDE DEF Good
  <2> QED BY <2>1, <2>2, <2>3, SetInduction
<1>2. Part(len)
  <2>1. len \in Good /\ len <= len
    <3> HIDE DEF Good
    <3> QED BY <1>1
  <2> HIDE DEF Part
  <2> QED BY <2>1
<1> QED BY <1>2 DEF BytesUp

\* The bytes, first the most significant.
Ordered(bs, order) ==
    IF order = "big" THEN bs ELSE [k \in DOMAIN bs |-> bs[Len(bs) + 1 - k]]

LEMMA NumberOfBytes ==
  ASSUME NEW bs \in Seq(0 .. 255), NEW order \in {"big", "little"}, NEW len \in Nat, len = Len(bs)
  PROVE  \E v \in 0 .. Pow2[8 * len] - 1 :
            /\ \A size : from_bytes(bs, size, order) = IF size >= 8 * len THEN BV(size, v) ELSE ValueError
            /\ BytesOf(Ordered(bs, order), v) /\ Len(Ordered(bs, order)) = len
<1> DEFINE Weight(k) == IF order = "big" THEN len - k ELSE k - 1
           term == [k \in 1 .. len |-> bs[k] * Pow2[8 * Weight(k)]]
           v == Total(len, term)
<1>1. \A k \in 1 .. len : bs[k] \in 0 .. 255
  <2> DEFINE Byte == 0 .. 255
  <2>1. bs \in Seq(Byte)
    OBVIOUS
  <2> HIDE DEF Byte
  <2>2. \A k \in 1 .. len : bs[k] \in Byte
    BY <2>1
  <2> QED BY <2>2 DEF Byte
<1>2. DOMAIN bs = 1 .. len
  OBVIOUS
<1>3. \A size : from_bytes(bs, size, order) = IF size >= 8 * len THEN BV(size, v) ELSE ValueError
  BY DEF from_bytes
<1>4. term \in [1 .. len -> Int]
  <2>1. ASSUME NEW k \in 1 .. len PROVE bs[k] * Pow2[8 * Weight(k)] \in Int
    <3> DEFINE m == 8 * Weight(k)
               b == bs[k]
    <3>1. m \in Nat
      OBVIOUS
    <3>2. b \in 0 .. 255
      BY <1>1
    <3> HIDE DEF m, b
    <3>3. Pow2[m] \in Int /\ b \in Int
      BY <3>1, <3>2, Powers
    <3> QED BY <3>3 DEF m, b
  <2> HIDE DEF Weight
  <2> QED BY <2>1
<1>5. \A k \in 1 .. len : term[k] = bs[k] * Pow2[8 * Weight(k)]
  OBVIOUS
<1> HIDE DEF term
<1>6. PICK f \in [0 .. len -> Int] : /\ f[0] = 0 /\ v = f[len]
                                    /\ \A k \in 1 .. len : f[k] = f[k - 1] + term[k]
  BY <1>4, Totals
<1> HIDE DEF v
<1>7. CASE order = "big"
  <2>1. BigSums(f, bs, len)
    BY <1>1, <1>5, <1>6, <1>7 DEF BigSums
  <2>2. v \in 0 .. Pow2[8 * len] - 1 /\ BytesOf(bs, v)
    BY <1>6, <2>1, BigBytes
  <2> QED BY <1>3, <1>7, <2>2 DEF Ordered
<1>8. CASE order = "little"
  <2>1. LittleSums(f, bs, len)
    BY <1>1, <1>5, <1>6, <1>8 DEF LittleSums
  <2>2. v \in 0 .. Pow2[8 * len] - 1 /\ BytesUp(bs, v)
    BY <1>6, <2>1, LittleBytes
  <2> DEFINE rev == [k \in 1 .. len |-> bs[len + 1 - k]]
  <2>3. Ordered(bs, order) = rev
    BY <1>2, <1>8 DEF Ordered
  <2>4. ASSUME NEW k \in 1 .. len, NEW t \in 0 .. 7
        PROVE  Bit(rev[k], t) = Bit(v, 8 * (len - k) + t)
    <3> DEFINE j == len + 1 - k
    <3>1. j \in 1 .. len /\ rev[k] = bs[j] /\ j - 1 = len - k
      OBVIOUS
    <3> HIDE DEF j, rev
    <3>2. Bit(bs[j], t) = Bit(v, 8 * (j - 1) + t)
      BY <2>2, <3>1 DEF BytesUp
    <3> QED BY <3>1, <3>2
  <2>5. Len(rev) = len
    <3>1. \A k \in 1 .. len : len + 1 - k \in 1 .. len
      OBVIOUS
    <3>2. rev \in [1 .. len -> 0 .. 255]
      BY <1>1, <3>1
    <3> DEFINE Byte == 0 .. 255
    <3> HIDE DEF Byte, rev
    <3>3. rev \in [1 .. len -> Byte]
      BY <3>2 DEF Byte
    <3>4. rev \in Seq(Byte)
      BY <3>3, SeqDef
    <3> QED BY <3>3, <3>4, LenProperties
  <2> HIDE DEF rev
  <2>6. BytesOf(rev, v)
    BY <2>4, <2>5 DEF BytesOf
  <2> QED BY <1>3, <2>2, <2>3, <2>5, <2>6
<1> QED BY <1>7, <1>8

LEMMA FromBytesAgrees ==
  ASSUME NEW a \in Vec, NEW bs \in Seq(0 .. 255), NEW size \in Nat, NEW order \in {"big", "little"}
  PROVE  Agree(a, "from_bytes", [bytes |-> bs, size |-> size, order |-> order],
               from_bytes(bs, size, order))
<1> DEFINE arg == [bytes |-> bs, size |-> size, order |-> order]
           r == from_bytes(bs, size, order)
           len == Len(bs)
           seq == Ordered(bs, order)
           l == 8 * len
<1>1. len \in Nat
  OBVIOUS
<1>2. PICK v \in 0 .. Pow2[l] - 1 : /\ r = (IF size >= l THEN BV(size, v) ELSE ValueError)
                                   /\ BytesOf(seq, v) /\ Len(seq) = len
  <2>1. len = Len(bs)
    OBVIOUS
  <2> HIDE DEF len
  <2> QED BY <1>1, <2>1, NumberOfBytes
<1>3. arg.bytes = bs /\ arg.size = size /\ arg.order = order
  OBVIOUS
<1> DEFINE bytesOf == [bytes |-> seq]
           m == size - l
<1>4. CASE size >= l
  <2>1. m \in Nat /\ l \in Nat /\ size = m + l
    BY <1>1, <1>4
  <2> HIDE DEF arg, r, len, seq, m
  <2>2. v \in Int /\ v \in 0 .. Pow2[size] - 1
    <3> HIDE DEF l
    <3>1. Pow2[size] = Pow2[m] * Pow2[l] /\ Pow2[m] \in Nat \ {0} /\ Pow2[l] \in Nat \ {0}
      BY <2>1, PowerOfSum, Powers
    <3> DEFINE p == Pow2[l]
               h == Pow2[m]
               g == Pow2[size]
    <3>2. g = h * p /\ h \in Nat \ {0} /\ p \in Nat \ {0} /\ v \in 0 .. p - 1
      BY <1>2, <3>1
    <3> HIDE DEF p, h, g
    <3>3. h * p >= p /\ h * p \in Nat
      <4>1. (h - 1) * p \in Nat /\ (h - 1) * p = h * p - p
        <5>1. h - 1 \in Nat
          BY <3>2
        <5> QED BY <3>2, <5>1
      <4> QED BY <3>2, <4>1
    <3>4. v \in Int /\ v \in 0 .. g - 1
      BY <3>2, <3>3
    <3> QED BY <3>4 DEF g
  <2>3. r \in Vec /\ r = [size |-> size, value |-> v]
    BY <1>2, <1>4, <2>2, Made
  <2>4. BitsOf(r) = Word(size, v)
    <3>1. r.size = size /\ r.value = v
      BY <2>3
    <3> QED BY <2>3, <3>1, VecBits
  <2>5. BitsOf(bytesOf) = Word(l, v)
    <3>1. len \in Nat /\ Len(seq) = len /\ v \in Int /\ bytesOf = [bytes |-> seq] /\ BytesOf(seq, v)
      BY <1>1, <1>2, <2>2
    <3> HIDE DEF bytesOf
    <3>2. BitsOf(bytesOf) = Word(8 * len, v)
      BY <3>1, BytesOfNumber
    <3> QED BY <3>2
  <2>6. Cat(Zeros(m), BitsOf(bytesOf)) = BitsOf(r)
    <3> DEFINE none == 0
    <3>1. none \in Int /\ v = none * Pow2[l] + v /\ Zeros(m) = Word(m, none)
      <4>1. Zeros(m) = Word(m, 0)
        BY <2>1, ZerosAreWord
      <4>2. Pow2[l] \in Nat
        <5> HIDE DEF l
        <5> QED BY <2>1, Powers
      <4> HIDE DEF l
      <4>3. v = 0 * Pow2[l] + v
        BY <2>2, <4>2
      <4> QED BY <4>1, <4>3
    <3> HIDE DEF none, l, bytesOf
    <3>2. Cat(Word(m, none), Word(l, v)) = Word(size, v)
      BY <1>2, <2>1, <2>2, <3>1, WordsJoined
    <3> QED BY <2>4, <2>5, <3>1, <3>2
  <2>7. BitsOf(r) = Zeros(size - 8 * Len(seq)) \o BitsOf([bytes |-> seq])
    BY <1>2, <2>6 DEF Cat, m, bytesOf
  <2>8. seq = IF arg.order = "big" THEN arg.bytes
              ELSE [k \in DOMAIN arg.bytes |-> arg.bytes[Len(arg.bytes) + 1 - k]]
    BY <1>3 DEF seq, Ordered
  <2>9. arg.size >= 8 * Len(seq) /\ arg.size = size
    BY <1>2, <1>3, <1>4
  <2> HIDE DEF bytesOf, l
  <2>10. Agree(a, "from_bytes", arg, r)
    BY <2>7, <2>8, <2>9 DEF Agree
  <2> QED BY <2>10 DEF arg, r
<1>5. CASE ~(size >= l)
  <2>1. r = ValueError
    BY <1>2, <1>5
  <2>2. seq = IF arg.order = "big" THEN arg.bytes
              ELSE [k \in DOMAIN arg.bytes |-> arg.bytes[Len(arg.bytes) + 1 - k]]
    BY <1>3 DEF Ordered
  <2>3. ~(arg.size >= 8 * Len(seq))
    BY <1>2, <1>3, <1>5
  <2> HIDE DEF arg, r, seq, len
  <2>4. Agree(a, "from_bytes", arg, r)
    BY <2>1, <2>2, <2>3 DEF Agree
  <2> QED BY <2>4 DEF arg, r
<1> QED BY <1>4, <1>5

-----------------------------------------------------------------------------
(* The script *)

\* What the script holds, and what a call gave it if it is taken for a vector,
\* has no more bits than its size says.
InRange == reg \in Vec /\ (last # NoCall => Proper(last.result))

Inv == InRange /\ ArithmeticModular /\ VectorsAsBits

\* A call that gives a proper result, and the right one.
LEMMA Called ==
  ASSUME reg \in Vec, NEW op, NEW arg, NEW r, Outcome(op, arg, r),
         Proper(r), Modular(reg, op, arg, r), Agree(reg, op, arg, r)
  PROVE  Inv'
<1>1. /\ reg' = reg /\ last'.op = op /\ last'.arg = arg /\ last'.result = r
  BY DEF Outcome
<1>2. InRange'
  BY <1>1 DEF InRange
<1>3. ArithmeticModular'
  BY <1>1 DEF ArithmeticModular
<1>4. VectorsAsBits'
  BY <1>1 DEF VectorsAsBits
<1> QED BY <1>2, <1>3, <1>4 DEF Inv

\* Operations that are no arithmetic.
Structural == {"zero", "invert", "msb", "lsb", "popcount", "bytes", "getitem", "widen", "split",
               "lshift", "rshift", "concat", "eq", "&", "|", "^", "getslice", "with_bit",
               "with_bits", "join", "from_bytes"}

LEMMA NoArithmetic ==
  ASSUME NEW a, NEW op \in Structural, NEW arg, NEW r
  PROVE  Modular(a, op, arg, r)
BY DEF Modular, Structural

LEMMA StructuralCall ==
  ASSUME reg \in Vec, NEW op \in Structural, NEW arg, NEW r, Outcome(op, arg, r), Proper(r),
         Agree(reg, op, arg, r)
  PROVE  Inv'
BY NoArithmetic, Called

\* Operations that are arithmetic.
Arithmetic == {"+", "-", "*", "+int", "-int", "int-", "*int", "&int", "|int", "^int",
               "to_signed_int", "from_signed_int"}

LEMMA NoBits ==
  ASSUME NEW a, NEW op \in Arithmetic, NEW arg, NEW r
  PROVE  Agree(a, op, arg, r)
BY DEF Agree, Arithmetic

LEMMA ArithmeticCall ==
  ASSUME reg \in Vec, NEW op \in Arithmetic, NEW arg, NEW r, Outcome(op, arg, r), Proper(r),
         Modular(reg, op, arg, r)
  PROVE  Inv'
BY NoBits, Called

LEMMA UnaryStep ==
  ASSUME reg \in Vec, Unary
  PROVE  Inv'
<1> USE DEF Structural, Arithmetic
<1>0. reg.size \in Nat
  BY Vector
<1>1. CASE Outcome("zero", 0, zero(reg))
  <2>1. Proper(zero(reg))
    BY <1>0, Result, Answers DEF zero
  <2> QED BY <1>1, <2>1, ZeroAgrees, StructuralCall
<1>2. CASE Outcome("invert", 0, invert(reg))
  <2>1. Proper(invert(reg))
    BY Inverted, Answers
  <2> QED BY <1>2, <2>1, InvertAgrees, StructuralCall
<1>3. CASE Outcome("msb", 0, msb(reg))
  <2>1. Proper(msb(reg))
    BY Answers DEF msb, getitem
  <2> QED BY <1>3, <2>1, EndsAgree, StructuralCall
<1>4. CASE Outcome("lsb", 0, lsb(reg))
  <2>1. Proper(lsb(reg))
    BY Answers DEF lsb, getitem
  <2> QED BY <1>4, <2>1, EndsAgree, StructuralCall
<1>5. CASE Outcome("to_signed_int", 0, to_signed_int(reg))
  BY <1>5, Signs, ArithmeticCall
<1>6. CASE Outcome("popcount", 0, popcount(reg))
  <2>1. Proper(popcount(reg))
    BY Answers DEF popcount
  <2> QED BY <1>6, <2>1, PopcountAgrees, StructuralCall
<1>7. CASE Outcome("bytes", 0, [bytes |-> bytes(reg)])
  <2>1. Proper([bytes |-> bytes(reg)])
    BY Answers
  <2> QED BY <1>7, <2>1, BytesAgree, StructuralCall
<1> QED BY <1>1, <1>2, <1>3, <1>4, <1>5, <1>6, <1>7 DEF Unary

LEMMA WithIntStep ==
  ASSUME reg \in Vec, WithInt
  PROVE  Inv'
<1> USE DEF Structural, Arithmetic
<1>0. PICK i \in Int :
        \/ Outcome("getitem", i, getitem(reg, i)) \/ Outcome("widen", i, widen(reg, i))
        \/ Outcome("split", i, split(reg, i)) \/ Outcome("lshift", i, lshift(reg, i))
        \/ Outcome("rshift", i, rshift(reg, i)) \/ Outcome("+int", i, AddInt(reg, i))
        \/ Outcome("-int", i, SubInt(reg, i)) \/ Outcome("int-", i, RSubInt(reg, i))
        \/ Outcome("*int", i, MulInt(reg, i)) \/ Outcome("&int", i, AndInt(reg, i))
        \/ Outcome("|int", i, OrInt(reg, i)) \/ Outcome("^int", i, XorInt(reg, i))
  BY VectorScriptAssumption DEF WithInt
<1>1. CASE Outcome("getitem", i, getitem(reg, i))
  <2>1. Proper(getitem(reg, i))
    BY Answers DEF getitem
  <2> QED BY <1>1, <2>1, GetItemAgrees, StructuralCall
<1>2. CASE Outcome("widen", i, widen(reg, i))
  <2>1. Proper(widen(reg, i))
    <3>1. CASE i < 0
      BY <3>1, Answers DEF widen
    <3>2. CASE ~(i < 0)
      BY <3>2, Widened, Answers
    <3> QED BY <3>1, <3>2
  <2> QED BY <1>2, <2>1, WidenAgrees, StructuralCall
<1>3. CASE Outcome("split", i, split(reg, i))
  <2>1. Proper(split(reg, i))
    BY Answers DEF split
  <2> QED BY <1>3, <2>1, SplitAgrees, StructuralCall
<1>4. CASE Outcome("lshift", i, lshift(reg, i))
  <2>1. Proper(lshift(reg, i))
    <3>1. CASE i < 0
      BY <3>1, Answers DEF lshift
    <3>2. CASE ~(i < 0)
      BY <3>2, ShiftedLeft, Answers
    <3> QED BY <3>1, <3>2
  <2> QED BY <1>4, <2>1, LeftShiftAgrees, StructuralCall
<1>5. CASE Outcome("rshift", i, rshift(reg, i))
  <2>1. Proper(rshift(reg, i))
    <3>1. CASE i < 0
      BY <3>1, Answers DEF rshift
    <3>2. CASE ~(i < 0)
      BY <3>2, ShiftedRight, Answers
    <3> QED BY <3>1, <3>2
  <2> QED BY <1>5, <2>1, RightShiftAgrees, StructuralCall
<1>6. CASE Outcome("+int", i, AddInt(reg, i))
  BY <1>6, IntegerSum, Answers, ArithmeticCall
<1>7. CASE Outcome("-int", i, SubInt(reg, i))
  BY <1>7, IntegerDifferences, Answers, ArithmeticCall
<1>8. CASE Outcome("int-", i, RSubInt(reg, i))
  BY <1>8, IntegerDifferences, Answers, ArithmeticCall
<1>9. CASE Outcome("*int", i, MulInt(reg, i))
  BY <1>9, IntegerProduct, Answers, ArithmeticCall
<1>10. CASE Outcome("&int", i, AndInt(reg, i))
  BY <1>10, IntegerBits, BitwiseAnswers, Answers, ArithmeticCall
<1>11. CASE Outcome("|int", i, OrInt(reg, i))
  BY <1>11, IntegerBits, BitwiseAnswers, Answers, ArithmeticCall
<1>12. CASE Outcome("^int", i, XorInt(reg, i))
  BY <1>12, IntegerBits, BitwiseAnswers, Answers, ArithmeticCall
<1> QED BY <1>0, <1>1, <1>2, <1>3, <1>4, <1>5, <1>6, <1>7, <1>8, <1>9, <1>10, <1>11, <1>12

LEMMA WithVectorStep ==
  ASSUME reg \in Vec, WithVector
  PROVE  Inv'
<1> USE DEF Structural, Arithmetic
<1>0. PICK b \in Vec :
        \/ Outcome("concat", b, concat(reg, b)) \/ Outcome("eq", b, eq(reg, b))
        \/ Outcome("+", b, Add(reg, b)) \/ Outcome("-", b, Sub(reg, b))
        \/ Outcome("*", b, Mul(reg, b)) \/ Outcome("&", b, bvAnd(reg, b))
        \/ Outcome("|", b, bvOr(reg, b)) \/ Outcome("^", b, bvXor(reg, b))
  BY VectorScriptAssumption, VectorsAreVec DEF WithVector
<1>1. CASE Outcome("concat", b, concat(reg, b))
  <2>1. Proper(concat(reg, b))
    BY Concatenated, Answers
  <2> QED BY <1>1, <2>1, ConcatAgrees, StructuralCall
<1>2. CASE Outcome("eq", b, eq(reg, b))
  <2>1. Proper(eq(reg, b))
    BY Answers DEF eq
  <2> QED BY <1>2, <2>1, EqAgrees, StructuralCall
<1>3. CASE Outcome("+", b, Add(reg, b))
  BY <1>3, Sums, Answers, ArithmeticCall
<1>4. CASE Outcome("-", b, Sub(reg, b))
  BY <1>4, Differences, Answers, ArithmeticCall
<1>5. CASE Outcome("*", b, Mul(reg, b))
  BY <1>5, Sums, Answers, ArithmeticCall
<1>6. CASE Outcome("&", b, bvAnd(reg, b))
  <2>1. Proper(bvAnd(reg, b))
    BY BitwiseAnswers, Answers
  <2> QED BY <1>6, <2>1, BitwiseAgree, StructuralCall
<1>7. CASE Outcome("|", b, bvOr(reg, b))
  <2>1. Proper(bvOr(reg, b))
    BY BitwiseAnswers, Answers
  <2> QED BY <1>7, <2>1, BitwiseAgree, StructuralCall
<1>8. CASE Outcome("^", b, bvXor(reg, b))
  <2>1. Proper(bvXor(reg, b))
    BY BitwiseAnswers, Answers
  <2> QED BY <1>8, <2>1, BitwiseAgree, StructuralCall
<1> QED BY <1>0, <1>1, <1>2, <1>3, <1>4, <1>5, <1>6, <1>7, <1>8

LEMMA WithPlacesStep ==
  ASSUME reg \in Vec, WithPlaces
  PROVE  Inv'
<1> USE DEF Structural, Arithmetic
<1>0. Places \subseteq Int
  BY VectorScriptAssumption DEF Places
<1>1. ASSUME NEW high \in Places, NEW low \in Places,
             Outcome("getslice", [high |-> high, low |-> low], getslice(reg, high, low))
      PROVE  Inv'
  <2>1. high \in Int /\ low \in Int /\ reg.size \in Nat
    BY <1>0, Vector
  <2>2. Proper(getslice(reg, high, low))
    <3>1. CASE low > high \/ high > reg.size \/ low < 0
      BY <3>1, Answers DEF getslice
    <3>2. CASE ~(low > high \/ high > reg.size \/ low < 0)
      <4>1. 0 <= low /\ low <= high /\ high <= reg.size
        BY <2>1, <3>2
      <4>2. getslice(reg, high, low) \in Vec
        BY <2>1, <4>1, Sliced
      <4> QED BY <4>2, Answers
    <3> QED BY <3>1, <3>2
  <2>3. Agree(reg, "getslice", [high |-> high, low |-> low], getslice(reg, high, low))
    BY <2>1, SliceAgrees
  <2> DEFINE arg == [high |-> high, low |-> low]
             r == getslice(reg, high, low)
  <2>4. Outcome("getslice", arg, r) /\ Proper(r) /\ Agree(reg, "getslice", arg, r)
    BY <1>1, <2>2, <2>3
  <2> HIDE DEF arg, r
  <2> QED BY <2>4, StructuralCall
<1>2. ASSUME NEW i \in Places, NEW b \in BOOLEAN,
             Outcome("with_bit", [index |-> i, bit |-> b], with_bit(reg, i, b))
      PROVE  Inv'
  <2>1. Proper(with_bit(reg, i, b))
    BY <1>0, BitReplaced, Answers
  <2>2. Agree(reg, "with_bit", [index |-> i, bit |-> b], with_bit(reg, i, b))
    BY <1>0, WithBitAgrees
  <2> DEFINE arg == [index |-> i, bit |-> b]
             r == with_bit(reg, i, b)
  <2>3. Outcome("with_bit", arg, r) /\ Proper(r) /\ Agree(reg, "with_bit", arg, r)
    BY <1>2, <2>1, <2>2
  <2> HIDE DEF arg, r
  <2> QED BY <2>3, StructuralCall
<1>3. ASSUME NEW low \in Places, NEW b \in Vectors(MaxSize),
             Outcome("with_bits", [low |-> low, bits |-> b], with_bits(reg, low, b))
      PROVE  Inv'
  <2>1. b \in Vec
    BY VectorScriptAssumption, VectorsAreVec
  <2>2. Proper(with_bits(reg, low, b))
    BY <1>0, <2>1, BitsReplaced, Answers
  <2>3. Agree(reg, "with_bits", [low |-> low, bits |-> b], with_bits(reg, low, b))
    BY <1>0, <2>1, WithBitsAgrees
  <2> DEFINE arg == [low |-> low, bits |-> b]
             r == with_bits(reg, low, b)
  <2>4. Outcome("with_bits", arg, r) /\ Proper(r) /\ Agree(reg, "with_bits", arg, r)
    BY <1>3, <2>2, <2>3
  <2> HIDE DEF arg, r
  <2> QED BY <2>4, StructuralCall
<1> QED BY <1>1, <1>2, <1>3 DEF WithPlaces

LEMMA MakeStep ==
  ASSUME reg \in Vec, Make
  PROVE  Inv'
<1> USE DEF Structural, Arithmetic
<1>1. ASSUME NEW bs \in Vectors(2) \X Vectors(1) \X Vectors(2), Outcome("join", bs, join(bs))
      PROVE  Inv'
  <2>1. bs \in Seq(Vec) /\ Agree(reg, "join", bs, join(bs))
    <3>1. Vectors(1) \subseteq Vec /\ Vectors(2) \subseteq Vec
      BY VectorsAreVec
    <3>2. bs = <<bs[1], bs[2], bs[3]>> /\ bs[1] \in Vec /\ bs[2] \in Vec /\ bs[3] \in Vec
      BY <3>1
    <3>3. <<bs[1], bs[2], bs[3]>> \in Seq(Vec)
      BY <3>2
    <3>4. Agree(reg, "join", <<bs[1], bs[2], bs[3]>>, join(<<bs[1], bs[2], bs[3]>>))
      BY <3>2, JoinAgrees
    <3> QED BY <3>2, <3>3, <3>4
  <2>2. Proper(join(bs))
    BY <2>1, Joining, Answers
  <2> QED BY <1>1, <2>1, <2>2, StructuralCall
<1>2. ASSUME NEW n \in 0 .. MaxSize, NEW v \in Ints,
             Outcome("from_signed_int", [size |-> n, value |-> v], from_signed_int(n, v))
      PROVE  Inv'
  <2>1. n \in Nat /\ v \in Int
    BY VectorScriptAssumption
  <2>2. /\ Modular(reg, "from_signed_int", [size |-> n, value |-> v], from_signed_int(n, v))
        /\ Proper(from_signed_int(n, v))
    BY <2>1, Signs, Answers
  <2> QED BY <1>2, <2>2, ArithmeticCall
<1>3. ASSUME NEW bs \in ByteStrings, NEW n \in {0, 7, 8, 9, 16, 17}, NEW order \in {"big", "little"},
             Outcome("from_bytes", [bytes |-> bs, size |-> n, order |-> order],
                     from_bytes(bs, n, order))
      PROVE  Inv'
  <2>1. bs \in Seq(0 .. 255) /\ n \in Nat
    BY VectorScriptAssumption
  <2>2. Proper(from_bytes(bs, n, order))
    BY <2>1, FromBytes, Answers
  <2>3. Agree(reg, "from_bytes", [bytes |-> bs, size |-> n, order |-> order], from_bytes(bs, n, order))
    BY <2>1, FromBytesAgrees
  <2> DEFINE arg == [bytes |-> bs, size |-> n, order |-> order]
             r == from_bytes(bs, n, order)
  <2>4. Outcome("from_bytes", arg, r) /\ Proper(r) /\ Agree(reg, "from_bytes", arg, r)
    BY <1>3, <2>2, <2>3
  <2> HIDE DEF arg, r
  <2> QED BY <2>4, StructuralCall
<1> QED BY <1>1, <1>2, <1>3 DEF Make

LEMMA VectorInit ==
  ASSUME Init
  PROVE  Inv
<1>1. reg \in Vec
  BY Made, Powers DEF Init
<1> QED BY <1>1 DEF Init, Inv, InRange, ArithmeticModular, VectorsAsBits

LEMMA VectorStep ==
  ASSUME Inv, [VectorNext]_vars
  PROVE  Inv'
<1>1. reg \in Vec
  BY DEF Inv, InRange
<1>2. CASE GoOn
  <2>1. last' = NoCall /\ (reg' = reg \/ (reg' = last.result /\ DOMAIN last.result = {"size", "value"}))
    BY <1>2 DEF GoOn
  <2>2. last # NoCall
    BY <1>2 DEF GoOn
  <2>3. reg' \in Vec
    BY <1>1, <2>1, <2>2 DEF Inv, InRange, Proper
  <2> QED BY <2>1, <2>3 DEF Inv, InRange, ArithmeticModular, VectorsAsBits
<1>3. CASE UNCHANGED vars
  BY <1>3 DEF vars, Inv, InRange, ArithmeticModular, VectorsAsBits
<1> QED BY <1>1, <1>2, <1>3, UnaryStep, WithIntStep, WithVectorStep, WithPlacesStep, MakeStep
        DEF VectorNext

\* A vector never holds a value of more bits than its size says, after any
\* methods in any order: what BV's constructor checks is never found broken
\* by a method that got past it.
THEOREM VectorsInRange == VectorSpec => []InRange
<1>1. Inv => InRange
  BY DEF Inv
<1> QED BY <1>1, VectorInit, VectorStep, PTL DEF VectorSpec

\* Sums, differences and products of vectors are those of the values modulo
\* 2 ^^ size, whether they are reduced only when they have more bits (+, *) or
\* computed between signed values (-); an integer operand that fits acts as
\* the vector of that value, and one that does not is refused or reduced.
THEOREM VectorArithmetic == VectorSpec => []ArithmeticModular
<1>1. Inv => ArithmeticModular
  BY DEF Inv
<1> QED BY <1>1, VectorInit, VectorStep, PTL DEF VectorSpec

\* Every method gives the bits that Cryptol's operation of that meaning gives,
\* at every size: with a size of zero, with a size that is no multiple of 8, at
\* the ends of a vector, for both orders of bytes; and it refuses every argument
\* that its description does not allow.  The methods compute on numbers, with
\* masks and shifts, and the operations are stated on sequences of bits.
THEOREM VectorBits == VectorSpec => []VectorsAsBits
<1>1. Inv => VectorsAsBits
  BY DEF Inv
<1> QED BY <1>1, VectorInit, VectorStep, PTL DEF VectorSpec

-----------------------------------------------------------------------------
(* Digits *)

\* Digits of w bits each.
IsText(ds, len, w) == Len(ds) = len /\ \A k \in 1 .. len : ds[k] \in 0 .. Pow2[w] - 1

LEMMA Monotone ==
  ASSUME NEW m \in Nat, NEW n \in Nat, m <= n
  PROVE  Pow2[m] <= Pow2[n]
<1> DEFINE d == n - m
           p == Pow2[m]
           h == Pow2[d]
<1>1. d \in Nat /\ m + d = n
  OBVIOUS
<1>2. Pow2[n] = p * h /\ p \in Nat \ {0} /\ h \in Nat \ {0}
  <2> HIDE DEF d
  <2> QED BY <1>1, PowerOfSum, Powers
<1> HIDE DEF p, h
<1>3. p * h = p + p * (h - 1) /\ p * (h - 1) >= 0
  BY <1>2
<1> QED BY <1>2, <1>3 DEF p

\* The weight of a digit: what the digits up to it and those after it add.
LEMMA Weights ==
  ASSUME NEW w \in Nat, NEW len \in Nat, NEW k \in 1 .. len
  PROVE  /\ w * (len - k) \in Nat /\ w * (len - (k - 1)) \in Nat
         /\ Pow2[w * (len - (k - 1))] = Pow2[w * (len - k)] * Pow2[w]
<1> DEFINE m == w * (len - k)
<1>1. w * (len - (k - 1)) = m + w
  BY DEF m
<1>2. m \in Nat
  <2> DEFINE d == len - k
  <2>1. d \in Nat
    OBVIOUS
  <2> HIDE DEF d
  <2>2. w * d \in Nat
    BY <2>1
  <2> QED BY <2>2 DEF d
<1> HIDE DEF m
<1>3. Pow2[m + w] = Pow2[m] * Pow2[w]
  BY <1>2, PowerOfSum
<1> QED BY <1>1, <1>2, <1>3 DEF m

\* The partial sums of Number.
IsSums(f, ds, len, w) ==
    /\ f \in [0 .. len -> Int] /\ f[0] = 0
    /\ \A k \in 1 .. len : f[k] = f[k - 1] + ds[k] * Pow2[w * (len - k)]

LEMMA NumberSums ==
  ASSUME NEW w \in Nat, NEW len \in Nat, NEW ds, IsText(ds, len, w)
  PROVE  \E f : IsSums(f, ds, len, w) /\ Number(ds, w) = f[len]
<1> DEFINE term == [k \in 1 .. len |-> ds[k] * Pow2[w * (len - k)]]
<1>1. len = Len(ds) /\ \A k \in 1 .. len : ds[k] \in 0 .. Pow2[w] - 1
  BY DEF IsText
<1>2. ASSUME NEW k \in 1 .. len PROVE ds[k] * Pow2[w * (len - k)] \in Int
  <2> DEFINE m == w * (len - k)
             p == Pow2[m]
             d == ds[k]
  <2>1. m \in Nat
    BY Weights
  <2>2. p \in Int
    <3> HIDE DEF m
    <3> QED BY <2>1, Powers
  <2>3. d \in Int
    <3> DEFINE h == Pow2[w]
    <3>1. h \in Int /\ d \in 0 .. h - 1
      BY <1>1, Powers
    <3> HIDE DEF h, d
    <3> QED BY <3>1
  <2> HIDE DEF p, d
  <2>4. d * p \in Int
    BY <2>2, <2>3
  <2> QED BY <2>4 DEF d, p, m
<1>3. term \in [1 .. len -> Int]
  BY <1>2
<1>4. Number(ds, w) = Total(len, term)
  BY <1>1 DEF Number
<1>5. \A k \in 1 .. len : term[k] = ds[k] * Pow2[w * (len - k)]
  OBVIOUS
<1> HIDE DEF term
<1>6. PICK f \in [0 .. len -> Int] : /\ f[0] = 0 /\ Total(len, term) = f[len]
                                    /\ \A k \in 1 .. len : f[k] = f[k - 1] + term[k]
  BY <1>3, Totals
<1>7. IsSums(f, ds, len, w)
  BY <1>5, <1>6 DEF IsSums
<1> QED BY <1>4, <1>6, <1>7

\* Induction over the places of a text.
LEMMA PlaceInduction ==
  ASSUME NEW len \in Nat, NEW S, 0 \in S, \A k \in 1 .. len : k - 1 \in S => k \in S
  PROVE  len \in S
<1> DEFINE Good == {n \in Nat : n <= len => n \in S}
<1>1. 0 \in Good
  OBVIOUS
<1>2. ASSUME NEW n \in Nat, n \in Good PROVE n + 1 \in Good
  <2>1. CASE n + 1 <= len
    <3>1. n + 1 \in 1 .. len /\ (n + 1) - 1 = n /\ n \in S
      BY <1>2, <2>1
    <3>2. n + 1 \in S
      BY <3>1
    <3> QED BY <3>2
  <2> QED BY <2>1
<1>3. Good = Nat
  <2>1. Good \in SUBSET Nat
    OBVIOUS
  <2> HIDE DEF Good
  <2> QED BY <1>1, <1>2, <2>1, SetInduction
<1> QED BY <1>3

\* A text of len digits is a number of w * len bits.
LEMMA NumberBounds ==
  ASSUME NEW w \in Nat, NEW len \in Nat, NEW ds, IsText(ds, len, w)
  PROVE  w * len \in Nat /\ Number(ds, w) \in 0 .. Pow2[w * len] - 1
<1>1. PICK f : IsSums(f, ds, len, w) /\ Number(ds, w) = f[len]
  BY NumberSums
<1>2. /\ f \in [0 .. len -> Int] /\ f[0] = 0
      /\ \A k \in 1 .. len : f[k] = f[k - 1] + ds[k] * Pow2[w * (len - k)]
  BY <1>1 DEF IsSums
<1>3. \A k \in 1 .. len : ds[k] \in 0 .. Pow2[w] - 1
  BY DEF IsText
<1> DEFINE l == w * len
           top == Pow2[l]
<1>4. l \in Nat /\ top \in Nat \ {0}
  <2>1. l \in Nat
    OBVIOUS
  <2> HIDE DEF l
  <2> QED BY <2>1, Powers
<1> DEFINE S == {k \in 0 .. len : f[k] \in 0 .. top - Pow2[w * (len - k)]}
<1>5. 0 \in S
  <2>1. w * (len - 0) = l
    OBVIOUS
  <2> HIDE DEF top
  <2>2. Pow2[w * (len - 0)] = top
    BY <2>1 DEF top
  <2> QED BY <1>2, <1>4, <2>2
<1>6. ASSUME NEW k \in 1 .. len, k - 1 \in S PROVE k \in S
  <2> DEFINE p == Pow2[w * (len - k)]
             h == Pow2[w]
             d == ds[k]
             x == f[k - 1]
             y == f[k]
  <2>1. y = x + d * p /\ d \in 0 .. h - 1 /\ x \in Int
    <3>1. k - 1 \in 0 .. len
      OBVIOUS
    <3> QED BY <1>2, <1>3, <3>1
  <2>2. /\ w * (len - k) \in Nat /\ Pow2[w * (len - (k - 1))] = p * h
    BY Weights
  <2>3. p \in Nat \ {0} /\ h \in Nat \ {0}
    BY <2>2, Powers
  <2>4. x \in 0 .. top - p * h
    <3> HIDE DEF top
    <3> QED BY <1>6, <2>2
  <2> HIDE DEF p, h, d, x, y, top
  <2>5. d * p >= 0 /\ d * p <= p * h - p
    <3>1. h - 1 - d \in Nat /\ d \in Nat
      BY <2>1, <2>3
    <3>2. p * (h - 1 - d) >= 0 /\ p * (h - 1 - d) = p * h - p - d * p /\ d * p >= 0
      BY <2>3, <3>1
    <3> QED BY <2>3, <3>1, <3>2
  <2>6. y \in 0 .. top - p
    <3> DEFINE dp == d * p
               ph == p * h
    <3>1. dp \in Int /\ ph \in Int
      BY <2>1, <2>3
    <3>2. y = x + dp /\ dp >= 0 /\ dp <= ph - p /\ x \in 0 .. top - ph
      BY <2>1, <2>4, <2>5
    <3> HIDE DEF dp, ph
    <3> QED BY <1>4, <2>1, <2>3, <3>1, <3>2
  <2> QED BY <2>6 DEF p, y
<1>7. len \in S
  <2> HIDE DEF S
  <2> QED BY <1>5, <1>6, PlaceInduction
<1>8. f[len] \in 0 .. top - 1
  <2>1. w * (len - len) = 0 /\ Pow2[0] = 1
    BY Powers
  <2>2. Pow2[w * (len - len)] = 1
    BY <2>1
  <2> HIDE DEF top
  <2> QED BY <1>7, <2>2
<1> QED BY <1>1, <1>4, <1>8

LEMMA EachDigit ==
  ASSUME NEW w, NEW len, NEW v
  PROVE  Digits(v, w, len) = [k \in 1 .. len |-> (v \div Pow2[w * (len - k)]) % Pow2[w]]
BY DEF Digits, LowBits, ShiftRight

\* What Digits writes is a text.
LEMMA DigitsAreText ==
  ASSUME NEW w \in Nat, NEW len \in Nat, NEW v \in Int
  PROVE  IsText(Digits(v, w, len), len, w)
<1> DEFINE ds == Digits(v, w, len)
<1>1. ds = [k \in 1 .. len |-> (v \div Pow2[w * (len - k)]) % Pow2[w]]
  BY EachDigit
<1>2. ASSUME NEW k \in 1 .. len PROVE ds[k] \in 0 .. Pow2[w] - 1
  <2> DEFINE m == w * (len - k)
             p == Pow2[m]
             h == Pow2[w]
             q == v \div p
  <2>1. m \in Nat
    BY Weights
  <2>2. p \in Nat \ {0} /\ h \in Nat \ {0}
    <3> HIDE DEF m
    <3> QED BY <2>1, Powers
  <2>3. ds[k] = q % h
    BY <1>1
  <2> HIDE DEF p, h
  <2>4. q \in Int
    BY <2>2, Remainder
  <2> HIDE DEF q, ds
  <2>5. q % h \in 0 .. h - 1
    BY <2>2, <2>4, Remainder
  <2> QED BY <2>3, <2>5 DEF h
<1>3. Len(ds) = len
  <2>1. ds \in [1 .. len -> Int]
    <3>1. \A k \in 1 .. len : ds[k] \in Int
      <4> DEFINE h == Pow2[w]
      <4>1. h \in Int /\ \A k \in 1 .. len : ds[k] \in 0 .. h - 1
        BY <1>2, Powers
      <4> HIDE DEF h, ds
      <4> QED BY <4>1
    <3> QED BY <1>1, <3>1
  <2>2. ds \in Seq(Int)
    BY <2>1, SeqDef
  <2> QED BY <2>1, <2>2, LenProperties
<1> QED BY <1>2, <1>3 DEF IsText

\* A number that has no more than these digits is read as it was written.
LEMMA NumberOfDigits ==
  ASSUME NEW w \in Nat, NEW len \in Nat, NEW v \in 0 .. Pow2[w * len] - 1
  PROVE  Number(Digits(v, w, len), w) = v
<1> DEFINE ds == Digits(v, w, len)
<1>0. v \in Int
  <2> DEFINE l == w * len
             top == Pow2[l]
  <2>1. l \in Nat
    OBVIOUS
  <2> HIDE DEF l
  <2>2. top \in Int
    BY <2>1, Powers
  <2>3. v \in 0 .. top - 1
    BY DEF l
  <2> HIDE DEF top
  <2> QED BY <2>2, <2>3
<1>1. IsText(ds, len, w)
  BY <1>0, DigitsAreText
<1>8. ds = [k \in 1 .. len |-> (v \div Pow2[w * (len - k)]) % Pow2[w]]
  BY EachDigit
<1> HIDE DEF ds
<1>2. PICK f : IsSums(f, ds, len, w) /\ Number(ds, w) = f[len]
  BY <1>1, NumberSums
<1>3. /\ f \in [0 .. len -> Int] /\ f[0] = 0
      /\ \A k \in 1 .. len : f[k] = f[k - 1] + ds[k] * Pow2[w * (len - k)]
  BY <1>2 DEF IsSums
<1> DEFINE S == {k \in 0 .. len : f[k] = Pow2[w * (len - k)] * (v \div Pow2[w * (len - k)])}
<1>4. 0 \in S
  <2> DEFINE l == w * len
             top == Pow2[l]
             q == v \div top
  <2>1. w * (len - 0) = l /\ l \in Nat
    OBVIOUS
  <2>2. v \in 0 .. top - 1
    OBVIOUS
  <2>3. top \in Nat \ {0}
    <3> HIDE DEF l
    <3> QED BY <2>1, Powers
  <2>5. Pow2[w * (len - 0)] = top
    BY <2>1
  <2> HIDE DEF top
  <2>4. q = 0
    BY <2>2, <2>3, SmallRemainder
  <2> HIDE DEF q
  <2>6. top * q = 0
    BY <2>3, <2>4
  <2> QED BY <1>3, <2>5, <2>6 DEF q
<1>5. ASSUME NEW k \in 1 .. len, k - 1 \in S PROVE k \in S
  <2> DEFINE m == w * (len - k)
             n == w * (len - (k - 1))
             p == Pow2[m]
             h == Pow2[w]
             q == v \div p
             d == q % h
  <2>1. m \in Nat /\ Pow2[n] = p * h /\ n = m + w
    <3>1. n = m + w
      OBVIOUS
    <3> HIDE DEF m, n
    <3> QED BY <3>1, Weights DEF m, n
  <2>2. p \in Nat \ {0} /\ h \in Nat \ {0}
    <3> HIDE DEF m
    <3> QED BY <2>1, Powers
  <2>3. v \div Pow2[n] = q \div h
    <3>1. (v \div Pow2[m]) \div Pow2[w] = v \div Pow2[m + w]
      <4> HIDE DEF m
      <4> QED BY <1>0, <2>1, QuotientOfQuotient
    <3> QED BY <2>1, <3>1
  <2>4. f[k - 1] = Pow2[n] * (v \div Pow2[n])
    <3> HIDE DEF n
    <3> QED BY <1>5 DEF n
  <2>5. f[k] = f[k - 1] + d * p
    BY <1>3, <1>8
  <2> DEFINE x == f[k - 1]
             y == f[k]
             t == q \div h
  <2>6. x = (p * h) * t /\ y = x + d * p
    <3> HIDE DEF n, p, h, q, d
    <3> QED BY <2>1, <2>3, <2>4, <2>5
  <2>7. q \in Int
    <3> HIDE DEF p
    <3> QED BY <1>0, <2>2, Remainder
  <2> HIDE DEF x, y, p, h, q
  <2>8. q = h * t + d /\ t \in Int /\ d \in Int
    BY <2>2, <2>7, Remainder
  <2> HIDE DEF t, d
  <2>9. y = p * q
    <3>1. p * (h * t + d) = (p * h) * t + d * p
      BY <2>2, <2>8
    <3> QED BY <2>6, <2>8, <3>1
  <2>10. k \in 0 .. len
    OBVIOUS
  <2> QED BY <2>9, <2>10 DEF y, p, q, m
<1>6. len \in S
  <2> HIDE DEF S
  <2> QED BY <1>4, <1>5, PlaceInduction
<1>7. f[len] = v
  <2> DEFINE e == 1
             m == w * (len - len)
  <2>1. m = 0 /\ Pow2[0] = e
    BY Powers
  <2>2. f[len] = Pow2[m] * (v \div Pow2[m])
    BY <1>6
  <2>3. e \in Nat \ {0} /\ v = e * v + 0 /\ 0 \in 0 .. e - 1
    BY <1>0
  <2> HIDE DEF e, m
  <2>4. v \div e = v
    BY <1>0, <2>3, RemainderUnique
  <2> QED BY <1>0, <2>1, <2>2, <2>3, <2>4
<1> QED BY <1>2, <1>7 DEF ds

LEMMA PowerAbove ==
  ASSUME NEW w \in Nat \ {0}
  PROVE  \A n \in Nat : w * n \in Nat /\ n < Pow2[w * n]
<1> DEFINE Good == {n \in Nat : n < Pow2[w * n]}
<1>1. 0 \in Good
  <2>1. w * 0 = 0 /\ Pow2[0] = 1
    BY Powers
  <2>2. Pow2[w * 0] = 1
    BY <2>1
  <2> QED BY <2>2
<1>2. ASSUME NEW n \in Nat, n \in Good PROVE n + 1 \in Good
  <2> DEFINE m == w * n
             p == Pow2[m]
             h == Pow2[w]
  <2>1. w * (n + 1) = m + w /\ m \in Nat
    OBVIOUS
  <2>2. n < p
    BY <1>2
  <2>3. Pow2[m + w] = p * h /\ p \in Nat \ {0}
    <3> HIDE DEF m
    <3> QED BY <2>1, PowerOfSum, Powers
  <2>4. h \in Nat /\ h >= 2
    <3> DEFINE d == w - 1
    <3>1. d \in Nat /\ d + 1 = w
      OBVIOUS
    <3>2. Pow2[d + 1] = 2 * Pow2[d] /\ Pow2[d] \in Nat \ {0}
      <4> HIDE DEF d
      <4> QED BY <3>1, Powers
    <3> QED BY <3>1, <3>2
  <2>5. Pow2[w * (n + 1)] = p * h
    BY <2>1, <2>3
  <2> HIDE DEF p, h
  <2>6. p * h = 2 * p + p * (h - 2) /\ p * (h - 2) >= 0
    BY <2>3, <2>4
  <2>7. n + 1 < p * h
    <3> DEFINE ph == p * h
    <3>1. ph \in Int /\ ph >= 2 * p
      BY <2>3, <2>4, <2>6
    <3> HIDE DEF ph
    <3>2. n + 1 < ph
      BY <2>2, <2>3, <3>1
    <3> QED BY <3>2 DEF ph
  <2>8. n + 1 < Pow2[w * (n + 1)]
    BY <2>5, <2>7
  <2> QED BY <2>8
<1>3. Good = Nat
  <2>1. Good \in SUBSET Nat
    OBVIOUS
  <2> HIDE DEF Good
  <2> QED BY <1>1, <1>2, <2>1, SetInduction
<1> QED BY <1>3

\* There is a least number of digits.
LEMMA CountOfDigits ==
  ASSUME NEW w \in Nat \ {0}, NEW v \in Nat
  PROVE  /\ DigitCount(v, w) \in Nat \ {0} /\ v < Pow2[w * DigitCount(v, w)]
         /\ DigitCount(v, w) = 1 \/ v >= Pow2[w * (DigitCount(v, w) - 1)]
<1> DEFINE Least(n) == v < Pow2[w * n] /\ (n = 1 \/ v >= Pow2[w * (n - 1)])
<1>1. \E n \in 1 .. v + 1 : Least(n)
  <2> SUFFICES ASSUME \A n \in 1 .. v + 1 : ~Least(n) PROVE FALSE
    OBVIOUS
  <2> DEFINE S == {n \in 0 .. v + 1 : n = 0 \/ v >= Pow2[w * n]}
  <2>1. 0 \in S
    OBVIOUS
  <2>2. ASSUME NEW k \in 1 .. v + 1, k - 1 \in S PROVE k \in S
    <3> DEFINE p == Pow2[w * k]
               q == Pow2[w * (k - 1)]
    <3>1. k - 1 = 0 \/ v >= q
      BY <2>2
    <3>2. ~(v < p /\ (k = 1 \/ v >= q))
      OBVIOUS
    <3>3. p \in Nat
      <4> DEFINE m == w * k
      <4>1. m \in Nat
        BY PowerAbove
      <4> HIDE DEF m
      <4>2. Pow2[m] \in Nat
        BY <4>1, Powers
      <4> QED BY <4>2 DEF m
    <3> HIDE DEF p, q
    <3>4. v >= p
      BY <3>1, <3>2, <3>3
    <3> QED BY <3>4 DEF p
  <2>3. v + 1 \in S
    <3>1. v + 1 \in Nat
      OBVIOUS
    <3> HIDE DEF S
    <3> QED BY <2>1, <2>2, <3>1, PlaceInduction
  <2>4. v + 1 \in Nat /\ v + 1 < Pow2[w * (v + 1)]
    <3> DEFINE n == v + 1
    <3>1. n \in Nat
      OBVIOUS
    <3> HIDE DEF n
    <3>2. n < Pow2[w * n]
      BY <3>1, PowerAbove
    <3> QED BY <3>1, <3>2 DEF n
  <2> DEFINE top == Pow2[w * (v + 1)]
  <2>5. v >= top /\ v + 1 < top
    BY <2>3, <2>4
  <2>6. top \in Nat
    <3> DEFINE m == w * (v + 1)
    <3>1. m \in Nat
      BY <2>4, PowerAbove
    <3> HIDE DEF m
    <3>2. Pow2[m] \in Nat
      BY <3>1, Powers
    <3> QED BY <3>2 DEF m
  <2> HIDE DEF top
  <2> QED BY <2>5, <2>6
<1>2. DigitCount(v, w) = CHOOSE n \in 1 .. v + 1 : Least(n)
  BY DEF DigitCount
<1>3. DigitCount(v, w) \in 1 .. v + 1 /\ Least(DigitCount(v, w))
  <2> HIDE DEF Least
  <2> QED BY <1>1, <1>2
<1> QED BY <1>3

-----------------------------------------------------------------------------
(* Vectors in transit *)

\* Enough hexadecimal digits for the number, in pairs or not.
LEMMA Hex ==
  ASSUME NEW a \in Vec
  PROVE  \E len \in Nat \ {0} : /\ PaddedHex(a.value, a.size) = Digits(a.value, 4, len)
                                /\ a.value \in 0 .. Pow2[4 * len] - 1
<1> DEFINE v == a.value
           n == DigitCount(v, 4)
           width == (a.size \div 4) + (IF a.size % 4 = 0 THEN 0 ELSE 1)
           len == IF width > n THEN width ELSE n
<1>1. v \in Nat /\ a.size \in Nat
  BY DEF Vec
<1>2. n \in Nat \ {0} /\ v < Pow2[4 * n]
  <2> DEFINE w == 4
  <2>1. w \in Nat \ {0}
    OBVIOUS
  <2> HIDE DEF w, v
  <2>2. DigitCount(v, w) \in Nat \ {0} /\ v < Pow2[w * DigitCount(v, w)]
    BY <1>1, <2>1, CountOfDigits
  <2> QED BY <2>2 DEF w
<1>3. PaddedHex(v, a.size) = Digits(v, 4, len)
  BY DEF PaddedHex
<1>4. width \in Nat
  BY <1>1
<1> HIDE DEF n, width, v
<1>5. len \in Nat \ {0} /\ n <= len
  BY <1>2, <1>4
<1> HIDE DEF len
<1>6. v < Pow2[4 * len]
  <2> DEFINE i == 4 * n
             j == 4 * len
  <2>1. i \in Nat /\ j \in Nat /\ i <= j
    BY <1>2, <1>5
  <2>2. v < Pow2[i]
    BY <1>2
  <2> HIDE DEF i, j
  <2>3. Pow2[i] <= Pow2[j] /\ Pow2[i] \in Nat /\ Pow2[j] \in Nat
    BY <2>1, Monotone, Powers
  <2>4. v < Pow2[j]
    BY <1>1, <2>2, <2>3
  <2> QED BY <2>4 DEF j
<1>7. v \in 0 .. Pow2[4 * len] - 1
  <2> DEFINE j == 4 * len
             top == Pow2[j]
  <2>1. j \in Nat
    BY <1>5
  <2>2. top \in Nat
    <3> HIDE DEF j
    <3> QED BY <2>1, Powers
  <2>3. v < top
    BY <1>6
  <2> HIDE DEF top
  <2>4. v \in 0 .. top - 1
    BY <1>1, <2>2, <2>3
  <2> QED BY <2>4 DEF top
<1> QED BY <1>3, <1>5, <1>7 DEF v

\* The number in a literal is a word if it has no more bits than the literal.
LEMMA LiteralOfNumber ==
  ASSUME NEW bits, NEW n \in Nat, NEW v \in Nat, bits.width = n, Decode(bits) = v
  PROVE  Literal(bits) = IF v < Pow2[n] THEN <<"Word", [size |-> n, value |-> v]>>
                                        ELSE Raise("CryptolError")
BY DEF Literal, Fits

LEMMA HexLiteral ==
  ASSUME NEW a \in Vec
  PROVE  Literal(BVBits(a)[2]) = <<"Word", a>>
<1> DEFINE v == a.value
           n == a.size
           bits == BVBits(a)[2]
<1>1. PICK len \in Nat \ {0} : /\ PaddedHex(v, n) = Digits(v, 4, len)
                              /\ v \in 0 .. Pow2[4 * len] - 1
  BY Hex
<1>2. bits.encoding = "hex" /\ bits.width = n /\ bits.data = PaddedHex(v, n)
  BY DEF BVBits
<1>3. n \in Nat /\ v \in Nat /\ v < Pow2[n] /\ a = [size |-> n, value |-> v]
  BY DEF Vec
<1> HIDE DEF bits, n, v
<1>4. Number(Digits(v, 4, len), 4) = v
  <2> DEFINE w == 4
  <2>1. w \in Nat /\ len \in Nat /\ v \in 0 .. Pow2[w * len] - 1
    BY <1>1
  <2> HIDE DEF w
  <2>2. Number(Digits(v, w, len), w) = v
    BY <2>1, NumberOfDigits
  <2> QED BY <2>2 DEF w
<1>5. Decode(bits) = v
  BY <1>1, <1>2, <1>4 DEF Decode
<1>6. Literal(bits) = <<"Word", [size |-> n, value |-> v]>>
  BY <1>2, <1>3, <1>5, LiteralOfNumber
<1> QED BY <1>3, <1>6 DEF bits

\* Base 64 is read as the number that was written in bytes.
LEMMA Base64Number ==
  ASSUME NEW len \in Nat, NEW bs, IsText(bs, len, 8)
  PROVE  /\ Number(bs, 8) \in 0 .. Pow2[8 * len] - 1
         /\ FromBase64(Base64(bs)) = Number(bs, 8)
<1> DEFINE fill == (3 - (len % 3)) % 3
           v == Number(bs, 8)
           count == (8 * len + 2 * fill) \div 6
           l == 8 * len
           f == 2 * fill
           text == Base64(bs)
<1>1. l \in Nat /\ v \in 0 .. Pow2[l] - 1
  <2> DEFINE w == 8
  <2>1. w \in Nat /\ IsText(bs, len, w)
    OBVIOUS
  <2> HIDE DEF w
  <2>2. w * len \in Nat /\ Number(bs, w) \in 0 .. Pow2[w * len] - 1
    BY <2>1, NumberBounds
  <2> QED BY <2>2 DEF w
<1>2. /\ text.fill = fill
      /\ text.digits = Digits(v * Pow2[f], 6, count)
  <2>1. Len(bs) = len
    BY DEF IsText
  <2> QED BY <2>1 DEF Base64
<1>3. fill \in 0 .. 2 /\ count \in Nat /\ 6 * count = l + f /\ f \in Nat
  OBVIOUS
<1> DEFINE p == Pow2[f]
           top == Pow2[l]
           u == v * p
<1>4. p \in Nat \ {0} /\ top \in Nat \ {0} /\ Pow2[l + f] = top * p
  <2> HIDE DEF l, f
  <2> QED BY <1>1, <1>3, PowerOfSum, Powers
<1>5. u \in 0 .. Pow2[6 * count] - 1
  <2>1. Pow2[6 * count] = top * p
    <3> HIDE DEF l, f, count
    <3> QED BY <1>3, <1>4
  <2> HIDE DEF p, v, top
  <2>2. v \in 0 .. top - 1
    BY <1>1 DEF top
  <2>3. v * p >= 0 /\ (top - 1 - v) * p >= 0 /\ (top - 1 - v) * p = top * p - p - v * p
    <3>1. top - 1 - v \in Nat /\ v \in Nat
      BY <1>4, <2>2
    <3>2. (top - 1 - v) * p \in Nat /\ v * p \in Nat
      BY <1>4, <3>1
    <3> QED BY <1>4, <2>2, <3>2
  <2> DEFINE vp == v * p
             tp == top * p
  <2>4. vp \in Int /\ tp \in Int /\ vp >= 0 /\ tp - p - vp >= 0
    BY <1>4, <2>2, <2>3
  <2> HIDE DEF vp, tp
  <2>5. vp \in 0 .. tp - 1
    BY <1>4, <2>4
  <2> QED BY <2>1, <2>5 DEF vp, tp
<1>6. Number(Digits(u, 6, count), 6) = u
  <2> DEFINE w == 6
  <2>1. w \in Nat /\ u \in 0 .. Pow2[w * count] - 1
    BY <1>5
  <2> HIDE DEF w, u, count
  <2>2. Number(Digits(u, w, count), w) = u
    BY <1>3, <2>1, NumberOfDigits
  <2> QED BY <2>2 DEF w
<1>7. u \div p = v
  <2>1. v \in Int
    <3> HIDE DEF v
    <3>1. v \in 0 .. top - 1
      BY <1>1
    <3> HIDE DEF top
    <3> QED BY <1>4, <3>1
  <2> HIDE DEF p, v
  <2>2. u = p * v + 0 /\ u \in Int /\ 0 \in 0 .. p - 1
    BY <1>4, <2>1
  <2> QED BY <1>4, <2>1, <2>2, RemainderUnique
<1>8. FromBase64(text) = Number(text.digits, 6) \div Pow2[2 * text.fill]
  BY DEF FromBase64, ShiftRight
<1>9. FromBase64(text) = v
  <2> HIDE DEF text, u, v, count, fill, p
  <2>1. text.digits = Digits(u, 6, count)
    BY <1>2 DEF u, p
  <2>2. Pow2[2 * text.fill] = p
    BY <1>2 DEF p
  <2> QED BY <1>6, <1>7, <1>8, <2>1, <2>2
<1> QED BY <1>1, <1>9

LEMMA BytesLiteral ==
  ASSUME NEW len \in Nat, NEW bs, IsText(bs, len, 8), NEW n \in Nat
  PROVE  /\ Number(bs, 8) \in Nat
         /\ Literal(BytesBits(bs, n)[2]) =
              IF Number(bs, 8) < Pow2[n] THEN <<"Word", [size |-> n, value |-> Number(bs, 8)]>>
                                         ELSE Raise("CryptolError")
<1> DEFINE bits == BytesBits(bs, n)[2]
           v == Number(bs, 8)
           top == Pow2[8 * len]
<1>1. v \in 0 .. top - 1 /\ FromBase64(Base64(bs)) = v
  BY Base64Number
<1>2. v \in Nat
  <2> HIDE DEF v, top
  <2> QED BY <1>1
<1>3. bits.encoding = "base64" /\ bits.width = n /\ bits.data = Base64(bs)
  BY DEF BytesBits
<1> HIDE DEF bits, v
<1>4. Decode(bits) = v
  BY <1>1, <1>3 DEF Decode
<1>5. Literal(bits) = IF v < Pow2[n] THEN <<"Word", [size |-> n, value |-> v]>>
                                     ELSE Raise("CryptolError")
  BY <1>2, <1>3, <1>4, LiteralOfNumber
<1> QED BY <1>2, <1>5 DEF bits, v

\* The bytes of a number, sent at a width.
LEMMA NumberLiteral ==
  ASSUME NEW len \in Nat, NEW v \in 0 .. Pow2[8 * len] - 1, NEW n \in Nat
  PROVE  /\ v \in Nat
         /\ Literal(BytesBits(Digits(v, 8, len), n)[2]) =
              IF v < Pow2[n] THEN <<"Word", [size |-> n, value |-> v]>>
                             ELSE Raise("CryptolError")
<1> DEFINE w == 8
           bs == Digits(v, w, len)
           top == Pow2[w * len]
<1>1. w \in Nat /\ w * len \in Nat
  OBVIOUS
<1>2. top \in Nat
  <2> DEFINE l == w * len
  <2>1. l \in Nat
    BY <1>1
  <2> HIDE DEF l
  <2>2. Pow2[l] \in Nat
    BY <2>1, Powers
  <2> QED BY <2>2 DEF l
<1>3. v \in 0 .. top - 1
  OBVIOUS
<1>4. v \in Nat
  <2> HIDE DEF top
  <2> QED BY <1>2, <1>3
<1>5. IsText(bs, len, w) /\ Number(bs, w) = v
  <2> HIDE DEF w
  <2>1. IsText(bs, len, w)
    BY <1>1, <1>4, DigitsAreText
  <2>2. Number(bs, w) = v
    BY <1>1, <1>3, NumberOfDigits
  <2> QED BY <2>1, <2>2
<1>6. IsText(bs, len, 8) /\ Number(bs, 8) = v
  <2> HIDE DEF bs
  <2> QED BY <1>5
<1> HIDE DEF bs
<1>7. Literal(BytesBits(bs, n)[2]) =
        IF v < Pow2[n] THEN <<"Word", [size |-> n, value |-> v]>> ELSE Raise("CryptolError")
  BY <1>6, BytesLiteral
<1> QED BY <1>4, <1>7 DEF bs

LEMMA BitVectorLiteral ==
  ASSUME NEW a \in Vec
  PROVE  Literal(BitVectorBits(a)[2]) = <<"Word", a>>
<1> DEFINE v == a.value
           n == a.size
           len == IF v = 0 THEN 0 ELSE DigitCount(v, 8)
<1>1. n \in Nat /\ v \in Nat /\ v < Pow2[n] /\ a = [size |-> n, value |-> v]
  BY DEF Vec
<1>2. BitVectorBits(a) = BytesBits(Digits(v, 8, len), n)
  BY DEF BitVectorBits
<1> HIDE DEF n, v
<1>3. DigitCount(v, 8) \in Nat \ {0} /\ v < Pow2[8 * DigitCount(v, 8)]
  <2> DEFINE w == 8
  <2>1. w \in Nat \ {0}
    OBVIOUS
  <2> HIDE DEF w
  <2>2. DigitCount(v, w) \in Nat \ {0} /\ v < Pow2[w * DigitCount(v, w)]
    BY <1>1, <2>1, CountOfDigits
  <2> QED BY <2>2 DEF w
<1>4. len \in Nat /\ v < Pow2[8 * len]
  <2>1. CASE v = 0
    <3>1. len = 0 /\ 8 * 0 = 0
      BY <2>1
    <3> HIDE DEF len
    <3>2. Pow2[8 * len] = 1
      BY <3>1, Powers
    <3> QED BY <2>1, <3>1, <3>2
  <2>2. CASE v # 0
    <3>1. len = DigitCount(v, 8)
      BY <2>2
    <3> HIDE DEF len
    <3> QED BY <1>3, <3>1
  <2> QED BY <2>1, <2>2
<1> HIDE DEF len
<1>5. v \in 0 .. Pow2[8 * len] - 1
  <2> DEFINE l == 8 * len
             top == Pow2[l]
  <2>1. l \in Nat
    BY <1>4
  <2>2. top \in Nat
    <3> HIDE DEF l
    <3> QED BY <2>1, Powers
  <2>3. v < top
    BY <1>4
  <2> HIDE DEF top
  <2>4. v \in 0 .. top - 1
    BY <1>1, <2>2, <2>3
  <2> QED BY <2>4 DEF top
<1>6. Literal(BytesBits(Digits(v, 8, len), n)[2]) = <<"Word", [size |-> n, value |-> v]>>
  BY <1>1, <1>4, <1>5, NumberLiteral
<1> QED BY <1>1, <1>2, <1>6

\* The bytes of the text, for an odd number of digits with a zero before it.
LEMMA PairsOfHex ==
  ASSUME NEW len \in Nat \ {0}, NEW v \in 0 .. Pow2[4 * len] - 1
  PROVE  \E m \in Nat : /\ extend_hex(Digits(v, 4, len)) = Digits(v, 4, 2 * m)
                        /\ v \in 0 .. Pow2[8 * m] - 1
<1> DEFINE w == 4
           l == w * len
           top == Pow2[l]
           odd == len % 2
           m == (len + odd) \div 2
           ds == Digits(v, w, len)
           es == Digits(v, w, 2 * m)
<1>1. /\ w \in Nat /\ l \in Nat /\ m \in Nat /\ odd \in 0 .. 1 /\ 2 * m = len + odd
      /\ l <= 8 * m /\ 8 * m \in Nat
  OBVIOUS
<1>2. top \in Nat /\ v \in 0 .. top - 1 /\ v \in Nat
  <2>1. top \in Nat
    <3> HIDE DEF l
    <3> QED BY <1>1, Powers
  <2>2. v \in 0 .. top - 1
    OBVIOUS
  <2> HIDE DEF top
  <2> QED BY <2>1, <2>2
<1>3. v \in 0 .. Pow2[8 * m] - 1
  <2> DEFINE j == 8 * m
             up == Pow2[j]
  <2>1. j \in Nat /\ l <= j
    BY <1>1
  <2>2. up \in Nat /\ top <= up
    <3> HIDE DEF j, l
    <3> QED BY <1>1, <2>1, Monotone, Powers
  <2> HIDE DEF up, top
  <2>3. v \in 0 .. up - 1
    BY <1>2, <2>2
  <2> QED BY <2>3 DEF up
<1>4. /\ ds = [k \in 1 .. len |-> (v \div Pow2[w * (len - k)]) % Pow2[w]]
      /\ es = [k \in 1 .. 2 * m |-> (v \div Pow2[w * (2 * m - k)]) % Pow2[w]]
      /\ Len(ds) = len
  <2>1. Len(ds) = len
    <3> HIDE DEF w
    <3>1. IsText(ds, len, w)
      BY <1>1, <1>2, DigitsAreText
    <3> QED BY <3>1 DEF IsText
  <2> HIDE DEF m, w
  <2> QED BY <2>1, EachDigit
<1>5. CASE odd = 0
  <2>1. es = ds
    <3>1. 2 * m = len
      BY <1>1, <1>5
    <3> HIDE DEF m
    <3> QED BY <3>1
  <2>2. extend_hex(ds) = ds
    <3> HIDE DEF ds
    <3> QED BY <1>4, <1>5 DEF extend_hex
  <2>3. extend_hex(ds) = es
    BY <2>1, <2>2
  <2> QED BY <1>1, <1>3, <2>3
<1>6. CASE odd = 1
  <2>1. extend_hex(ds) = <<0>> \o ds
    <3> HIDE DEF ds
    <3> QED BY <1>4, <1>6 DEF extend_hex
  <2>2. 2 * m = len + 1
    BY <1>1, <1>6
  <2> HIDE DEF m
  <2>3. es[1] = 0
    <3> DEFINE h == Pow2[w]
               z == v \div top
    <3>1. w * (2 * m - 1) = l /\ 1 \in 1 .. 2 * m
      BY <2>2
    <3>2. es[1] = z % h
      BY <1>4, <3>1
    <3>3. h \in Nat \ {0} /\ top \in Nat \ {0} /\ 0 \in 0 .. h - 1
      <4> HIDE DEF l, w
      <4>1. h \in Nat \ {0} /\ top \in Nat \ {0}
        BY <1>1, Powers
      <4> HIDE DEF h, top
      <4> QED BY <4>1
    <3> HIDE DEF h, top
    <3>4. z = 0
      BY <1>2, <3>3, SmallRemainder
    <3> HIDE DEF z
    <3>5. 0 % h = 0
      BY <3>3, SmallRemainder
    <3> QED BY <3>2, <3>4, <3>5
  <2>4. ASSUME NEW k \in 1 .. len PROVE es[k + 1] = ds[k]
    <3>1. k + 1 \in 1 .. 2 * m /\ 2 * m - (k + 1) = len - k
      BY <2>2
    <3> HIDE DEF w
    <3> QED BY <1>4, <3>1
  <2>5. ds \in Seq(Int) /\ \A k \in 1 .. len : ds[k] \in Int
    <3>1. \A k \in 1 .. len : ds[k] \in Int
      <4> DEFINE h == Pow2[w]
      <4>1. h \in Int
        <5> HIDE DEF w
        <5> QED BY <1>1, Powers
      <4>2. \A k \in 1 .. len : ds[k] \in 0 .. h - 1
        <5> HIDE DEF w
        <5>1. IsText(ds, len, w)
          BY <1>1, <1>2, DigitsAreText
        <5> QED BY <5>1 DEF IsText
      <4> HIDE DEF h, ds
      <4> QED BY <4>1, <4>2
    <3>2. ds = [k \in 1 .. len |-> ds[k]]
      BY <1>4
    <3> HIDE DEF ds
    <3>3. ds \in [1 .. len -> Int]
      BY <3>1, <3>2
    <3> QED BY <3>1, <3>3, SeqDef
  <2> HIDE DEF ds
  <2>6. <<0>> \o ds = [k \in 1 .. len + 1 |-> IF k = 1 THEN 0 ELSE ds[k - 1]]
    <3> DEFINE c == <<0>> \o ds
    <3>1. /\ c = [k \in 1 .. Len(<<0>>) + Len(ds) |->
                    IF k <= Len(<<0>>) THEN <<0>>[k] ELSE ds[k - Len(<<0>>)]]
      BY <2>5
    <3>2. Len(<<0>>) = 1 /\ <<0>>[1] = 0 /\ 1 + Len(ds) = len + 1
      BY <1>4
    <3>3. c = [k \in 1 .. len + 1 |-> IF k <= 1 THEN <<0>>[k] ELSE ds[k - 1]]
      BY <3>1, <3>2
    <3>4. ASSUME NEW k \in 1 .. len + 1
          PROVE  (IF k <= 1 THEN <<0>>[k] ELSE ds[k - 1]) = IF k = 1 THEN 0 ELSE ds[k - 1]
      <4>1. CASE k = 1
        BY <3>2, <4>1
      <4>2. CASE k # 1
        <5>1. ~(k <= 1)
          BY <4>2
        <5> QED BY <4>2, <5>1
      <4> QED BY <4>1, <4>2
    <3> HIDE DEF c
    <3>5. c = [k \in 1 .. len + 1 |-> IF k = 1 THEN 0 ELSE ds[k - 1]]
      BY <3>3, <3>4
    <3> QED BY <3>5 DEF c
  <2>7. ASSUME NEW k \in 1 .. len + 1 PROVE es[k] = IF k = 1 THEN 0 ELSE ds[k - 1]
    <3> HIDE DEF es
    <3>1. CASE k = 1
      BY <2>3, <3>1
    <3>2. CASE k # 1
      <4>1. k - 1 \in 1 .. len /\ (k - 1) + 1 = k
        BY <3>2
      <4>2. es[(k - 1) + 1] = ds[k - 1]
        BY <2>4, <4>1
      <4> QED BY <3>2, <4>1, <4>2
    <3> QED BY <3>1, <3>2
  <2>8. es = [k \in 1 .. len + 1 |-> es[k]]
    BY <1>4, <2>2
  <2>9. es = <<0>> \o ds
    <3> HIDE DEF es
    <3> QED BY <2>6, <2>7, <2>8
  <2> QED BY <1>1, <1>3, <2>1, <2>9 DEF ds
<1> QED BY <1>1, <1>5, <1>6

LEMMA SmallPowers == Pow2[4] = 16 /\ Pow2[8] = 256
<1>1. Pow2[0 + 1] = 2 * Pow2[0] /\ Pow2[1 + 1] = 2 * Pow2[1] /\ Pow2[2 + 1] = 2 * Pow2[2]
  BY Powers
<1>2. Pow2[3 + 1] = 2 * Pow2[3] /\ Pow2[4 + 1] = 2 * Pow2[4] /\ Pow2[5 + 1] = 2 * Pow2[5]
  BY Powers
<1>3. Pow2[6 + 1] = 2 * Pow2[6] /\ Pow2[7 + 1] = 2 * Pow2[7]
  BY Powers
<1>4. Pow2[0] = 1
  BY Powers
<1>5. Pow2[1] = 2 /\ Pow2[2] = 4
  BY <1>1, <1>4
<1>6. Pow2[3] = 8 /\ Pow2[4] = 16
  BY <1>1, <1>2, <1>5
<1>7. Pow2[5] = 32 /\ Pow2[6] = 64
  BY <1>2, <1>6
<1> QED BY <1>3, <1>6, <1>7

\* Two hexadecimal digits are a byte.
LEMMA HexPairs ==
  ASSUME NEW m \in Nat, NEW v \in Nat, v \in 0 .. Pow2[8 * m] - 1
  PROVE  FromHex(Digits(v, 4, 2 * m)) = v
<1> DEFINE e == 4
           b == 8
           ds == Digits(v, e, 2 * m)
           pairs == [k \in 1 .. m |-> 16 * ds[2 * k - 1] + ds[2 * k]]
<1>1. e \in Nat /\ b \in Nat /\ 2 * m \in Nat /\ (2 * m) \div 2 = m
  OBVIOUS
<1>2. Len(ds) = 2 * m
  <2> DEFINE n == 2 * m
  <2> HIDE DEF e, n
  <2>1. IsText(Digits(v, e, n), n, e)
    BY <1>1, DigitsAreText DEF n
  <2> QED BY <2>1 DEF IsText, n
<1>3. ds = [k \in 1 .. 2 * m |-> (v \div Pow2[e * (2 * m - k)]) % Pow2[e]]
  BY EachDigit
<1> HIDE DEF ds
<1>4. FromHex(ds) = Number(pairs, b)
  BY <1>1, <1>2 DEF FromHex
<1>5. ASSUME NEW k \in 1 .. m
      PROVE  16 * ds[2 * k - 1] + ds[2 * k] = (v \div Pow2[b * (m - k)]) % Pow2[b]
  <2> DEFINE i == b * (m - k)
             q == v \div Pow2[i]
  <2>1. /\ 2 * k \in 1 .. 2 * m /\ 2 * k - 1 \in 1 .. 2 * m /\ i \in Nat
        /\ e * (2 * m - 2 * k) = i /\ e * (2 * m - (2 * k - 1)) = i + e
    OBVIOUS
  <2>2. ds[2 * k] = q % Pow2[e]
    BY <1>3, <2>1
  <2>3. ds[2 * k - 1] = (v \div Pow2[i + e]) % Pow2[e]
    BY <1>3, <2>1
  <2>4. q \div Pow2[e] = v \div Pow2[i + e]
    <3> HIDE DEF i, e
    <3> QED BY <1>1, <2>1, QuotientOfQuotient
  <2>5. Pow2[e] = 16 /\ Pow2[b] = 256
    BY SmallPowers
  <2>6. q \in Int
    <3> HIDE DEF i
    <3> DEFINE p == Pow2[i]
    <3>1. p \in Nat \ {0}
      BY <2>1, Powers
    <3> HIDE DEF p
    <3>2. v \div p \in Int
      BY <3>1, Remainder
    <3> QED BY <3>2 DEF p
  <2> HIDE DEF i, q, e, b
  <2>7. ds[2 * k] = q % 16 /\ ds[2 * k - 1] = (q \div 16) % 16
    BY <2>2, <2>3, <2>4, <2>5
  <2>8. 16 * ((q \div 16) % 16) + (q % 16) = q % 256
    BY <2>6
  <2> QED BY <2>5, <2>7, <2>8 DEF q, i
<1>6. pairs = [k \in 1 .. m |-> (v \div Pow2[b * (m - k)]) % Pow2[b]]
  <2> HIDE DEF b
  <2> QED BY <1>5
<1>7. Digits(v, b, m) = [k \in 1 .. m |-> (v \div Pow2[b * (m - k)]) % Pow2[b]]
  BY EachDigit
<1>8. pairs = Digits(v, b, m)
  BY <1>6, <1>7
<1>9. v \in 0 .. Pow2[b * m] - 1
  OBVIOUS
<1> HIDE DEF pairs, b
<1>10. Number(Digits(v, b, m), b) = v
  BY <1>1, <1>9, NumberOfDigits
<1> QED BY <1>4, <1>8, <1>10 DEF ds, e

\* A vector is the same vector on the other side, at every size: as the word of
\* Cryptol for which it is sent (cryptoltypes.py, BV in hexadecimal, BitVector
\* in base 64) and, for a word that the server writes in hexadecimal, as the
\* vector that the client makes of it (commands.py).
THEOREM VectorsArrive ==
  ASSUME NEW a \in Vec
  PROVE  /\ Literal(BVBits(a)[2]) = <<"Word", a>>
         /\ Literal(BitVectorBits(a)[2]) = <<"Word", a>>
         /\ BitsValue(BVBits(a)[2]) = <<"BV", a>>
<1>1. BitsValue(BVBits(a)[2]) = <<"BV", a>>
  <2> DEFINE v == a.value
             n == a.size
             bits == BVBits(a)[2]
  <2>1. PICK len \in Nat \ {0} : /\ PaddedHex(v, n) = Digits(v, 4, len)
                                /\ v \in 0 .. Pow2[4 * len] - 1
    BY Hex
  <2>2. bits.encoding = "hex" /\ bits.width = n /\ bits.data = PaddedHex(v, n)
    BY DEF BVBits
  <2>3. v \in Nat
    BY DEF Vec
  <2>4. BV(n, v) = a /\ BV(n, v) # ValueError
    <3>1. n \in Nat /\ v \in Int /\ v \in 0 .. Pow2[n] - 1 /\ a = [size |-> n, value |-> v]
      BY Vector, VecBits
    <3>2. BV(n, v) = [size |-> n, value |-> v] /\ BV(n, v) \in Vec
      <4> HIDE DEF n, v
      <4> QED BY <3>1, Made
    <3>3. a # ValueError
      BY NoVector
    <3> QED BY <3>1, <3>2, <3>3
  <2> HIDE DEF bits, n, v
  <2>5. PICK m \in Nat : /\ extend_hex(Digits(v, 4, len)) = Digits(v, 4, 2 * m)
                         /\ v \in 0 .. Pow2[8 * m] - 1
    BY <2>1, PairsOfHex
  <2>6. FromHex(Digits(v, 4, 2 * m)) = v
    BY <2>3, <2>5, HexPairs
  <2>7. FromHex(extend_hex(bits.data)) = v
    BY <2>1, <2>2, <2>5, <2>6
  <2>8. BitsValue(bits) = <<"BV", BV(n, v)>>
    BY <2>2, <2>4, <2>7 DEF BitsValue
  <2> QED BY <2>4, <2>8 DEF bits
<1> QED BY <1>1, HexLiteral, BitVectorLiteral

\* Bytes are sent, at the type of a vector of w bits, as the word of w bits whose
\* value is that of the vector of their own bits, first byte first, and are refused
\* when it does not fit into w bits.  Where w bits hold all of theirs that word is
\* the vector that from_bytes makes of them in Python.
THEOREM BytesArrive ==
  ASSUME NEW bs \in Seq(0 .. 255), NEW w \in Nat
  PROVE  LET r == from_bytes(bs, 8 * Len(bs), "big")
             word == Literal(BytesBits(bs, w)[2])
         IN  /\ r \in Vec /\ Bits(r) = BitsOf([bytes |-> bs])
             /\ word = IF r.value < Pow2[w] THEN <<"Word", [size |-> w, value |-> r.value]>>
                                           ELSE Raise("CryptolError")
             /\ w >= 8 * Len(bs) => word = <<"Word", from_bytes(bs, w, "big")>>
<1> DEFINE len == Len(bs)
           l == 8 * len
           top == Pow2[l]
           o == "big"
           n == Number(bs, 8)
           c == [size |-> l, value |-> n]
<1>1. len \in Nat /\ l \in Nat
  OBVIOUS
<1>2. \A k \in 1 .. len : bs[k] \in 0 .. 255
  <2> DEFINE Byte == 0 .. 255
  <2>1. bs \in Seq(Byte)
    OBVIOUS
  <2> HIDE DEF Byte
  <2>2. \A k \in 1 .. Len(bs) : bs[k] \in Byte
    BY <2>1
  <2> QED BY <2>2 DEF Byte
<1>3. PICK v \in 0 .. Pow2[l] - 1 :
        /\ from_bytes(bs, l, o) = IF l >= l THEN BV(l, v) ELSE ValueError
        /\ BytesOf(Ordered(bs, o), v)
  <2>1. len = Len(bs) /\ o \in {"big", "little"}
    OBVIOUS
  <2> HIDE DEF len, o
  <2> QED BY <1>1, <2>1, NumberOfBytes
<1>4. Ordered(bs, o) = bs
  BY DEF Ordered
<1>5. from_bytes(bs, l, o) = BV(l, n) /\ (w >= l => from_bytes(bs, w, o) = BV(w, n))
  <2>1. from_bytes(bs, l, o) = BV(l, n)
    BY DEF from_bytes, Number
  <2>2. ASSUME w >= l PROVE from_bytes(bs, w, o) = BV(w, n)
    BY <2>2 DEF from_bytes, Number
  <2> QED BY <2>1, <2>2
<1>6. IsText(bs, len, 8)
  BY <1>2, SmallPowers DEF IsText
<1> HIDE DEF l, len, o
<1>7. n \in Nat /\ n \in 0 .. Pow2[l] - 1
  <2>1. n \in 0 .. Pow2[8 * len] - 1
    BY <1>1, <1>6, Base64Number
  <2>2. n \in Nat
    BY <1>1, <1>6, BytesLiteral
  <2> QED BY <2>1, <2>2 DEF l
<1>8. /\ Pow2[l] \in Nat /\ Pow2[w] \in Nat
      /\ w >= l => Pow2[l] <= Pow2[w]
  BY <1>1, Monotone, Powers
<1>9. Literal(BytesBits(bs, w)[2]) = IF n < Pow2[w] THEN <<"Word", [size |-> w, value |-> n]>>
                                                    ELSE Raise("CryptolError")
  BY <1>1, <1>6, BytesLiteral
<1> HIDE DEF n
<1>10. BV(l, n) = c /\ c \in Vec
  BY <1>1, <1>7, Made
<1>11. from_bytes(bs, l, o) = c /\ c.value = n /\ c.size = l
  BY <1>5, <1>10
<1>12. Bits(c) = BitsOf([bytes |-> bs])
  <2> DEFINE r == [bytes |-> bs]
  <2>1. v \in Int /\ v \in 0 .. Pow2[l] - 1
    BY <1>8
  <2>2. BytesOf(bs, v) /\ Len(bs) = len
    BY <1>3, <1>4 DEF len
  <2>3. BV(l, v) = [size |-> l, value |-> v]
    BY <1>1, <2>1, Made
  <2>4. c = [size |-> l, value |-> v]
    BY <1>1, <1>3, <1>11, <2>3
  <2>5. BitsOf(r) = Word(8 * len, v)
    <3>1. r = [bytes |-> bs]
      OBVIOUS
    <3> HIDE DEF r
    <3> QED BY <1>1, <2>1, <2>2, <3>1, BytesOfNumber
  <2>6. Bits(c) = Word(l, v)
    <3>1. c.size = l /\ c.value = v
      BY <2>4
    <3> HIDE DEF c
    <3> QED BY <3>1, BitsAreWord
  <2> QED BY <2>5, <2>6 DEF l
<1>13. ASSUME w >= l
       PROVE  Literal(BytesBits(bs, w)[2]) = <<"Word", from_bytes(bs, w, o)>>
  <2>1. n \in 0 .. Pow2[w] - 1 /\ n < Pow2[w]
    BY <1>7, <1>8, <1>13
  <2>2. BV(w, n) = [size |-> w, value |-> n]
    BY <2>1, Made
  <2> QED BY <1>5, <1>9, <1>13, <2>1, <2>2
<1> HIDE DEF c
<1> QED BY <1>9, <1>10, <1>11, <1>12, <1>13 DEF o, l, len

\* An integer sent at the type of a vector of w bits takes the whole bytes of
\* the type, in two's complement: it is refused when it needs more of them, and
\* arrives modulo 2 ^^ w when the type is of whole bytes or the integer is not
\* negative.  (A negative integer at any other width arrives without the bits
\* above its bytes; the comment at cryptoltypes.py:200 leaves those widths open.)
THEOREM IntegersArrive ==
  ASSUME NEW w \in Nat, NEW v \in Int
  PROVE  LET r == convertBitvector(w, <<"int", v>>)
             m == 8 * (w \div 8)
             Half == IF m = 0 THEN 1 ELSE Pow2[m - 1]
         IN  /\ Failed(r) <=> v \notin -Half .. Half - 1
             /\ ~Failed(r) => Literal(r[2]) = <<"Word", [size |-> w, value |-> v % Pow2[m]]>>
             /\ ~Failed(r) /\ (m = w \/ v >= 0) => v % Pow2[m] = v % Pow2[w]
<1> DEFINE len == w \div 8
           m == 8 * len
           Half == IF m = 0 THEN 1 ELSE Pow2[m - 1]
           r == convertBitvector(w, <<"int", v>>)
           p == Pow2[m]
           rest == v % p
<1>1. len \in Nat /\ m \in Nat /\ m <= w /\ (len = 0 <=> m = 0)
  OBVIOUS
<1>2. p \in Nat \ {0} /\ Half \in Nat \ {0} /\ Half <= p
  <2> HIDE DEF m
  <2>1. CASE m = 0
    BY <2>1, Powers
  <2>2. CASE m # 0
    <3> DEFINE d == m - 1
    <3>1. d \in Nat /\ d + 1 = m
      BY <1>1, <2>2
    <3> HIDE DEF d
    <3>2. Pow2[d + 1] = 2 * Pow2[d] /\ Pow2[d] \in Nat \ {0}
      BY <3>1, Powers
    <3>3. Half = Pow2[d]
      BY <2>2 DEF d
    <3> HIDE DEF Half
    <3> QED BY <3>1, <3>2, <3>3
  <2> QED BY <2>1, <2>2
<1>3. rest \in 0 .. p - 1
  <2> HIDE DEF p
  <2> QED BY <1>2, Remainder
<1> DEFINE bs == SignedBytes(v, len)
<1>4. bs = IF v < -Half \/ v >= Half THEN Raise("OverflowError")
           ELSE <<"bytes", Digits(rest, 8, len)>>
  BY <1>1 DEF SignedBytes, LowBits
<1>5. r = IF Failed(bs) THEN bs ELSE BytesBits(bs[2], w)
  BY DEF convertBitvector
<1> HIDE DEF Half, bs, r, rest
<1>6. CASE v < -Half \/ v >= Half
  <2>1. Failed(bs)
    BY <1>4, <1>6 DEF Failed, Raise
  <2>2. Failed(r)
    BY <1>5, <2>1
  <2>3. v \notin -Half .. Half - 1
    BY <1>2, <1>6
  <2> QED BY <2>2, <2>3 DEF r, Half
<1>7. CASE ~(v < -Half \/ v >= Half)
  <2>1. bs = <<"bytes", Digits(rest, 8, len)>> /\ ~Failed(bs)
    BY <1>4, <1>7 DEF Failed
  <2>2. r = BytesBits(Digits(rest, 8, len), w)
    BY <1>5, <2>1
  <2>3. ~Failed(r)
    BY <2>2 DEF Failed, BytesBits
  <2>4. v \in -Half .. Half - 1
    BY <1>2, <1>7
  <2>5. rest < Pow2[w]
    <3> DEFINE h == Pow2[w]
    <3>1. p <= h /\ h \in Nat
      <4> HIDE DEF m
      <4> QED BY <1>1, Monotone, Powers
    <3> HIDE DEF h, p
    <3>2. rest < h
      BY <1>2, <1>3, <3>1
    <3> QED BY <3>2 DEF h
  <2>6. Literal(r[2]) = <<"Word", [size |-> w, value |-> rest]>>
    <3>1. rest \in 0 .. Pow2[8 * len] - 1
      BY <1>3
    <3> HIDE DEF len
    <3> QED BY <1>1, <2>2, <2>5, <3>1, NumberLiteral
  <2>7. ASSUME m = w \/ v >= 0 PROVE rest = v % Pow2[w]
    <3>1. CASE m = w
      BY <3>1 DEF rest
    <3>2. CASE v >= 0
      <4> DEFINE h == Pow2[w]
      <4>1. p <= h /\ h \in Nat \ {0}
        <5> HIDE DEF m
        <5> QED BY <1>1, Monotone, Powers
      <4> HIDE DEF h, p
      <4>2. v \in 0 .. p - 1 /\ v \in 0 .. h - 1
        BY <1>2, <1>7, <3>2, <4>1
      <4>3. v % p = v /\ v % h = v
        BY <1>2, <4>1, <4>2, SmallRemainder
      <4> QED BY <4>3 DEF h, rest
    <3> QED BY <2>7, <3>1, <3>2
  <2> QED BY <2>3, <2>4, <2>6, <2>7 DEF r, Half, rest
<1> QED BY <1>6, <1>7
=============================================================================
