------------------------------- MODULE BitVec -------------------------------
(***************************************************************************)
(* The class BV of the Python client                                       *)
(* (cryptol-remote-api/python/cryptol/bitvector.py): a vector of bits is a *)
(* size and an unsigned value.  A method is an operator with self as its   *)
(* first argument.  A method that also takes a Python integer is two       *)
(* operators, Add for a vector and AddInt for an integer.  An exception of *)
(* the class is ValueError, whatever its text.                             *)
(***************************************************************************)
EXTENDS Integers, Sequences, FiniteSets

ValueError == [error |-> "ValueError"]

\* 2 ** n, and a sum over 1 .. n.
Pow2[n \in Nat] == IF n = 0 THEN 1 ELSE 2 * Pow2[n - 1]
Total(n, term) ==
    LET Sum[k \in 0 .. n] == IF k = 0 THEN 0 ELSE Sum[k - 1] + term[k] IN Sum[n]

\* int.bit_length looks at the absolute value.
Fits(v, n) == (IF v < 0 THEN -v ELSE v) < Pow2[n]

BV(n, v) ==
    IF n >= 0 /\ v >= 0 /\ Fits(v, n) THEN [size |-> n, value |-> v]
                                      ELSE ValueError

\* The vectors of at most n bits.
Vectors(n) == UNION {{BV(k, v) : v \in 0 .. Pow2[k] - 1} : k \in 0 .. n}

\* v & (2 ** n - 1), for any integer v, and v >> n.
LowBits(v, n) == v % Pow2[n]
ShiftRight(v, n) == v \div Pow2[n]
Bit(v, i) == (v \div Pow2[i]) % 2

\* The number of n bits that has ones at these places.
FromBits(n, places) ==
    Total(n, [k \in 1 .. n |-> IF k - 1 \in places THEN Pow2[k - 1] ELSE 0])

(***************************************************************************)
(* Parts and widths.                                                       *)
(***************************************************************************)
getitem(a, i) ==
    IF 0 <= i /\ i < a.size THEN [bool |-> Bit(a.value, i) = 1] ELSE ValueError

\* A negative low passes the test of line 82 and fails as a shift.
getslice(a, high, low) ==
    IF low > high \/ high > a.size \/ low < 0 THEN ValueError
    ELSE BV(high - low, LowBits(ShiftRight(a.value, low), high - low))

widen(a, n) == IF n < 0 THEN ValueError ELSE BV(a.size + n, a.value)

concat(a, b) == BV(a.size + b.size, a.value * Pow2[b.size] + b.value)

\* BV.join(*bs)
join(bs) ==
    LET Joined[k \in 0 .. Len(bs)] == IF k = 0 THEN BV(0, 0) ELSE concat(Joined[k - 1], bs[k])
    IN  Joined[Len(bs)]

zero(a) == BV(a.size, 0)
msb(a) == IF a.size = 0 THEN ValueError ELSE getitem(a, a.size - 1)
lsb(a) == IF a.size = 0 THEN ValueError ELSE getitem(a, 0)

Signed(a) == IF Bit(a.value, a.size - 1) = 0 THEN a.value
                                             ELSE a.value - Pow2[a.size]
to_signed_int(a) == IF a.size = 0 THEN ValueError ELSE [int |-> Signed(a)]

eq(a, b) == [bool |-> a.size = b.size /\ a.value = b.value]
popcount(a) == [int |-> Cardinality({i \in 0 .. a.size - 1 : Bit(a.value, i) = 1})]

split(a, n) ==
    IF n <= 0 \/ a.size % n # 0 THEN ValueError
    ELSE [list |-> [k \in 1 .. a.size \div n |->
              BV(n, LowBits(ShiftRight(a.value, a.size - k * n), n))]]

(***************************************************************************)
(* Bytes, first byte first.                                                *)
(***************************************************************************)
bytes(a) ==
    LET len == (a.size \div 8) + (IF a.size % 8 = 0 THEN 0 ELSE 1)
    IN  [k \in 1 .. len |-> LowBits(ShiftRight(a.value, 8 * (len - k)), 8)]

from_bytes(bs, size, byteorder) ==
    LET Weight(k) == IF byteorder = "big" THEN Len(bs) - k ELSE k - 1
        n == Total(Len(bs), [k \in 1 .. Len(bs) |-> bs[k] * Pow2[8 * Weight(k)]])
    IN  IF size >= 8 * Len(bs) THEN BV(size, n) ELSE ValueError

(***************************************************************************)
(* Bitwise operators.  The bits of an integer above the size of the vector *)
(* survive | and ^, where self has none, and BV then refuses the result.   *)
(***************************************************************************)
And(n, v, w) == FromBits(n, {i \in 0 .. n - 1 : Bit(v, i) = 1 /\ Bit(w, i) = 1})
Or(n, v, w) == FromBits(n, {i \in 0 .. n - 1 : Bit(v, i) = 1 \/ Bit(w, i) = 1})
               + Pow2[n] * ShiftRight(w, n)
Xor(n, v, w) == FromBits(n, {i \in 0 .. n - 1 : Bit(v, i) # Bit(w, i)})
                + Pow2[n] * ShiftRight(w, n)

Equal(a, b, r) == IF a.size = b.size THEN r ELSE ValueError

bvAnd(a, b) == Equal(a, b, BV(a.size, And(a.size, a.value, b.value)))
bvOr(a, b) == Equal(a, b, BV(a.size, Or(a.size, a.value, b.value)))
bvXor(a, b) == Equal(a, b, BV(a.size, Xor(a.size, a.value, b.value)))
AndInt(a, i) == BV(a.size, And(a.size, a.value, i))
OrInt(a, i) == BV(a.size, Or(a.size, a.value, i))
XorInt(a, i) == BV(a.size, Xor(a.size, a.value, i))
invert(a) == BV(a.size, Pow2[a.size] - 1 - a.value)

lshift(a, n) == IF n < 0 THEN ValueError ELSE BV(a.size + n, a.value * Pow2[n])

rshift_KeepsSize(a, n) ==
    IF n < 0 THEN ValueError ELSE BV(a.size, ShiftRight(a.value, n))
rshift(a, n) ==
    IF n < 0 THEN ValueError
    ELSE BV(IF a.size < n THEN 0 ELSE a.size - n, ShiftRight(a.value, n))

with_bit(a, i, b) ==
    IF i < 0 \/ i >= a.size THEN ValueError
    ELSE IF b THEN OrInt(a, Pow2[i]) ELSE AndInt(a, Pow2[a.size] - 1 - Pow2[i])

with_bits(a, low, b) ==
    IF low < 0 \/ low >= a.size \/ low + b.size > a.size THEN ValueError
    ELSE LET wider == a.size - (low + b.size)
             mask == widen(lshift(BV(b.size, Pow2[b.size] - 1), low), wider)
         IN  bvOr(bvAnd(a, invert(mask)), widen(lshift(b, low), wider))

(***************************************************************************)
(* Arithmetic.  Sums and products are reduced when they have more bits     *)
(* than self, differences are taken between signed values.                 *)
(***************************************************************************)
mod_if_overflow(a, v) == IF Fits(v, a.size) THEN v ELSE v % Pow2[a.size]

\* (excl_max - 1) & ~abs(val + 1) keeps the low bits of -abs(val + 1) - 1.
from_signed(n, v) ==
    IF n = 0 THEN BV(0, 0)
    ELSE IF v >= 0 THEN BV(n, v % Pow2[n])
    ELSE BV(n, LowBits(-(-(v + 1)) - 1, n) % Pow2[n])

from_signed_int(n, v) ==
    IF n = 0 \/ v < -(Pow2[n - 1]) \/ v > Pow2[n - 1] - 1 THEN ValueError
    ELSE from_signed(n, v)

CheckedInt(a, i, r) == IF i >= Pow2[a.size] \/ i < 0 THEN ValueError ELSE r

Add(a, b) == Equal(a, b, BV(a.size, mod_if_overflow(a, a.value + b.value)))
AddInt(a, i) == BV(a.size, mod_if_overflow(a, a.value + i))

Sub(a, b) ==
    Equal(a, b, IF a.size = 0 THEN a
                ELSE from_signed(a.size, Signed(a) - Signed(b)))
SubInt(a, i) ==
    CheckedInt(a, i, IF a.size = 0 THEN a ELSE from_signed(a.size, Signed(a) - i))
RSubInt(a, i) ==
    CheckedInt(a, i, IF a.size = 0 THEN a ELSE from_signed(a.size, i - Signed(a)))

Mul_NoModulus(a, b) == Equal(a, b, BV(a.size, a.value * b.value))
Mul(a, b) == Equal(a, b, BV(a.size, mod_if_overflow(a, a.value * b.value)))
MulInt(a, i) ==
    CheckedInt(a, i, from_signed(a.size, mod_if_overflow(a, a.value * i)))
=============================================================================
