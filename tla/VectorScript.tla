---------------------------- MODULE VectorScript ----------------------------
(***************************************************************************)
(* A Python script that computes with bit vectors: it holds one, reg, and  *)
(* calls one method of BV after another.  The outcome of a call is in last *)
(* until the script goes on, with the vector it got if it got one (an      *)
(* exception leaves reg as it was).  ClientScript adds the calls that      *)
(* reach the server.                                                       *)
(***************************************************************************)
EXTENDS BitVec, TLC

CONSTANTS
  MaxSize,        \* vectors in arguments and in reg have at most so many bits
  Ints,           \* Python integers in arguments
  ByteStrings     \* byte strings for from_bytes

ASSUME VectorScriptAssumption ==
    /\ MaxSize \in Nat
    /\ Ints \subseteq Int
    /\ ByteStrings \subseteq Seq(0 .. 255)

VARIABLES reg, last

vars == <<reg, last>>

NoCall == [op |-> "none"]

Init == reg = BV(0, 0) /\ last = NoCall

Outcome(op, arg, result) ==
    /\ last = NoCall
    /\ last' = [op |-> op, arg |-> arg, result |-> result]
    /\ UNCHANGED reg

Unary ==
    \/ Outcome("zero", 0, zero(reg))
    \/ Outcome("invert", 0, invert(reg))
    \/ Outcome("msb", 0, msb(reg))
    \/ Outcome("lsb", 0, lsb(reg))
    \/ Outcome("to_signed_int", 0, to_signed_int(reg))
    \/ Outcome("popcount", 0, popcount(reg))
    \/ Outcome("bytes", 0, [bytes |-> bytes(reg)])

WithInt == \E i \in Ints :
    \/ Outcome("getitem", i, getitem(reg, i))
    \/ Outcome("widen", i, widen(reg, i))
    \/ Outcome("split", i, split(reg, i))
    \/ Outcome("lshift", i, lshift(reg, i))
    \/ Outcome("rshift", i, rshift(reg, i))
    \/ Outcome("+int", i, AddInt(reg, i))
    \/ Outcome("-int", i, SubInt(reg, i))
    \/ Outcome("int-", i, RSubInt(reg, i))
    \/ Outcome("*int", i, MulInt(reg, i))
    \/ Outcome("&int", i, AndInt(reg, i))
    \/ Outcome("|int", i, OrInt(reg, i))
    \/ Outcome("^int", i, XorInt(reg, i))

WithVector == \E b \in Vectors(MaxSize) :
    \/ Outcome("concat", b, concat(reg, b))
    \/ Outcome("eq", b, eq(reg, b))
    \/ Outcome("+", b, Add(reg, b))
    \/ Outcome("-", b, Sub(reg, b))
    \/ Outcome("*", b, Mul(reg, b))
    \/ Outcome("&", b, bvAnd(reg, b))
    \/ Outcome("|", b, bvOr(reg, b))
    \/ Outcome("^", b, bvXor(reg, b))

Places == -1 .. MaxSize + 1

WithPlaces ==
    \/ \E high, low \in Places :
          Outcome("getslice", [high |-> high, low |-> low], getslice(reg, high, low))
    \/ \E i \in Places, b \in BOOLEAN :
          Outcome("with_bit", [index |-> i, bit |-> b], with_bit(reg, i, b))
    \/ \E low \in Places, b \in Vectors(MaxSize) :
          Outcome("with_bits", [low |-> low, bits |-> b], with_bits(reg, low, b))

\* Static methods, which do not read reg.
Make ==
    /\ reg = BV(0, 0)
    /\ \/ \E bs \in Vectors(2) \X Vectors(1) \X Vectors(2) :
             Outcome("join", bs, join(bs))
       \/ \E n \in 0 .. MaxSize, v \in Ints :
             Outcome("from_signed_int", [size |-> n, value |-> v], from_signed_int(n, v))
       \/ \E bs \in ByteStrings, n \in {0, 7, 8, 9, 16, 17}, order \in {"big", "little"} :
             Outcome("from_bytes", [bytes |-> bs, size |-> n, order |-> order],
                     from_bytes(bs, n, order))

\* What calls that reach the server give is no vector of the script.
Elsewhere == {"send", "typed", "receive", "type", "check", "prover"}

\* The script goes on; a vector that is not too large replaces reg.
GoOn ==
    /\ last # NoCall
    /\ reg' = IF /\ last.op \notin Elsewhere
                 /\ DOMAIN last.result = {"size", "value"}
                 /\ last.result.size <= MaxSize
              THEN last.result ELSE reg
    /\ last' = NoCall

VectorNext == Unary \/ WithInt \/ WithVector \/ WithPlaces \/ Make \/ GoOn

VectorSpec == Init /\ [][VectorNext]_vars

(***************************************************************************)
(* Bit vectors, as Cryptol has them: sequences of bits, most significant   *)
(* first.                                                                  *)
(***************************************************************************)
Bits(a) == [k \in 1 .. a.size |-> (a.value \div Pow2[a.size - k]) % 2]
Zeros(n) == [k \in 1 .. n |-> 0]
Ones(bits) == {k \in DOMAIN bits : bits[k] = 1}

\* The bits of a result that has to be a vector, of bytes, or of a list.
BitsOf(r) ==
    CASE DOMAIN r = {"size", "value"} -> Bits(r)
      [] DOMAIN r = {"bytes"} -> [k \in 1 .. 8 * Len(r.bytes) |->
            Bits([size |-> 8, value |-> r.bytes[1 + ((k - 1) \div 8)]])[1 + ((k - 1) % 8)]]
      [] DOMAIN r = {"list"} -> Bits(join(r.list))
      [] OTHER -> <<"no vector">>

\* The bits, or the refusal, that op owes on a and arg; other is for an
\* argument that is a vector.
Agree(a, op, arg, r) ==
    LET n == a.size
        bits == Bits(a)
        other == Bits(arg)
        Refused == r = ValueError
        Gives(cond, expected) == IF cond THEN BitsOf(r) = expected ELSE Refused
    IN  CASE op = "zero" -> BitsOf(r) = Zeros(n)
          [] op = "invert" -> BitsOf(r) = [k \in 1 .. n |-> 1 - bits[k]]
          [] op = "msb" -> IF n = 0 THEN Refused ELSE r.bool = (bits[1] = 1)
          [] op = "lsb" -> IF n = 0 THEN Refused ELSE r.bool = (bits[n] = 1)
          [] op = "popcount" -> r.int = Cardinality(Ones(bits))
          [] op = "bytes" -> /\ Len(r.bytes) = (n + 7) \div 8
                             /\ BitsOf(r) = Zeros(8 * Len(r.bytes) - n) \o bits
          [] op = "getitem" -> IF arg \in 0 .. n - 1 THEN r.bool = (bits[n - arg] = 1)
                                                      ELSE Refused
          [] op = "widen" -> Gives(arg >= 0, Zeros(arg) \o bits)
          [] op = "split" -> /\ Gives(arg > 0 /\ n % arg = 0, bits)
                             /\ Refused \/ \A k \in DOMAIN r.list : r.list[k].size = arg
          [] op = "lshift" -> Gives(arg >= 0, bits \o Zeros(arg))
          [] op = "rshift" -> Gives(arg >= 0, SubSeq(bits, 1, n - arg))
          [] op = "concat" -> BitsOf(r) = bits \o other
          [] op = "eq" -> r.bool = (bits = other)
          [] op = "&" -> Gives(arg.size = n, [k \in 1 .. n |-> bits[k] * other[k]])
          [] op = "|" -> Gives(arg.size = n, [k \in 1 .. n |-> IF bits[k] + other[k] = 0 THEN 0 ELSE 1])
          [] op = "^" -> Gives(arg.size = n, [k \in 1 .. n |-> (bits[k] + other[k]) % 2])
          [] op = "getslice" ->
               Gives(0 <= arg.low /\ arg.low <= arg.high /\ arg.high <= n,
                     SubSeq(bits, n - arg.high + 1, n - arg.low))
          [] op = "with_bit" ->
               Gives(arg.index \in 0 .. n - 1,
                     [bits EXCEPT ![n - arg.index] = IF arg.bit THEN 1 ELSE 0])
          [] op = "with_bits" ->
               Gives(arg.low \in 0 .. n - 1 /\ arg.low + arg.bits.size <= n,
                     SubSeq(bits, 1, n - arg.low - arg.bits.size) \o Bits(arg.bits)
                         \o SubSeq(bits, n - arg.low + 1, n))
          [] op = "join" -> BitsOf(r) = Bits(arg[1]) \o Bits(arg[2]) \o Bits(arg[3])
          [] op = "from_bytes" ->
               LET bs == IF arg.order = "big" THEN arg.bytes
                         ELSE [k \in DOMAIN arg.bytes |-> arg.bytes[Len(arg.bytes) + 1 - k]]
               IN  Gives(arg.size >= 8 * Len(bs),
                         Zeros(arg.size - 8 * Len(bs)) \o BitsOf([bytes |-> bs]))
          [] OTHER -> TRUE

\* Every operation on a vector gives the bits that Cryptol's operation of
\* that meaning gives, for every argument its description allows, and an
\* exception for every other; bitvector.py computes on numbers, with masks
\* and shifts, and two implementations of a conversion can differ at a size
\* of zero, at a size that is no multiple of 8, and at the ends of a vector.
VectorsAsBits == last # NoCall => Agree(reg, last.op, last.arg, last.result)

(***************************************************************************)
(* Arithmetic.                                                             *)
(***************************************************************************)
\* The answer r that op owes on a and arg.
Modular(a, op, arg, r) ==
    LET n == a.size
        Mod(v) == [size |-> n, value |-> v % Pow2[n]]
        Zip(expected) == r = IF arg.size = n THEN expected ELSE ValueError
        WithIt(expected) == \/ r = expected
                            \/ arg \notin 0 .. Pow2[n] - 1 /\ r = ValueError
        Signable(m, v) == v \in -(Pow2[m - 1]) .. Pow2[m - 1] - 1
    IN  CASE op = "+" -> Zip(Mod(a.value + arg.value))
          [] op = "-" -> Zip(Mod(a.value - arg.value))
          [] op = "*" -> Zip(Mod(a.value * arg.value))
          [] op = "+int" -> WithIt(Mod(a.value + arg))
          [] op = "-int" -> WithIt(Mod(a.value - arg))
          [] op = "int-" -> WithIt(Mod(arg - a.value))
          [] op = "*int" -> WithIt(Mod(a.value * arg))
          [] op = "&int" -> WithIt(bvAnd(a, Mod(arg)))
          [] op = "|int" -> WithIt(bvOr(a, Mod(arg)))
          [] op = "^int" -> WithIt(bvXor(a, Mod(arg)))
          [] op = "to_signed_int" ->
               IF n = 0 THEN r = ValueError ELSE Signable(n, r.int) /\ Mod(r.int) = a
          [] op = "from_signed_int" ->
               r = IF arg.size > 0 /\ Signable(arg.size, arg.value)
                   THEN [size |-> arg.size, value |-> arg.value % Pow2[arg.size]]
                   ELSE ValueError
          [] OTHER -> TRUE

\* Sums, differences and products are taken modulo 2 ^^ size, whatever way
\* they are computed (through signed values, or reduced only when they have
\* more bits); an integer operand that fits the size acts as the vector of
\* that value, and one that does not is either refused or reduced, never
\* turned into a wrong vector.
ArithmeticModular == last # NoCall => Modular(reg, last.op, last.arg, last.result)
====
