----------------------------- MODULE VectorJSON -----------------------------
(***************************************************************************)
(* How vectors and bytes travel between the Python client and the server:  *)
(* as a literal with a width, the name of an encoding and its digits.      *)
(*   convert         a vector or bytes to a literal     cryptoltypes.py    *)
(*   Literal         a literal to a word of Cryptol     Data/Expression.hs *)
(*   BitsValue       a literal to a vector              commands.py        *)
(* Each kind of value is a pair of its constructor and its contents.  Text *)
(* in hexadecimal or base 64 is the sequence of its digits.                *)
(***************************************************************************)
EXTENDS BitVec

Raise(e) == <<"raise", e>>
Failed(x) == x[1] = "raise"

(***************************************************************************)
(* Digits of w bits, most significant first.                               *)
(***************************************************************************)
Number(ds, w) ==
    Total(Len(ds), [k \in 1 .. Len(ds) |-> ds[k] * Pow2[w * (Len(ds) - k)]])
Digits(v, w, len) == [k \in 1 .. len |-> LowBits(ShiftRight(v, w * (len - k)), w)]

\* How many digits v has; 0 has one.
DigitCount(v, w) == CHOOSE n \in 1 .. v + 1 :
    /\ v < Pow2[w * n]
    /\ n = 1 \/ v >= Pow2[w * (n - 1)]

\* format(v, '#0wx')[2:], and showHex with justifyRight.
PaddedHex(v, size) ==
    LET width == (size \div 4) + (IF size % 4 = 0 THEN 0 ELSE 1)
        len == DigitCount(v, 4)
    IN  Digits(v, 4, IF width > len THEN width ELSE len)

\* b64encode: sextets, the last one filled with zero bits.
Base64(bs) ==
    LET fill == (3 - (Len(bs) % 3)) % 3
    IN  [digits |-> Digits(Number(bs, 8) * Pow2[2 * fill], 6, (8 * Len(bs) + 2 * fill) \div 6),
         fill |-> fill]
FromBase64(text) == ShiftRight(Number(text.digits, 6), 2 * text.fill)

(***************************************************************************)
(* From Python to the server.                                              *)
(***************************************************************************)
BytesBits(bs, width) ==
    <<"bits", [encoding |-> "base64", width |-> width, data |-> Base64(bs)]>>

BVBits(a) ==
    <<"bits", [encoding |-> "hex", width |-> a.size, data |-> PaddedHex(a.value, a.size)]>>

BitVectorBits(a) ==
    LET len == IF a.value = 0 THEN 0 ELSE DigitCount(a.value, 8)
    IN  BytesBits(Digits(a.value, 8, len), a.size)

\* int.to_bytes(val, len, 'big', signed=True); CPython 3.11 writes -1 in zero bytes too.
SignedBytes(v, len) ==
    LET Half == IF len = 0 THEN 1 ELSE Pow2[8 * len - 1]
    IN  IF v < -Half \/ v >= Half
        THEN Raise("OverflowError")
        ELSE <<"bytes", Digits(LowBits(v, 8 * len), 8, len)>>

\* Bitvector(Num(w)).convert: integers and bytes take the width of the type.
convertBitvector(w, v) ==
    CASE v[1] = "int" ->
           LET bs == SignedBytes(v[2], w \div 8)
           IN  IF Failed(bs) THEN bs ELSE BytesBits(bs[2], w)
      [] v[1] = "bytes" -> BytesBits(v[2], w)
      [] v[1] = "BitVector" -> BitVectorBits(v[2])
      [] v[1] = "BV" -> BVBits(v[2])
      [] OTHER -> Raise("ValueError")

Decode(bits) == IF bits.encoding = "base64" THEN FromBase64(bits.data)
                                            ELSE Number(bits.data, 4)

\* A literal with more bits than its type is refused by the type checker.
Literal(bits) ==
    LET n == Decode(bits)
    IN  IF Fits(n, bits.width) THEN <<"Word", [size |-> bits.width, value |-> n]>>
                               ELSE Raise("CryptolError")

(***************************************************************************)
(* From the server to Python.                                              *)
(***************************************************************************)
extend_hex_Behind(ds) == IF Len(ds) % 2 = 1 THEN Append(ds, 0) ELSE ds
extend_hex(ds) == IF Len(ds) % 2 = 1 THEN <<0>> \o ds ELSE ds

\* bytes.fromhex takes digits in pairs; int.from_bytes is big-endian.
FromHex(ds) ==
    Number([k \in 1 .. Len(ds) \div 2 |-> 16 * ds[2 * k - 1] + ds[2 * k]], 8)

BitsValue(bits) ==
    LET n == IF bits.encoding = "base64" THEN FromBase64(bits.data)
                                         ELSE FromHex(extend_hex(bits.data))
        bv == BV(bits.width, n)
    IN  IF bv = ValueError THEN Raise("ValueError") ELSE <<"BV", bv>>
=============================================================================
