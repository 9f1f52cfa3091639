---------------------------- MODULE CryptolJSON ----------------------------
(***************************************************************************)
(* How values travel between the Python client and the server.             *)
(*   to_cryptol       Python value to JSON     cryptoltypes.py             *)
(*   getCryptolExpr   JSON to a Cryptol term   Data/Expression.hs          *)
(*   readBack         Cryptol value to JSON    Data/Expression.hs          *)
(*   from_cryptol_arg JSON to Python value     commands.py                 *)
(* Each kind of value is a pair of its constructor and its contents.       *)
(* Vectors and bytes are in VectorJSON.                                    *)
(***************************************************************************)
EXTENDS VectorJSON, FiniteSetsExt, Folds

\* An exception in a part is an exception of the whole.
Whole(parts, x) ==
    IF \E k \in DOMAIN parts : Failed(parts[k])
    THEN parts[CHOOSE k \in DOMAIN parts : Failed(parts[k])] ELSE x

(***************************************************************************)
(* From Python to the server.                                              *)
(***************************************************************************)
\* Objects with __to_cryptol__: code, and classes of the user.
code(tag, x, parts) ==
    CASE tag = "literal" -> <<"text", x>>
      [] tag = "application" -> Whole(parts, <<"call", parts>>)
      [] tag = "custom" -> <<"text", x>>

is_plausible_json(v) == v # <<"text", "None">>

convert(tag, x, parts) ==
    CASE tag = "bool" -> <<"bool", x>>
      [] tag = "tuple" /\ x = <<>> -> <<"unit", <<>>>>
      [] tag = "tuple" /\ x # <<>> -> Whole(parts, <<"tuple", parts>>)
      [] tag = "dict" -> Whole(parts, <<"record", parts>>)
      [] tag = "int" -> <<"number", x>>
      [] tag = "list" -> Whole(parts, <<"sequence", parts>>)
      [] tag = "bytes" -> BytesBits(x, 8 * Len(x))
      [] tag = "BitVector" -> BitVectorBits(x)
      [] tag = "BV" -> BVBits(x)
      [] tag = "opaque" -> <<"variable", x>>
      [] OTHER -> Raise("TypeError")

\* CryptolType().from_python
RECURSIVE to_cryptol(_)
to_cryptol(v) ==
    LET parts == [k \in DOMAIN v[2] |-> to_cryptol(v[2][k])]
    IN  IF v[1] \in {"literal", "application", "custom"}
        THEN IF is_plausible_json(code(v[1], v[2], parts))
             THEN code(v[1], v[2], parts) ELSE Raise("ValueError")
        ELSE convert(v[1], v[2], parts)

RECURSIVE getCryptolExpr(_)
getCryptolExpr(j) ==
    LET tag == j[1]
        x == j[2]
        parts == [k \in DOMAIN x |-> getCryptolExpr(x[k])]
    IN  CASE tag = "variable" -> <<"Variable", x>>
          [] tag = "unit" -> <<"Tuple", <<>>>>
          [] tag = "bool" -> <<"Bit", x>>
          [] tag = "number" -> <<"Integer", x>>
          [] tag = "bits" -> Literal(x)
          [] tag = "record" -> Whole(parts, <<"Record", parts>>)
          [] tag = "sequence" -> Whole(parts, <<"Seq", parts>>)
          [] tag = "tuple" -> Whole(parts, <<"Tuple", parts>>)
          [] tag = "text" -> <<"Concrete", x>>
          [] tag = "call" -> Whole(parts, <<"Application", parts>>)

(***************************************************************************)
(* From the server to Python.                                              *)
(***************************************************************************)
\* A value without a syntax is bound to a fresh name; a function cannot be,
\* and no answer comes.  The name stands for the value here.
RECURSIVE readBack(_)
readBack(val) ==
    LET tag == val[1]
        x == val[2]
        parts == [k \in DOMAIN x |-> readBack(x[k])]
    IN  CASE tag = "Record" -> Whole(parts, <<"record", parts>>)
          [] tag = "Tuple" /\ x = <<>> -> <<"unit", <<>>>>
          [] tag = "Tuple" /\ x # <<>> -> Whole(parts, <<"tuple", parts>>)
          [] tag = "Bit" -> <<"bool", x>>
          [] tag = "Integer" -> <<"number", x>>
          [] tag = "IntegerModulo" -> <<"integer modulo", x>>
          [] tag = "Word" -> BVBits(x)
          [] tag = "Seq" -> Whole(parts, <<"sequence", parts>>)
          [] tag = "Rational" -> <<"variable", x>>
          [] tag = "Function" -> Raise("CryptolError")

RECURSIVE from_cryptol_arg(_)
from_cryptol_arg(j) ==
    LET tag == j[1]
        x == j[2]
        parts == [k \in DOMAIN x |-> from_cryptol_arg(x[k])]
    IN  CASE tag = "bool" -> <<"bool", x>>
          [] tag = "number" -> <<"int", x>>
          [] tag = "unit" -> <<"tuple", <<>>>>
          [] tag = "tuple" -> Whole(parts, <<"tuple", parts>>)
          [] tag = "record" -> Whole(parts, <<"dict", parts>>)
          [] tag = "sequence" -> Whole(parts, <<"list", parts>>)
          [] tag = "bits" -> BitsValue(x)
          [] tag = "variable" -> <<"opaque", x>>
          [] OTHER -> Raise("ValueError")
=============================================================================
