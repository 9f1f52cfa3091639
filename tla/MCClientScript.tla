--------------------------- MODULE MCClientScript ---------------------------
(* Values, types and questions for ClientScript. *)
EXTENDS ClientScript

ASSUME PowersOfTwo == \A n \in 0 .. 20 : Pow2[n] = 2^n

\* Around zero, around whole hex digits and bytes.
WireSizes == {0, 1, 3, 4, 7, 8, 9, 12, 16, 17}
WireVectors == {BV(n, v) : <<n, v>> \in
    {<<m, x>> \in WireSizes \X {0, 1, 10, 127, 128, 255, 256, 2748, 65535, 65536, 131071} :
       x < 2^m}}

ByteStringsDef == {<<>>, <<0>>, <<1>>, <<128>>, <<255>>, <<1, 2>>, <<0, 255>>}

b8 == <<"BV", BV(8, 255)>>
PythonValuesDef ==
    {<<"BV", a>> : a \in WireVectors} \cup {<<"BitVector", a>> : a \in WireVectors}
    \cup {<<"bytes", bs>> : bs \in ByteStringsDef \cup {<<1, 0, 255>>}}
    \cup {<<"bool", TRUE>>, <<"int", 300>>, <<"int", -1>>, <<"literal", "x">>,
          <<"custom", "y">>, <<"custom", "None">>, <<"opaque", "v1">>, <<"other", <<>>>>,
          <<"tuple", <<>>>>, <<"tuple", <<b8>>>>, <<"list", <<>>>>,
          <<"list", <<<<"list", <<b8>>>>, <<"list", <<b8, b8>>>>>>>>,
          <<"dict", [x |-> b8, y |-> <<"tuple", <<<<"int", 5>>, <<"opaque", "v1">>>>>>]>>,
          <<"dict", [x |-> <<"other", <<>>>>]>>, <<"tuple", <<b8, <<"custom", "None">>>>>>,
          <<"application", <<<<"literal", "f">>, <<"bool", FALSE>>,
                             <<"application", <<<<"literal", "g">>, b8>>>>>>>>}

mod == <<"IntegerModulo", <<3, 7>>>>
half == <<"Rational", "half">>
w16 == <<"Word", BV(16, 10)>>
CryptolValuesDef ==
    {<<"Word", a>> : a \in WireVectors}
    \cup {<<"Bit", TRUE>>, <<"Integer", -4>>, mod, half, <<"Function", <<>>>>,
          <<"Tuple", <<>>>>, <<"Tuple", <<half, w16, half>>>>, <<"Tuple", <<w16, mod>>>>,
          <<"Seq", <<>>>>, <<"Seq", <<<<"Seq", <<w16>>>>, <<"Seq", <<w16>>>>>>>>,
          <<"Record", [x |-> <<"Tuple", <<w16>>>>, y |-> half]>>,
          <<"Record", [x |-> <<"Function", <<>>>>]>>}

TypedInts == {-32769, -32768, -2049, -129, -128, -1, 0, 1, 127, 128, 255, 32767, 32768}
TypedValuesDef ==
    {0, 1, 8, 12, 16, 17} \X
        ({<<"int", v>> : v \in TypedInts} \cup {<<"bytes", bs>> : bs \in ByteStringsDef}
         \cup {<<"BV", BV(8, 3)>>, <<"BitVector", BV(9, 256)>>,
               <<"list", <<>>>>})

n5 == <<"TCNum", 5>>
a == <<"TVar", [name |-> "a", kind |-> <<"Num", <<>>>>]>>
inf == <<"TCInf", <<>>>>
bit == <<"TCBit", <<>>>>
word == <<"TCSeq", <<n5, bit>>>>
int == <<"TCInteger", <<>>>>
arrow == <<"arrow", <<<<"Num", <<>>>>, <<"Type", <<>>>>>>>>
Types ==
    {n5, a, inf, bit, word, int, <<"TCRational", <<>>>>, <<"TCIntMod", <<n5>>>>,
     <<"TCSeq", <<a, word>>>>, <<"TCFun", <<word, bit>>>>,
     <<"TCFun", <<word, <<"TCFun", <<int, a>>>>>>>>,
     <<"TCFun", <<<<"TCFun", <<word, bit>>>>, int>>>>,
     <<"TCTuple", <<>>>>, <<"TCTuple", <<int, word>>>>, <<"TRec", [x |-> word, y |-> int]>>,
     <<"TNewtype", <<>>>>, <<"TCArray", <<int, int>>>>,
     <<"TCWidth", <<a>>>>, <<"TCLenFromThenTo", <<n5, a, inf>>>>,
     <<"TCSeq", <<<<"TCAdd", <<a, <<"TCMul", <<n5, a>>>>>>>>, <<"TNewtype", <<>>>>>>>>}
    \cup {<<f, <<n5, a>>>> : f \in DOMAIN TypeFunction \ {"TCWidth", "TCLenFromThenTo"}}

SchemasDef ==
    {[vars |-> <<>>, props |-> <<>>, body |-> t] : t \in Types}
    \cup {[vars |-> <<[name |-> "n", kind |-> <<"Num", <<>>>>], [name |-> "t", kind |-> arrow]>>,
           props |-> ps, body |-> <<"TCFun", <<a, word>>>>] :
            ps \in {<<<<c, <<t>>>>, <<">=", <<a, n5>>>>, <<"Literal", <<n5, a>>>>>> :
                      c \in {"fin", "Zero", "Logic", "Cmp", "SignedCmp", "Ring", "Eq"},
                      t \in {a, word, <<"TCTuple", <<>>>>}}}

Outcomes == {<<"pass", <<>>>>, <<"fail", <<w16, half>>>>, <<"fail", <<mod>>>>,
             <<"error", <<w16>>, <<"str", "division by zero">>>>}
ChecksDef ==
    [tests : {None, All, PyInt(0), PyInt(1), PyInt(100), PyInt(256),
              <<"bool", FALSE>>, <<"bool", TRUE>>},
     possible : {None, PyInt(1), PyInt(100), PyInt(101), PyInt(256)}, outcome : Outcomes]

Says == {<<"Unsatisfiable", <<>>>>, <<"Invalid", <<w16, half>>>>, <<"Invalid", <<mod>>>>,
         <<"OfflineSMTQuery", "script">>}
QueriesDef ==
    [query : {"prove", "safe"}, solver : DOMAIN Solvers, hash_consing : BOOLEAN,
     count : {None}, says : Says]
    \cup [query : {"sat"}, solver : {"Z3", "W4_Z3"}, hash_consing : BOOLEAN,
          count : {None, PyInt(1), PyInt(3)},
          says : {<<"Unsatisfiable", <<>>>>, <<"Satisfied", <<<<>>>>>>,
                  <<"Satisfied", <<<<w16, half>>, <<half, w16>>>>>>,
                  <<"Satisfied", <<<<w16>>, <<mod>>>>>>, <<"OfflineSMTQuery", "script">>}]

IntsDef == -9 .. 20
=============================================================================
