---------------------------- MODULE CryptolTypes ----------------------------
(***************************************************************************)
(* The types that the answer to "check type" carries.  A type of the       *)
(* server is a pair of its constructor and its arguments; JSONType sends   *)
(* it; to_type (cryptoltypes.py) makes an object of a class of the client, *)
(* a pair of the class and the arguments of its constructor.  getType is   *)
(* the other reader of the same JSON: the server itself, when a type comes *)
(* back in an "instantiate".                                               *)
(***************************************************************************)
EXTENDS Sequences, TLC

Raised(x) == x[1] = "raise"
AllOf(parts, x) ==
    IF \E k \in DOMAIN parts : Raised(parts[k])
    THEN parts[CHOOSE k \in DOMAIN parts : Raised(parts[k])] ELSE x

\* Type functions, and what they are called in JSON.
TypeFunction ==
    "TCAdd" :> "+" @@ "TCSub" :> "-" @@ "TCMul" :> "*" @@ "TCDiv" :> "/" @@
    "TCMod" :> "%" @@ "TCExp" :> "^^" @@ "TCWidth" :> "width" @@
    "TCMin" :> "min" @@ "TCMax" :> "max" @@ "TCCeilDiv" :> "/^" @@
    "TCCeilMod" :> "%^" @@ "TCLenFromThenTo" :> "lengthFromThenTo"

RECURSIVE JSONType(_)
JSONType(t) ==
    LET tag == t[1]
        x == t[2]
        args == [k \in DOMAIN x |-> JSONType(x[k])]
    IN  CASE tag = "TCNum" -> [type |-> "number", value |-> x]
          [] tag = "TCInf" -> [type |-> "inf"]
          [] tag = "TCBit" -> [type |-> "Bit"]
          [] tag = "TCInteger" -> [type |-> "Integer"]
          [] tag = "TCIntMod" -> [type |-> "Z", modulus |-> args[1]]
          [] tag = "TCSeq" /\ x[2][1] = "TCBit" ->
               [type |-> "bitvector", width |-> args[1]]
          [] tag = "TCSeq" /\ x[2][1] # "TCBit" ->
               [type |-> "sequence", length |-> args[1], contents |-> args[2]]
          [] tag = "TCFun" ->
               [type |-> "function", domain |-> args[1], range |-> args[2]]
          [] tag = "TCTuple" /\ x = <<>> -> [type |-> "unit"]
          [] tag = "TCTuple" /\ x # <<>> -> [type |-> "tuple", contents |-> args]
          [] tag = "TCRational" -> [type |-> "Rational"]
          [] tag \in DOMAIN TypeFunction ->
               [type |-> TypeFunction[tag], arguments |-> args]
          [] tag = "TVar" -> [type |-> "variable", kind |-> x.kind, name |-> x.name]
          [] tag = "TNewtype" -> [type |-> "newtype"]
          [] tag = "TRec" -> [type |-> "record", fields |-> args]
          [] OTHER -> [type |-> "unknown"]

\* Constraints.  The tags differ from the constructors by a P.
JSONProp(p) ==
    CASE p[1] \in {"fin", "Zero", "Logic", "Ring", "Field", "Round", "Integral",
                   "Cmp", "SignedCmp"} ->
           [prop |-> p[1], subject |-> JSONType(p[2][1])]
      [] p[1] \in {"==", "!=", "And"} ->
           [prop |-> p[1], left |-> JSONType(p[2][1]), right |-> JSONType(p[2][2])]
      [] p[1] = ">=" ->
           [prop |-> p[1], greater |-> JSONType(p[2][1]), less |-> JSONType(p[2][2])]
      [] p[1] = "Literal" ->
           [prop |-> p[1], size |-> JSONType(p[2][1]), subject |-> JSONType(p[2][2])]
      [] OTHER -> [prop |-> "unknown"]

JSONSchema(s) ==
    [forall |-> s.vars,
     propositions |-> [k \in DOMAIN s.props |-> JSONProp(s.props[k])],
     type |-> JSONType(s.body)]

(***************************************************************************)
(* The client.                                                             *)
(***************************************************************************)
\* Classes of operators, and how their __str__ writes them.
Operator ==
    "+" :> "Plus" @@ "-" :> "Minus" @@ "*" :> "Times" @@ "/" :> "Div" @@
    "/^" :> "CeilDiv" @@ "%" :> "Mod" @@ "%^" :> "CeilMod" @@ "^^" :> "Expt" @@
    "lg2" :> "Log2" @@ "width" :> "Width" @@ "max" :> "Max" @@ "min" :> "Min"
Written ==
    "Plus" :> "+" @@ "Minus" :> "-" @@ "Times" :> "*" @@ "Div" :> "/" @@
    "CeilDiv" :> "/^" @@ "Mod" :> "%" @@ "CeilMod" :> "%^" @@ "Expt" :> "^^" @@
    "Log2" :> "lg2" @@ "Width" :> "width" @@ "Max" :> "max" @@ "Min" :> "min"

\* A kind is a pair; the parts of an arrow stay JSON.
to_kind(k) ==
    IF k[1] \in {"Type", "Num", "Prop"} THEN k
    ELSE IF k[1] = "arrow" THEN <<"CryptolArrowKind", k[2]>>
    ELSE <<"raise", "ValueError">>

RECURSIVE to_type(_)

\* to_type of the arguments in order, then the class.
Made(class, js) ==
    LET args == [k \in DOMAIN js |-> to_type(js[k])]
    IN  AllOf(args, <<class, args>>)

toSequence_Swapped(t) == Made("Sequence", <<t.contents, t.length>>)
toSequence(t) == Made("Sequence", <<t.length, t.contents>>)

to_type(t) ==
    CASE t.type = "variable" -> <<"Var", [name |-> t.name, kind |-> to_kind(t.kind)]>>
      [] t.type = "function" -> Made("Function", <<t.domain, t.range>>)
      [] t.type = "bitvector" -> Made("Bitvector", <<t.width>>)
      [] t.type = "number" -> <<"Num", t.value>>
      [] t.type = "Bit" -> <<"Bit", <<>>>>
      [] t.type = "sequence" -> toSequence(t)
      [] t.type = "inf" -> <<"Inf", <<>>>>
      [] t.type \in DOMAIN Operator -> Made(Operator[t.type], t.arguments)
      [] t.type = "tuple" -> Made("Tuple", t.contents)
      [] t.type = "record" -> Made("Record", t.fields)
      [] t.type = "Integer" -> <<"Integer", <<>>>>
      [] t.type = "Rational" -> <<"Rational", <<>>>>
      [] t.type = "Z" -> Made("Z", <<t.modulus>>)
      [] OTHER -> <<"raise", "NotImplementedError">>

Prop == "fin" :> "Fin" @@ "Cmp" :> "Cmp" @@ "SignedCmp" :> "SignedCmp" @@
        "Zero" :> "Zero" @@ "Arith" :> "Arith" @@ "Logic" :> "Logic"

\* A constraint of any other name is None.
to_prop(p) ==
    IF p.prop \in DOMAIN Prop THEN Made(Prop[p.prop], <<p.subject>>)
                              ELSE <<"None", <<>>>>

to_schema(s) ==
    LET props == [k \in DOMAIN s.propositions |-> to_prop(s.propositions[k])]
        body == to_type(s.type)
    IN  AllOf(Append(props, body),
              <<"CryptolTypeSchema",
                [variables |-> [k \in DOMAIN s.forall |->
                                  <<s.forall[k].name, to_kind(s.forall[k].kind)>>],
                 propositions |-> props, body |-> body]>>)

RECURSIVE argument_types(_)
argument_types(t) ==
    IF t[1] = "CryptolTypeSchema" THEN argument_types(t[2].body)
    ELSE IF t[1] = "Function" THEN <<t[2][1]>> \o argument_types(t[2][2])
    ELSE <<>>

(***************************************************************************)
(* The server as a reader.                                                 *)
(***************************************************************************)
TUser(name, args) == <<"TUser", <<name, args>>>>

RECURSIVE getType(_)
Read(js, x) ==
    LET args == [k \in DOMAIN js |-> getType(js[k])]
    IN  AllOf(args, <<x, args>>)
ReadUser(name, js) ==
    LET args == [k \in DOMAIN js |-> getType(js[k])]
    IN  AllOf(args, TUser(name, args))

getType(t) ==
    CASE t.type = "record" -> Read(t.fields, "TRecord")
      [] t.type = "variable" -> TUser(t.name, <<>>)
      [] t.type = "number" -> <<"TNum", t.value>>
      [] t.type \in {"inf", "Integer", "Rational"} -> TUser(t.type, <<>>)
      [] t.type = "Bit" -> <<"TBit", <<>>>>
      [] t.type = "Z" -> ReadUser("Z", <<t.modulus>>)
      [] t.type = "bitvector" -> Read(<<t.width, [type |-> "Bit"]>>, "TSeq")
      [] t.type = "sequence" -> Read(<<t.length, t.contents>>, "TSeq")
      [] t.type = "function" -> Read(<<t.domain, t.range>>, "TFun")
      [] t.type = "unit" -> <<"TTuple", <<>>>>
      [] t.type = "tuple" -> Read(t.contents, "TTuple")
      [] t.type \in {TypeFunction[f] : f \in DOMAIN TypeFunction} ->
           ReadUser(t.type, t.arguments)
      [] OTHER -> <<"raise", "Didn't understand">>
=============================================================================
