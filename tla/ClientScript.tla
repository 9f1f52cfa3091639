---------------------------- MODULE ClientScript ----------------------------
(***************************************************************************)
(* A Python script that uses the client.  Between its calls on vectors     *)
(* (VectorScript) it sends a value to the server or receives one from it,  *)
(* receives a type, or asks a question about a property.                   *)
(***************************************************************************)
EXTENDS VectorScript, Commands, CryptolTypes

CONSTANTS
  PythonValues,   \* values to send, beside those made of reg
  CryptolValues,  \* values of the server to receive
  TypedValues,    \* pairs of a width and a value to send at that width
  Schemas,        \* type schemas to receive
  Checks,         \* tests: what is asked, the number of values, the outcome
  Queries         \* proofs: what is asked, and what the prover says

Sent(v) == IF Failed(v) THEN v ELSE getCryptolExpr(v)

\* Values made of reg: one inside another, and an application to it.
MadeOf(a) ==
    {<<"BV", a>>, <<"BitVector", a>>, <<"tuple", <<<<"BV", a>>, <<"int", a.value>>>>>>,
     <<"list", <<<<"BV", a>>, <<"BV", zero(a)>>>>>>,
     <<"application", <<<<"literal", "f">>, <<"BV", a>>, <<"tuple", <<>>>>>>>>}

Send ==
    \/ \E v \in MadeOf(reg) : Outcome("send", v, Sent(to_cryptol(v)))
    \/ reg = BV(0, 0) /\ \E v \in PythonValues : Outcome("send", v, Sent(to_cryptol(v)))

SendTyped == reg = BV(0, 0) /\ \E t \in TypedValues :
    Outcome("typed", t, Sent(convertBitvector(t[1], t[2])))

Received(j) == IF Failed(j) THEN j ELSE from_cryptol_arg(j)

Receive ==
    \/ Outcome("receive", <<"Word", reg>>, Received(readBack(<<"Word", reg>>)))
    \/ reg = BV(0, 0) /\ \E x \in CryptolValues :
          Outcome("receive", x, Received(readBack(x)))

ReceiveType == reg = BV(0, 0) /\ \E s \in Schemas :
    Outcome("type", s, to_schema(JSONSchema(s)))

AskCheck == reg = BV(0, 0) /\ \E q \in Checks :
    LET tests == CheckParams(CryptolCheck(q.tests))
        how == IF Failed(tests) THEN tests ELSE Tests(tests, q.possible)
    IN  Outcome("check", q,
            [how |-> how,
             report |-> IF Failed(how) THEN how
                        ELSE CheckReport(CheckJSON(q.outcome, how[2], q.possible))])

AskProver == reg = BV(0, 0) /\ \E q \in Queries :
    LET default == Solver(Solvers[q.solver], TRUE)
        s == IF q.hash_consing THEN default ELSE without_hash_consing(default)
        req == CASE q.query = "sat" -> CryptolSat(s, q.count)
                 [] q.query = "prove" -> CryptolProve(s)
                 [] q.query = "safe" -> CryptolSafe(s)
    IN  Outcome("prover", q, [params |-> ProveSatParams(req),
                              answer |-> process_result(q.query, ProveSatJSON(q.says))])

Next == \/ VectorNext
        \/ Send \/ SendTyped \/ Receive \/ ReceiveType \/ AskCheck \/ AskProver

Spec == Init /\ [][Next]_vars

(***************************************************************************)
(* Values in transit.                                                      *)
(***************************************************************************)
RECURSIVE Denotes(_, _)

\* Python's v stands for the value, or the term, x of Cryptol.
Denotes(v, x) ==
    LET parts == /\ DOMAIN v[2] = DOMAIN x[2]
                 /\ \A k \in DOMAIN v[2] : Denotes(v[2][k], x[2][k])
    IN  CASE v[1] = "bool" -> x = <<"Bit", v[2]>>
          [] v[1] = "int" -> x = <<"Integer", v[2]>>
          [] v[1] \in {"BV", "BitVector"} -> x = <<"Word", v[2]>>
          [] v[1] = "bytes" -> x[1] = "Word" /\ Bits(x[2]) = BitsOf([bytes |-> v[2]])
          [] v[1] = "list" -> x[1] = "Seq" /\ parts
          [] v[1] = "tuple" -> x[1] = "Tuple" /\ parts
          [] v[1] = "dict" -> x[1] = "Record" /\ parts
          [] v[1] = "application" -> x[1] = "Application" /\ parts
          [] v[1] \in {"literal", "custom"} -> x = <<"Concrete", v[2]>>
          [] v[1] = "opaque" -> x \in {<<"Variable", v[2]>>, <<"Rational", v[2]>>}
          [] OTHER -> FALSE

RECURSIVE Contains(_, _)

\* Some part of x is one of the leaves.
Contains(x, leaves) ==
    \/ x \in leaves
    \/ /\ x[1] \in {"list", "tuple", "dict", "application", "Seq", "Tuple", "Record"}
       /\ \E k \in DOMAIN x[2] : Contains(x[2][k], leaves)

Unsupported == {<<"custom", "None">>, <<"other", <<>>>>}
NotReceived == {<<"IntegerModulo", <<3, 7>>>>, <<"Function", <<>>>>}

\* a and b are the same but for zeros in front of one of them.
SameButZeros(a, b) == IF Len(a) <= Len(b) THEN b = Zeros(Len(b) - Len(a)) \o a
                                          ELSE a = Zeros(Len(a) - Len(b)) \o b

\* An integer at the type of a vector of w bits arrives in two's complement, in
\* the whole bytes that fit into w bits, and is refused when they do not hold it.
IntArrives(w, v, x) ==
    LET m == 8 * (w \div 8)
    IN  /\ Failed(x) \/ x = <<"Word", [size |-> w, value |-> v % 2^m]>>
        /\ m > 0 => (Failed(x) <=> v \notin -(2^(m - 1)) .. 2^(m - 1) - 1)

\* Bytes at the type of a vector of w bits are their own bits, with zeros in
\* front, or without some that are in front, and are refused when w bits are too
\* few for their number.
BytesArriveAt(w, bs, x) ==
    LET bits == BitsOf([bytes |-> bs])
    IN  IF \E k \in 1 .. Len(bits) - w : bits[k] = 1
        THEN Failed(x)
        ELSE x[1] = "Word" /\ x[2].size = w /\ SameButZeros(Bits(x[2]), bits)

\* A value means on the other side what it meant on this one, through hex
\* and base 64, at any depth, in both directions; what has no meaning there is
\* refused.  A Python int is an Integer of Cryptol and nothing else: Expression.hs
\* gives the literal this type, though it says at line 277 that a JSON integer
\* "can be used at a variety of types".  At the type of a vector of w bits an int
\* has its two's complement and bytes have their bits, w of them: 01 02 at 12 bits
\* is the word 258, and at 8 bits it is refused.  A negative int at a width that is
\* not of whole bytes lacks its topmost ones (cryptoltypes.py:200 leaves those
\* widths open), and an int that takes the topmost bit of the bytes is refused.
ValuesArrive ==
    CASE last.op = "send" ->
           IF Contains(last.arg, Unsupported) THEN Failed(last.result)
           ELSE Denotes(last.arg, last.result)
      [] last.op = "receive" ->
           IF Contains(last.arg, NotReceived) THEN Failed(last.result)
           ELSE Denotes(last.result, last.arg)
      [] last.op = "typed" ->
           LET w == last.arg[1]
               v == last.arg[2]
           IN  CASE v[1] = "int" -> IntArrives(w, v[2], last.result)
                 [] v[1] = "bytes" -> BytesArriveAt(w, v[2], last.result)
                 [] v[1] \in {"BV", "BitVector"} -> Denotes(v, last.result)
                 [] OTHER -> Failed(last.result)
      [] OTHER -> TRUE

(***************************************************************************)
(* Types in transit.                                                       *)
(***************************************************************************)
RECURSIVE Meaning(_)

\* The type that an object of the client stands for, written as it writes
\* itself and read as Cryptol reads it.
Meaning(t) ==
    LET args == [k \in DOMAIN t[2] |-> Meaning(t[2][k])]
    IN  CASE t[1] = "Var" -> TUser(t[2].name, <<>>)
          [] t[1] = "Num" -> <<"TNum", t[2]>>
          [] t[1] = "Bit" -> <<"TBit", <<>>>>
          [] t[1] = "Inf" -> TUser("inf", <<>>)
          [] t[1] \in {"Integer", "Rational"} -> TUser(t[1], <<>>)
          [] t[1] = "Z" -> TUser("Z", args)
          [] t[1] = "Bitvector" -> <<"TSeq", <<args[1], <<"TBit", <<>>>>>>>>
          [] t[1] = "Sequence" -> <<"TSeq", args>>
          [] t[1] = "Function" -> <<"TFun", args>>
          [] t[1] = "Tuple" -> <<"TTuple", args>>
          [] t[1] = "Record" -> <<"TRecord", args>>
          [] t[1] \in DOMAIN Written -> TUser(Written[t[1]], args)

RECURSIVE Domains(_)
Domains(t) == IF t[1] = "TFun" THEN <<t[2][1]>> \o Domains(t[2][2]) ELSE <<>>

RECURSIVE Unread(_)
Unread(t) == \/ t[1] \in {"TNewtype", "TCArray", "TCLenFromThenTo"}
             \/ t = <<"TCTuple", <<>>>>
             \/ /\ t[1] \notin {"TCNum", "TVar"}
                /\ \E k \in DOMAIN t[2] : Unread(t[2][k])

\* The client's object for a type and the type that the server itself reads
\* from the same JSON are the same, operand by operand; so are the types of
\* the arguments; a constraint is kept with its subject or becomes None, and
\* never moves to another place.  The client gives up on a type exactly when
\* it has a part the client has no class for.
TypesArrive ==
    last.op = "type" =>
        LET s == last.arg
            r == last.result
            unread == \/ Unread(s.body)
                      \/ \E k \in DOMAIN s.props : /\ s.props[k][1] \in DOMAIN Prop
                                                   /\ Unread(s.props[k][2][1])
        IN  IF unread THEN Raised(r)
            ELSE LET body == getType(JSONType(s.body))
                     args == argument_types(r)
                 IN  /\ Meaning(r[2].body) = body
                     /\ [k \in DOMAIN args |-> Meaning(args[k])] = Domains(body)
                     /\ Len(r[2].variables) = Len(s.vars)
                     /\ \A k \in DOMAIN s.vars : r[2].variables[k][1] = s.vars[k].name
                     /\ Len(r[2].propositions) = Len(s.props)
                     /\ \A k \in DOMAIN s.props :
                          LET p == r[2].propositions[k]
                          IN  \/ p[1] = "None" /\ s.props[k][1] \notin DOMAIN Prop
                              \/ /\ p[1] = Prop[s.props[k][1]]
                                 /\ Meaning(p[2][1]) = getType(JSONType(s.props[k][2][1]))

(***************************************************************************)
(* Questions.                                                              *)
(***************************************************************************)
AllDenote(vs, xs) == DOMAIN vs = DOMAIN xs /\ \A k \in DOMAIN xs : Denotes(vs[k], xs[k])
NoAnswer(xs) == \E k \in DOMAIN xs : Contains(xs[k], NotReceived)

\* The values of all models, one model after another.
Flat(models) == MapThenFoldSet(LAMBDA x, y : y \o x, <<>>, LAMBDA m : models[m],
                               LAMBDA S : Max(S), DOMAIN models)

\* Numbers of tests that the client takes for none given (commands.py:117).
Dropped == {PyInt(0), <<"bool", FALSE>>}

\* What a script asks for with the number of tests t.
HowAsked(t, possible) ==
    LET all == t = All
        n == IF t = None THEN 100 ELSE t[2]
    IN  IF t = <<"bool", TRUE>> THEN Raise("parse")
        ELSE IF possible # None /\ (all \/ possible[2] <= n)
        THEN <<"exhaustive", possible[2]>>
        ELSE IF all THEN Raise("not testable") ELSE <<"random", n>>

CheckTold(q, how, report) ==
    /\ q.tests \in Dropped \/ how = HowAsked(q.tests, q.possible)
    /\ IF Failed(how) \/ NoAnswer(q.outcome[2]) THEN Failed(report)
       ELSE /\ report[2].success = (q.outcome[1] = "pass")
            /\ report[2].error_msg = IF q.outcome[1] = "error" THEN q.outcome[3] ELSE None
            /\ AllDenote(report[2].args, q.outcome[2])

\* The provers, as the constants of the client call them and as the server does:
\* each by itself and with the name of a library before it.
Called == "CVC4" :> "cvc4" @@ "YICES" :> "yices" @@ "Z3" :> "z3" @@
          "BOOLECTOR" :> "boolector" @@ "MATHSAT" :> "mathsat" @@ "ABC" :> "abc" @@
          "OFFLINE" :> "offline" @@ "ANY" :> "any"

ProverAsked(solver, prover) ==
    \E c \in DOMAIN Called :
       \/ solver = c /\ prover = <<"SBV", Called[c]>>
       \/ solver = "SBV_" \o c /\ prover = <<"SBV", "sbv-" \o Called[c]>>
       \/ solver = "W4_" \o c /\ prover = <<"What4", "w4-" \o Called[c]>>

ProverTold(q, params, answer) ==
    /\ params.query = CASE q.query = "sat" ->
                              <<"SatQuery", IF q.count = None THEN <<"AllSat", <<>>>>
                                            ELSE <<"SomeSat", q.count[2]>>>>
                         [] q.query = "prove" -> <<"ProveQuery", <<>>>>
                         [] q.query = "safe" -> <<"SafetyQuery", <<>>>>
    /\ params.hConsing = q.hash_consing
    /\ q.solver = "W4_ABC" \/ ProverAsked(q.solver, params.prover)
    /\ CASE q.says[1] = "Unsatisfiable" -> answer = <<"bool", q.query # "sat">>
         [] q.says[1] = "OfflineSMTQuery" -> answer = <<"OfflineSmtQuery", q.says[2]>>
         [] OTHER ->
              LET values == IF q.says[1] = "Invalid" THEN q.says[2] ELSE Flat(q.says[2])
              IN  IF NoAnswer(values) THEN Failed(answer)
                  ELSE answer[1] = "list" /\ AllDenote(answer[2], values)

\* The server does what the script asked for (how many tests, 100 when it did not
\* say; how many models; which query; the prover that the constant of the client
\* is named after), and the script is told what the server found: True and False
\* only when there is no model or counterexample, and then True for a proof and
\* False for a satisfying value; otherwise the values, in order.  Two requests are
\* left out because the code does something else: 0 or False tests, for which the
\* client sends no number, so that 100 are run, and the solver W4_ABC, which sends
\* "w4-any" (solver.py:57) and so gets the portfolio of all provers of What4
\* instead of "w4-abc", which the server has too (What4.hs:167, 170).
AnswersTold ==
    /\ last.op = "check" => CheckTold(last.arg, last.result.how, last.result.report)
    /\ last.op = "prover" => ProverTold(last.arg, last.result.params, last.result.answer)
=============================================================================
