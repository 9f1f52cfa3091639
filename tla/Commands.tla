------------------------------ MODULE Commands ------------------------------
(***************************************************************************)
(* Requests of the client with options, and answers that it interprets     *)
(* (commands.py, solver.py), with how the server reads the former          *)
(* (Check.hs, Sat.hs).  None stands for Python's None, and an absent field *)
(* of a request.                                                           *)
(***************************************************************************)
EXTENDS CryptolJSON, TLC

None == <<"None", <<>>>>
PyInt(n) == <<"int", n>>
All == <<"str", "all">>

(***************************************************************************)
(* check.                                                                  *)
(***************************************************************************)
\* 0 and False count as not given; True is sent as a JSON true.
Falsy(v) == v \in {None, <<"int", 0>>, <<"bool", FALSE>>}
CryptolCheck(num_tests) ==
    [number_of_tests |-> IF Falsy(num_tests) THEN None ELSE num_tests]

CheckParams(req) ==
    CASE req.number_of_tests = None -> <<"RandomCheckMode", 100>>
      [] req.number_of_tests = All -> <<"ExhaustiveCheckMode", <<>>>>
      [] req.number_of_tests[1] = "int" ->
           <<"RandomCheckMode", req.number_of_tests[2]>>
      [] OTHER -> Raise("parse")

\* Exhaustive when asked for, or when there are no more values than tests.
\* possible is None for an infinite type.
Tests(mode, possible) ==
    CASE possible # None /\ mode[1] = "ExhaustiveCheckMode" -> <<"exhaustive", possible[2]>>
      [] possible # None /\ mode[1] = "RandomCheckMode" ->
           IF possible[2] <= mode[2] THEN <<"exhaustive", possible[2]>>
                                     ELSE <<"random", mode[2]>>
      [] possible = None /\ mode[1] = "RandomCheckMode" -> <<"random", mode[2]>>
      [] OTHER -> Raise("not testable")

\* The answer, for a test that passed, failed or ended in an error.
CheckJSON(res, run, possible) ==
    [result |-> res[1], tests_run |-> run, tests_possible |-> possible,
     arguments |-> [k \in DOMAIN res[2] |-> readBack(res[2][k])],
     message |-> IF res[1] = "error" THEN res[3] ELSE None]

CheckReport(res) ==
    LET args == [k \in DOMAIN res.arguments |-> from_cryptol_arg(res.arguments[k])]
        report == [success |-> res.result = "pass",
                   args |-> IF res.result = "pass" THEN <<>> ELSE args,
                   error_msg |-> IF res.result = "error" THEN res.message ELSE None,
                   tests_run |-> res.tests_run,
                   tests_possible |-> res.tests_possible]
    IN  IF res.result \in {"pass", "fail", "error"}
        THEN Whole(args, <<"CheckReport", report>>) ELSE Raise("ValueError")

(***************************************************************************)
(* prove, sat and safe.                                                    *)
(***************************************************************************)
\* The solvers of solver.py, and the names that the server knows.
Plain == "CVC4" :> "cvc4" @@ "YICES" :> "yices" @@ "Z3" :> "z3" @@
         "BOOLECTOR" :> "boolector" @@ "MATHSAT" :> "mathsat" @@ "ABC" :> "abc" @@
         "OFFLINE" :> "offline" @@ "ANY" :> "any"
SBV == "SBV_CVC4" :> "sbv-cvc4" @@ "SBV_YICES" :> "sbv-yices" @@ "SBV_Z3" :> "sbv-z3" @@
       "SBV_BOOLECTOR" :> "sbv-boolector" @@ "SBV_MATHSAT" :> "sbv-mathsat" @@
       "SBV_ABC" :> "sbv-abc" @@ "SBV_OFFLINE" :> "sbv-offline" @@ "SBV_ANY" :> "sbv-any"
W4 == "W4_CVC4" :> "w4-cvc4" @@ "W4_YICES" :> "w4-yices" @@ "W4_Z3" :> "w4-z3" @@
      "W4_BOOLECTOR" :> "w4-boolector" @@ "W4_OFFLINE" :> "w4-offline" @@
      "W4_ABC" :> "w4-any"
Solvers == Plain @@ SBV @@ W4

SBVproverNames ==
    {"cvc4", "yices", "z3", "boolector", "mathsat", "abc", "offline", "any",
     "sbv-cvc4", "sbv-yices", "sbv-z3", "sbv-boolector", "sbv-mathsat", "sbv-abc",
     "sbv-offline", "sbv-any"}
W4proverNames == {"w4-cvc4", "w4-yices", "w4-z3", "w4-boolector", "w4-abc",
                  "w4-offline", "w4-any"}

Solver(name, hash_consing) == [name |-> name, hash_consing |-> hash_consing]
without_hash_consing(s) == Solver(s.name, FALSE)

CryptolProveSat(qtype, s, count) ==
    [query_type |-> qtype, prover |-> s.name,
     hash_consing |-> IF s.hash_consing THEN "true" ELSE "false",
     result_count |-> IF count = None THEN All ELSE count]
CryptolProve(s) == CryptolProveSat("prove", s, PyInt(1))
CryptolSat(s, count) == CryptolProveSat("sat", s, count)
CryptolSafe(s) == CryptolProveSat("safe", s, PyInt(1))

getProverConfig(name) ==
    IF name \in W4proverNames THEN <<"What4", name>>
    ELSE IF name \in SBVproverNames THEN <<"SBV", name>>
    ELSE Raise("proverError")

ProveSatParams(req) ==
    LET num == IF req.result_count = All THEN <<"AllSat", <<>>>>
               ELSE <<"SomeSat", req.result_count[2]>>
    IN  [query |-> CASE req.query_type = "sat" -> <<"SatQuery", num>>
                     [] req.query_type = "prove" -> <<"ProveQuery", <<>>>>
                     [] req.query_type = "safe" -> <<"SafetyQuery", <<>>>>,
         prover |-> getProverConfig(req.prover),
         hConsing |-> req.hash_consing \in {"on", "true", "yes"}]

Values(vs) == [k \in DOMAIN vs |-> readBack(vs[k])]

ProveSatJSON(res) ==
    CASE res[1] = "Unsatisfiable" -> [result |-> "unsatisfiable"]
      [] res[1] = "Invalid" -> [result |-> "invalid", counterexample |-> Values(res[2])]
      [] res[1] = "Satisfied" ->
           [result |-> "satisfied", models |-> [m \in DOMAIN res[2] |-> Values(res[2][m])]]
      [] res[1] = "OfflineSMTQuery" -> [result |-> "offline", query |-> res[2]]

Listed(js) ==
    LET args == [k \in DOMAIN js |-> from_cryptol_arg(js[k])]
    IN  Whole(args, <<"list", args>>)

Unsatisfiable_Swapped(qtype) == <<"bool", qtype = "sat">>
Unsatisfiable(qtype) == <<"bool", qtype \in {"prove", "safe"}>>

process_result(qtype, res) ==
    CASE res.result = "unsatisfiable" -> Unsatisfiable(qtype)
      [] res.result = "invalid" -> Listed(res.counterexample)
      [] res.result = "satisfied" ->
           Listed(MapThenFoldSet(LAMBDA x, y : y \o x, <<>>,
                                 LAMBDA m : res.models[m], LAMBDA S : Max(S),
                                 DOMAIN res.models))
      [] res.result = "offline" -> <<"OfflineSmtQuery", res.query>>
      [] OTHER -> Raise("ValueError")
=============================================================================
