-------------------------- MODULE MCRemoteSession ---------------------------
(* Two connections, which may share a server; a module that has a file in  *)
(* two directories; two values of one type that cannot be sent.            *)
EXTENDS RemoteSession, TLC

CONSTANTS c1, c2, M, d1, d2, f1, f2

MCFilesOf == [d \in {d1, d2} |-> {M}]
MCStartPath == <<d1>>
Same2 == Permutations({c1, c2})
MCKind == [v \in {f1, f2} |-> "fun"]
MCTried ==
    {[op |-> "loadModule", module |-> M],
     [op |-> "loadFile", file |-> <<M, d2>>], [op |-> "focusedModule"],
     [op |-> "extSearchPath", dir |-> d2],
     [op |-> "evalExpression", values |-> <<f2, f1>>],
     [op |-> "use", name |-> <<"fun", 0>>]}
=============================================================================
