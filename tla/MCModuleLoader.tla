--------------------------- MODULE MCModuleLoader ---------------------------
(***************************************************************************)
(* A small file system for ModuleLoader: a prelude, two modules A and B    *)
(* and a functor F, in two directories, of which d1 is on the search path. *)
(***************************************************************************)
EXTENDS ModuleLoader

CONSTANTS A, B, F, d1, d2, mem

MCName == {Cryptol, A, B, F}
MCDir == {d1, d2}
MCSearchPath == <<d1>>

Source(n, imports, functor, params, fault) ==
  [name |-> n, imports |-> imports, functor |-> functor, params |-> params, fault |-> fault]
Module(n, imports) == Source(n, imports, NoModule, FALSE, "none")
Functor(n, imports) == Source(n, imports, NoModule, TRUE, "none")
Faulty(n, fault) == Source(n, <<>>, NoModule, FALSE, fault)

MCBuiltIn == [n \in {Cryptol} |-> Module(Cryptol, <<>>)]

\* A disk whose files are those of the pairs <<path, text>>.
Holding(files) ==
  [p \in MCDir \X MCName |->
     IF \E f \in files : f[1] = p THEN (CHOOSE f \in files : f[1] = p)[2] ELSE NoFile]

\* A imports B, and an instance of a functor that imports B.
Layered == Holding({
  <<<<d1, A>>, Source(A, <<Plain(B)>>, Plain(F), FALSE, "none")>>,
  <<<<d1, B>>, Module(B, <<>>)>>,
  <<<<d1, F>>, Functor(F, <<Plain(B)>>)>>})

\* The same with another B, in the directory that is off the search path.
Shadowed == Holding({
  <<<<d2, A>>, Module(A, <<Plain(B), preludeName>>)>>,
  <<<<d2, B>>, Module(B, <<ParamInst(F)>>)>>,
  <<<<d1, B>>, Module(B, <<>>)>>,
  <<<<d1, F>>, Source(F, <<>>, NoModule, TRUE, "none")>>})

\* A and B import each other; F is an instance of itself.
Cyclic == Holding({
  <<<<d1, A>>, Module(A, <<Plain(B)>>)>>,
  <<<<d1, B>>, Module(B, <<Plain(A)>>)>>,
  <<<<d2, F>>, Source(F, <<>>, Plain(F), FALSE, "none")>>})

\* A imports a functor as if it were a module; B is an instance with parameters.
Misused == Holding({
  <<<<d1, A>>, Module(A, <<Plain(F)>>)>>,
  <<<<d1, B>>, Source(B, <<ParamInst(F)>>, Plain(F), TRUE, "none")>>,
  <<<<d1, F>>, Functor(F, <<>>)>>})

\* A prelude of the user's own, which needs a module that needs the prelude.
OwnPrelude == Holding({
  <<<<d1, Cryptol>>, Module(Cryptol, <<Plain(B)>>)>>,
  <<<<d1, B>>, Module(B, <<>>)>>,
  <<<<d2, Cryptol>>, Module(Cryptol, <<>>)>>,
  <<<<d2, A>>, Module(A, <<ParamInst(A)>>)>>})

\* Texts that some pass rejects.
Broken == Holding({
  <<<<d1, A>>, Faulty(A, "check")>>,
  <<<<d1, B>>, Faulty(B, "parse")>>,
  <<<<d2, B>>, Module(A, <<>>)>>,
  <<<<d2, A>>, Module(A, <<Plain(B)>>)>>,
  <<<<d1, F>>, Source(F, <<>>, NoModule, TRUE, "addParams")>>})

AllDisks == {Layered, Shadowed, Cyclic, Misused, OwnPrelude, Broken}
SomeDisks == {Layered, Shadowed}
=============================================================================
