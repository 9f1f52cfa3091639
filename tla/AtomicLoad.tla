----------------------------- MODULE AtomicLoad -----------------------------
(***************************************************************************)
(* What a load of a Cryptol module promises.  When the files stay as they  *)
(* are while it runs (a quiet one), it answers in one step: if every       *)
(* module that the requested one depends on can be loaded, the session     *)
(* holds exactly these modules, with the texts that the files hold;        *)
(* otherwise the session stays as it was.  Of other loads nothing is said  *)
(* but that one without success leaves the session as it was.              *)
(***************************************************************************)
EXTENDS ModuleText

CONSTANT Disks

VARIABLES
  disk,    \* the file system
  loaded,  \* the modules of the session: name, path and text
  focus,   \* the module that the session is about
  request, \* what is asked for, or NoModule
  result   \* how the last load ended

vars == <<disk, loaded, focus, request, result>>

Request == [by: {"name"}, module: ModName, quiet: BOOLEAN]
             \cup [by: {"path"}, path: Dir \X Name, quiet: BOOLEAN]

\* The directories that are searched for a request.
Dirs(req) == IF req.by = "name" THEN SearchPath ELSE <<req.path[1]>> \o SearchPath

RootPath(req) ==
  IF req.by = "name" THEN FindModule(disk, Dirs(req), req.module)
  ELSE FindFile(disk, Dirs(req), req.path[2])
Root(req) ==
  IF req.by = "name" THEN req.module ELSE Plain(Contents(disk, RootPath(req)).name)

\* Where the text of a module is, and the text.
PathOf(req, m) ==
  IF m = Root(req) THEN RootPath(req) ELSE FindModule(disk, Dirs(req), m)
TextOf(req, m) == Contents(disk, PathOf(req, m))
Readable(req, m) == PathOf(req, m) # NoFile /\ TextOf(req, m).fault # "parse"

DependsOn(req, m) ==
  IF Readable(req, m)
  THEN {Dependencies(TextOf(req, m))[i] : i \in DOMAIN Dependencies(TextOf(req, m))}
  ELSE {}

Needs(req, m) == {d.name : d \in DependsOn(req, m)}
Edges(req) == UNION {{m} \X Needs(req, m) : m \in ModName}

\* The modules that start leads to, itself included: those that every set has
\* that has the start and, with a module, what that module needs.
Closed(edges, S) == \A e \in edges : e[1] \in S => e[2] \in S
Closure(edges, start) ==
  {m \in ModName : \A S \in SUBSET ModName : start \subseteq S /\ Closed(edges, S) => m \in S}

\* A module can be loaded on its own account: its text is the right one.
Good(req, m) ==
  /\ Readable(req, m)
  /\ TextOf(req, m).name = m.base
  /\ TextOf(req, m).fault = "none" \/ (TextOf(req, m).fault = "addParams" /\ ~m.paramInst)
  /\ m.paramInst => TextOf(req, m).params
  /\ \A d \in DependsOn(req, m) :
       d.how = "import" /\ Readable(req, d.name)
         => ~IsParametrized(d.name, TextOf(req, d.name))

Needed(req) == Closure(Edges(req), {Root(req)})

\* Each module that is needed is good, and none depends on itself.
Loadable(req) ==
  /\ RootPath(req) # NoFile
  /\ LET edges == Edges(req)
     IN  \A m \in Closure(edges, {Root(req)}) :
           Good(req, m) /\ m \notin Closure(edges, Needs(req, m))

Modules(req) ==
  {[name |-> m, path |-> PathOf(req, m), text |-> TextOf(req, m)] : m \in Needed(req)}

Init ==
  /\ disk \in Disks
  /\ loaded = {} /\ focus = NoModule
  /\ request = NoModule /\ result = "none"

Edit ==
  /\ request # NoModule => ~request.quiet
  /\ disk' \in Disks
  /\ UNCHANGED <<loaded, focus, request, result>>

Ask(req) ==
  /\ request = NoModule
  /\ request' = req /\ result' = "none"
  /\ UNCHANGED <<disk, loaded, focus>>

\* A request for a file that is nowhere is refused at once.
Refuse(req) ==
  /\ request = NoModule
  /\ RootPath(req) = NoFile
  /\ result' = "failed"
  /\ UNCHANGED <<disk, loaded, focus, request>>

Answer ==
  /\ request # NoModule /\ request.quiet
  /\ request' = NoModule
  /\ \/ /\ result' = "loaded" /\ Loadable(request)
        /\ loaded' = Modules(request) /\ focus' = Root(request)
     \/ /\ result' = "failed" /\ ~Loadable(request)
        /\ UNCHANGED <<loaded, focus>>
  /\ UNCHANGED disk

\* Files that change may be read before or after, in any mixture.
AnswerDisturbed ==
  /\ request # NoModule /\ ~request.quiet
  /\ request' = NoModule
  /\ result' \in {"loaded", "failed"}
  /\ result' = "failed" => UNCHANGED <<loaded, focus>>
  /\ UNCHANGED disk

Interrupt ==
  /\ request # NoModule
  /\ request' = NoModule /\ result' = "interrupted"
  /\ UNCHANGED <<disk, loaded, focus>>

Next == Edit \/ (\E req \in Request : Ask(req) \/ Refuse(req)) \/ Answer
        \/ AnswerDisturbed \/ Interrupt

Spec == Init /\ [][Next]_vars
=============================================================================
