---------------------------- MODULE ModuleLoader ----------------------------
(***************************************************************************)
(* The loader of Cryptol modules: loadModuleByPath and loadModuleByName    *)
(* of Cryptol.ModuleSystem, with the recursion below them in               *)
(* Cryptol.ModuleSystem.Base.  A load works on a copy of the module        *)
(* environment; runModuleM hands the copy back to the caller only when the *)
(* whole load succeeds.                                                    *)
(*                                                                         *)
(* The recursion is a stack of frames, one per doLoadModule that is under  *)
(* way; between findModule and parseModule the module on its way in is in  *)
(* `call'.  The files may be edited at any time.                           *)
(***************************************************************************)
EXTENDS ModuleText

CONSTANTS
  Disks,    \* the contents that the file system takes
  Volatile  \* bound: those it takes on while a load runs

ASSUME DiskAssumption == Disks # {} /\ Disks \subseteq Disk /\ Volatile \subseteq Disks

VARIABLES
  disk,     \* the file system
  env,      \* the ModuleEnv of the session
  work,     \* the ModuleEnv of the load that is running
  stack,    \* the doLoadModule calls under way, innermost last (roLoading)
  call,     \* the module that was found and is about to be read, or NoModule
  request,  \* what is being loaded, or NoModule
  result    \* how the last load ended

vars == <<disk, env, work, stack, call, request, result>>

\* What a load is asked for, and whether the files stay as they are while it runs.
ByName(m, quiet) == [by |-> "name", module |-> m, quiet |-> quiet]
ByPath(path, quiet) == [by |-> "path", path |-> path, quiet |-> quiet]
Request == {ByName(m, quiet) : m \in ModName, quiet \in BOOLEAN}
             \cup {ByPath(path, quiet) : path \in Dir \X Name, quiet \in BOOLEAN}
Result == {"none", "loaded", "failed", "interrupted"}

(***************************************************************************)
(* LoadedModule: its name, where its text came from, the text (the code    *)
(* keeps its fingerprint), and the imports of the type-checked module: for *)
(* an instance, also those of the functor.                                 *)
(***************************************************************************)
LoadedModule == [lmName: ModName, lmFilePath: Path, text: Text,
                 mImports: SUBSET ModName]

(***************************************************************************)
(* ModuleEnv: the two lists of LoadedModules, the modules whose values the *)
(* evaluation environment holds, the focused module and the search path.   *)
(* Name supplies, flags and the declarations made at the prompt are not    *)
(* modelled.                                                               *)
(***************************************************************************)
ModuleEnv == [lmLoadedModules: Seq(LoadedModule), lmLoadedParamModules: Seq(LoadedModule),
              meEvalEnv: SUBSET ModName, meFocusedModule: ModName \cup {NoModule},
              meSearchPath: Seq(Dir)]

initialModuleEnv ==
  [lmLoadedModules |-> <<>>, lmLoadedParamModules |-> <<>>, meEvalEnv |-> {},
   meFocusedModule |-> NoModule, meSearchPath |-> SearchPath]

\* A frame: the ImportSource, the path and text, and what loadDeps has left.
Frame == [isrc: ModName, path: Path, text: Text, todo: Seq(Dependency)]
Call == [isrc: ModName \cup {NoModule}, path: Path]

ASSUME RequestAssumption == NoModule \notin Request \cup Call

Names(list) == {list[i].lmName : i \in DOMAIN list}
isLoaded(e, m) == m \in Names(e.lmLoadedModules) \cup Names(e.lmLoadedParamModules)
FirstNamed(list, m) ==
  list[CHOOSE i \in DOMAIN list : list[i].lmName = m /\ \A j \in DOMAIN list : list[j].lmName = m => i <= j]
\* Only used of a module that is loaded.
lookupModule(e, m) ==
  IF m \in Names(e.lmLoadedModules) THEN FirstNamed(e.lmLoadedModules, m)
  ELSE FirstNamed(e.lmLoadedParamModules, m)

\* A mistaken resetModuleEnv, which keeps the evaluation environment.
resetModuleEnv_KeepsValues(e) ==
  [e EXCEPT !.lmLoadedModules = <<>>, !.lmLoadedParamModules = <<>>, !.meFocusedModule = NoModule]

\* Another, which keeps the loaded modules.
resetModuleEnv_KeepsModules(e) == [e EXCEPT !.meFocusedModule = NoModule]

(***************************************************************************)
(* resetModuleEnv forgets every module.  The unloadModule that follows it  *)
(* in both entry points, and the test for a module of that name from       *)
(* another file in loadModuleByPath, therefore find nothing.               *)
(***************************************************************************)
resetModuleEnv(e) ==
  [e EXCEPT !.lmLoadedModules = <<>>, !.lmLoadedParamModules = <<>>,
            !.meEvalEnv = {}, !.meFocusedModule = NoModule]

Init ==
  /\ disk \in Disks
  /\ env = initialModuleEnv /\ work = initialModuleEnv
  /\ stack = <<>> /\ call = NoModule
  /\ request = NoModule /\ result = "none"

\* Somebody changes the files.
Edit ==
  /\ disk' \in Disks \ {disk}
  /\ request # NoModule => ~request.quiet /\ disk' \in Volatile
  /\ UNCHANGED <<env, work, stack, call, request, result>>

-----------------------------------------------------------------------------
(***************************************************************************)
(* The end of a load without success: an error propagates through every    *)
(* frame, and the caller keeps the environment it had.                     *)
(***************************************************************************)
GiveUp(how) ==
  /\ request' = NoModule /\ result' = how
  /\ stack' = <<>> /\ call' = NoModule /\ work' = env
  /\ UNCHANGED <<disk, env>>

\* A load begins: on the copy, read the module found at path, if any.
Begin(req, copy, isrc, path) ==
  /\ request = NoModule
  /\ IF path = NoFile
     THEN /\ result' = "failed"
          /\ UNCHANGED <<disk, env, work, stack, call, request>>
     ELSE /\ request' = req /\ work' = copy /\ result' = "none"
          /\ call' = [isrc |-> isrc, path |-> path]
          /\ UNCHANGED <<disk, env, stack>>

loadModuleByName(m, quiet) ==
  Begin(ByName(m, quiet), resetModuleEnv(env), m, FindModule(disk, env.meSearchPath, m))

\* The directory of the file is searched first while this load runs.
loadModuleByPath(dir, file, quiet) ==
  LET dirs == <<dir>> \o env.meSearchPath
  IN  Begin(ByPath(InFile(dir, file), quiet), [resetModuleEnv(env) EXCEPT !.meSearchPath = dirs],
            NoModule, FindFile(disk, dirs, file))

\* roLoading
Loading == {stack[i].isrc : i \in DOMAIN stack}

\* A mistaken cycle check, which only looks at the innermost module.
Recursive_Innermost(isrc) == stack # <<>> /\ isrc = stack[Len(stack)].isrc

\* loading: the module on its way in is being loaded already.
Recursive(isrc) == isrc \in Loading

(***************************************************************************)
(* parseModule, then the beginning of doLoadModule.  The file may be gone, *)
(* may not parse, or may be of a module that is being loaded.  A module    *)
(* loaded by path has the name that its text declares.                     *)
(***************************************************************************)
parseModule ==
  /\ call # NoModule
  /\ LET text == Contents(disk, call.path)
         isrc == IF call.isrc = NoModule THEN Plain(text.name) ELSE call.isrc
     IN  IF text = NoFile \/ (text # NoFile /\ text.fault = "parse") \/ (text # NoFile /\ Recursive(isrc))
         THEN GiveUp("failed")
         ELSE /\ stack' = Append(stack, [isrc |-> isrc, path |-> call.path, text |-> text,
                                         todo |-> Dependencies(text)])
              /\ call' = NoModule
              /\ UNCHANGED <<disk, env, work, request, result>>

Top == stack[Len(stack)]
\* The module that loadDeps is at, and the frames without it.
Wanted == Head(Top.todo)
\* A mistaken step of loadDeps, which stays at the module it is at.
Advance_Stays == stack
Advance == [stack EXCEPT ![Len(stack)].todo = Tail(@)]

InLoadDeps == call = NoModule /\ stack # <<>> /\ Top.todo # <<>>

\* loadModuleFrom of a module that is not loaded yet.
loadModuleFrom ==
  /\ InLoadDeps /\ ~isLoaded(work, Wanted.name)
  /\ LET path == FindModule(disk, work.meSearchPath, Wanted.name)
     IN  IF path = NoFile THEN GiveUp("failed")
         ELSE /\ call' = [isrc |-> Wanted.name, path |-> path]
              /\ UNCHANGED <<disk, env, work, stack, request, result>>

\* A mistaken loadI, which lets a parameterized module be imported.
ImportsParam_Never(m) == FALSE

\* loadI: a parameterized module cannot be imported, only instantiated.
ImportsParam(m) ==
  Wanted.how = "import" /\ m \in Names(work.lmLoadedParamModules)

\* loadModuleFrom of a module that is loaded, be it only now: on to the next.
loadDeps ==
  /\ InLoadDeps /\ isLoaded(work, Wanted.name)
  /\ IF ImportsParam(Wanted.name) THEN GiveUp("failed")
     ELSE /\ stack' = Advance
          /\ UNCHANGED <<disk, env, work, call, request, result>>
-----------------------------------------------------------------------------
(***************************************************************************)
(* checkModule and optionalInstantiate reject a text under a wrong name, a *)
(* text that a pass rejects, and `A for an A that has no parameters or     *)
(* that addModParams rejects.                                              *)
(***************************************************************************)
Rejected(isrc, text) ==
  \/ isrc.base # text.name
  \/ text.fault = "check"
  \/ isrc.paramInst /\ (~text.params \/ text.fault = "addParams")

\* The imports of the type-checked module; a functor brings its own.
ImportsOf(e, text) ==
  {AddPrelude(text)[i] : i \in DOMAIN AddPrelude(text)}
    \cup (IF text.functor = NoModule THEN {} ELSE lookupModule(e, text.functor).mImports)

\* A mistaken addLoadedModule, which puts the newest module first.
addLoadedModule_First(e, lm) ==
  IF isLoaded(e, lm.lmName) THEN e
  ELSE IF IsParametrized(lm.lmName, lm.text)
  THEN [e EXCEPT !.lmLoadedParamModules = <<lm>> \o @]
  ELSE [e EXCEPT !.lmLoadedModules = <<lm>> \o @]

addLoadedModule(e, lm) ==
  IF isLoaded(e, lm.lmName) THEN e
  ELSE IF IsParametrized(lm.lmName, lm.text)
  THEN [e EXCEPT !.lmLoadedParamModules = <<lm>> \o @]
  ELSE [e EXCEPT !.lmLoadedModules = Append(@, lm)]

\* The values of a module are defined, unless it is a functor.
modifyEvalEnv(e, m, text) ==
  IF IsParametrized(m, text) THEN e ELSE [e EXCEPT !.meEvalEnv = @ \cup {m}]

\* The end of doLoadModule: check, evaluate and record the module.
doLoadModule ==
  /\ call = NoModule /\ stack # <<>> /\ Top.todo = <<>>
  /\ IF Rejected(Top.isrc, Top.text) THEN GiveUp("failed")
     ELSE LET lm == [lmName |-> Top.isrc, lmFilePath |-> Top.path, text |-> Top.text,
                     mImports |-> ImportsOf(work, Top.text)]
              done == SubSeq(stack, 1, Len(stack) - 1)
              filled == addLoadedModule(modifyEvalEnv(work, Top.isrc, Top.text), lm)
          IN  IF done # <<>>
              THEN /\ work' = filled /\ stack' = done
                   /\ UNCHANGED <<disk, env, call, request, result>>
              ELSE \* the module asked for: focus it, and hand the copy back
                   /\ env' = [filled EXCEPT !.meFocusedModule = Top.isrc,
                                            !.meSearchPath = env.meSearchPath]
                   /\ work' = env' /\ stack' = <<>>
                   /\ request' = NoModule /\ result' = "loaded"
                   /\ UNCHANGED <<disk, call>>

\* The user interrupts the load.
Interrupt == request # NoModule /\ GiveUp("interrupted")

Load == parseModule \/ loadModuleFrom \/ loadDeps \/ doLoadModule
Ask == \E quiet \in BOOLEAN :
         \/ \E m \in ModName : loadModuleByName(m, quiet)
         \/ \E dir \in Dir, file \in Name : loadModuleByPath(dir, file, quiet)

Next == Edit \/ Ask \/ Load \/ Interrupt

Spec == Init /\ [][Next]_vars
\* One thread runs the load, and nothing in it waits for another.
FairSpec == Spec /\ WF_vars(Load)
-----------------------------------------------------------------------------
TypeOK ==
  /\ disk \in Disks
  /\ env \in ModuleEnv /\ work \in ModuleEnv
  /\ stack \in Seq(Frame)
  /\ call \in Call \cup {NoModule}
  /\ request \in Request \cup {NoModule}
  /\ result \in Result

\* The dependencies of each ordinary module come before it.
Ordered(e) ==
  \A i \in DOMAIN e.lmLoadedModules : \A m \in e.lmLoadedModules[i].mImports :
    \E j \in 1..(i - 1) : e.lmLoadedModules[j].lmName = m

\* The functors are kept apart from the modules that can be evaluated.
Apart(e) ==
  /\ \A i \in DOMAIN e.lmLoadedModules :
       ~IsParametrized(e.lmLoadedModules[i].lmName, e.lmLoadedModules[i].text)
  /\ \A i \in DOMAIN e.lmLoadedParamModules :
       IsParametrized(e.lmLoadedParamModules[i].lmName, e.lmLoadedParamModules[i].text)

(***************************************************************************)
(* The two invariants that ModuleSystem/Env.hs states of lmLoadedModules   *)
(* (lines 299-301): "All the dependencies of any module `m` must precede   *)
(* `m` in the list" and "Does not contain any parameterized modules".      *)
(* They hold of the session and at every moment of a load.                 *)
(***************************************************************************)
LoadedModulesInvariant == \A e \in {env, work} : Ordered(e) /\ Apart(e)

\* Functors and ordinary modules (loadedModules in Env.hs).
loadedModules(e) == e.lmLoadedParamModules \o e.lmLoadedModules

(***************************************************************************)
(* No module is in the lists twice, and none that is being loaded is in    *)
(* them: addLoadedModule never has to ignore what was just checked.        *)
(***************************************************************************)
Once(list) == \A i, j \in DOMAIN list : list[i].lmName = list[j].lmName => i = j
EachModuleOnce ==
  /\ \A e \in {env, work} :
       /\ Once(e.lmLoadedModules) /\ Once(e.lmLoadedParamModules)
       /\ Names(e.lmLoadedModules) \cap Names(e.lmLoadedParamModules) = {}
  /\ \A i, j \in DOMAIN stack : stack[i].isrc = stack[j].isrc => i = j
  /\ \A i \in DOMAIN stack : ~isLoaded(work, stack[i].isrc)

(***************************************************************************)
(* When a module is checked, everything it names is loaded: the renamer    *)
(* finds the interface of each import (ModuleSystem/Monad.hs:475 panics),  *)
(* the functor of an instance is there (Base.hs:405), and so is the        *)
(* prelude, for the primitives of any other module (Base.hs:386).          *)
(***************************************************************************)
ChecksFindInterfaces ==
  call = NoModule /\ stack # <<>> /\ Top.todo = <<>> =>
    /\ \A i \in DOMAIN Top.text.imports : isLoaded(work, Top.text.imports[i])
    /\ Top.text.functor # NoModule => isLoaded(work, Top.text.functor)
    /\ Top.text.name # Cryptol => isLoaded(work, preludeName)

(***************************************************************************)
(* The focused module of a session is loaded (focusedEnv panics otherwise, *)
(* Env.hs:261), and the evaluation environment has the values of exactly   *)
(* the ordinary modules of the session: no value of a module that was      *)
(* unloaded stays reachable, and none is missing.                          *)
(***************************************************************************)
SessionConsistent ==
  /\ env.meFocusedModule # NoModule => isLoaded(env, env.meFocusedModule)
  /\ \A e \in {env, work} : e.meEvalEnv = Names(e.lmLoadedModules)

(***************************************************************************)
(* A load that does not succeed leaves no trace: the environment of the    *)
(* session, its search path included, changes only when a load succeeds;   *)
(* and the search path that a load by path extends is put back.            *)
(***************************************************************************)
OnlySuccessCommits ==
  [][env' # env => result' = "loaded" /\ env'.meSearchPath = SearchPath]_vars

\* Every load ends, even while the files keep changing.
LoadsEnd == (request # NoModule) ~> (request = NoModule)

(***************************************************************************)
(* The loader answers every request as AtomicLoad does: a load of files    *)
(* that stay as they are while it runs succeeds exactly when everything    *)
(* that it needs can be loaded, and gives a session of exactly that.       *)
(***************************************************************************)
Stripped(lm) == [name |-> lm.lmName, path |-> lm.lmFilePath, text |-> lm.text]
Atomic == INSTANCE AtomicLoad WITH
  loaded <- {Stripped(loadedModules(env)[i]) : i \in DOMAIN loadedModules(env)},
  focus <- env.meFocusedModule
ImplementsAtomicLoad == Atomic!Spec
=============================================================================
