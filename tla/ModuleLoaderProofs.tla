------------------------- MODULE ModuleLoaderProofs -------------------------
(***************************************************************************)
(* Proofs about ModuleLoader, for any texts, any file system and any edits *)
(* of it during loads.                                                     *)
(*                                                                         *)
(* The inductive invariant says of each module environment what EnvOK      *)
(* says, and of each frame that every dependency of its text is either     *)
(* still to do or settled in the environment under construction.  A module *)
(* can therefore be appended when nothing is left to do.                   *)
(***************************************************************************)
EXTENDS ModuleLoader, SequenceTheorems, WellFoundedInduction, TLAPS

\* A set of naturals has a least member.
LEMMA Least ==
  ASSUME NEW S \in SUBSET Nat, S # {}
  PROVE  \E i \in S : \A j \in S : i <= j
<1> DEFINE less == {p \in Nat \X Nat : p[1] < p[2]}
<1>1. IsWellFoundedOn(less, Nat)
  BY NatLessThanWellFounded, Zenon DEF OpToRel
<1>2. PICK x \in S : \A y \in S : ~(<<y, x>> \in less)
  <2> HIDE DEF less
  <2> QED BY <1>1, WFMin
<1>3. \A y \in S : ~(y < x)
  BY <1>2
<1> QED BY <1>3

-----------------------------------------------------------------------------
(***************************************************************************)
(* Texts and paths.                                                        *)
(***************************************************************************)

LEMMA PreludeType == preludeName \in ModName /\ NoModule \notin ModName
  BY TextAssumption DEF TextAssumption, preludeName, Plain, ModName

LEMMA FindFileType ==
  ASSUME NEW dirs \in Seq(Dir), NEW dk, NEW file \in Name, FindFile(dk, dirs, file) # NoFile
  PROVE  FindFile(dk, dirs, file) \in Path
<1> DEFINE hits == Hits(dk, dirs, file)
<1>1. hits \subseteq 1..Len(dirs) /\ hits \subseteq Nat
  BY DEF Hits
<1>2. hits # {}
  BY DEF FindFile
<1>3. PICK i \in hits : \A j \in hits : i <= j
  BY <1>1, <1>2, Least
<1>4. (CHOOSE k \in hits : \A j \in hits : k <= j) \in hits
  BY <1>3
<1>5. dirs[CHOOSE k \in hits : \A j \in hits : k <= j] \in Dir
  BY <1>1, <1>4
<1> QED BY <1>2, <1>5 DEF FindFile, InFile, Path

LEMMA FindModuleType ==
  ASSUME NEW dirs \in Seq(Dir), NEW dk, NEW m \in ModName, FindModule(dk, dirs, m) # NoFile
  PROVE  FindModule(dk, dirs, m) \in Path
<1>1. m.base \in Name
  BY DEF ModName
<1> QED BY <1>1, FindFileType DEF FindModule, InMem, Path

LEMMA ContentsType ==
  ASSUME NEW dk \in Disks, NEW path \in Path, Contents(dk, path) # NoFile
  PROVE  Contents(dk, path) \in Text
<1>1. dk \in [Dir \X Name -> Text \cup {NoFile}]
  BY DiskAssumption DEF DiskAssumption, Disk
<1>2. CASE path \in Dir \X Name
  <2>1. path[1] # Memory
    BY <1>2, TextAssumption DEF TextAssumption
  <2>2. dk[path] \in Text \cup {NoFile}
    BY <1>1, <1>2
  <2> QED BY <2>1, <2>2 DEF Contents
<1>3. CASE path \in {Memory} \X DOMAIN BuiltIn
  BY <1>3, TextAssumption DEF TextAssumption, Contents
<1> QED BY <1>2, <1>3 DEF Path

LEMMA AddPreludeType ==
  ASSUME NEW text \in Text
  PROVE  AddPrelude(text) \in Seq(ModName)
<1>1. text.imports \in Seq(ModName) /\ <<preludeName>> \in Seq(ModName)
  BY PreludeType DEF Text
<1>2. <<preludeName>> \o text.imports \in Seq(ModName)
  BY <1>1, ConcatProperties
<1> QED BY <1>1, <1>2 DEF AddPrelude

\* What loadDeps loads: the imports, the prelude with them, and the functor.
LEMMA DependenciesType ==
  ASSUME NEW text \in Text
  PROVE  /\ Dependencies(text) \in Seq(Dependency)
         /\ \A i \in DOMAIN AddPrelude(text) :
              \E k \in DOMAIN Dependencies(text) : Dependencies(text)[k] = ImportOf(AddPrelude(text)[i])
         /\ text.functor # NoModule =>
              \E k \in DOMAIN Dependencies(text) : Dependencies(text)[k] = InstanceOf(text.functor)
<1> DEFINE imports == AddPrelude(text)
           loadI == [i \in DOMAIN imports |-> ImportOf(imports[i])]
<1>1. imports \in Seq(ModName)
  BY AddPreludeType
<1>2. /\ DOMAIN imports = 1..Len(imports) /\ Len(imports) \in Nat
      /\ \A i \in 1..Len(imports) : imports[i] \in ModName
  BY <1>1
<1>3. \A i \in DOMAIN imports : ImportOf(imports[i]) \in Dependency
  BY <1>2 DEF ImportOf, Dependency
<1>4. loadI \in [1..Len(imports) -> Dependency]
  BY <1>2, <1>3
<1>5. loadI \in Seq(Dependency) /\ Len(loadI) = Len(imports)
  BY <1>2, <1>4
<1>6. CASE text.functor = NoModule
  <2>1. Dependencies(text) = loadI
    BY <1>6 DEF Dependencies
  <2> QED BY <1>2, <1>5, <1>6, <2>1
<1>7. CASE text.functor # NoModule
  <2>1. Dependencies(text) = Append(loadI, InstanceOf(text.functor))
    BY <1>7 DEF Dependencies
  <2>2. InstanceOf(text.functor) \in Dependency
    BY <1>7 DEF InstanceOf, Dependency, Text
  <2>3. /\ Dependencies(text) \in Seq(Dependency)
        /\ DOMAIN Dependencies(text) = 1..(Len(imports) + 1)
        /\ Dependencies(text)[Len(imports) + 1] = InstanceOf(text.functor)
        /\ \A i \in 1..Len(imports) : Dependencies(text)[i] = loadI[i]
    BY <1>2, <1>5, <2>1, <2>2
  <2>4. \A i \in DOMAIN imports : i \in DOMAIN Dependencies(text)
                                  /\ Dependencies(text)[i] = ImportOf(imports[i])
    BY <1>2, <2>3
  <2>5. Len(imports) + 1 \in DOMAIN Dependencies(text)
    BY <1>2, <2>3
  <2> QED BY <2>3, <2>4, <2>5
<1> QED BY <1>6, <1>7

-----------------------------------------------------------------------------
(***************************************************************************)
(* Module environments.                                                    *)
(***************************************************************************)

\* The functors import ordinary modules only, and these are there.
FunctorsServed(e) ==
  \A i \in DOMAIN e.lmLoadedParamModules :
    e.lmLoadedParamModules[i].mImports \subseteq Names(e.lmLoadedModules)

EnvOK(e) ==
  /\ e \in ModuleEnv
  /\ Ordered(e) /\ Apart(e) /\ FunctorsServed(e)
  /\ Once(e.lmLoadedModules) /\ Once(e.lmLoadedParamModules)
  /\ Names(e.lmLoadedModules) \cap Names(e.lmLoadedParamModules) = {}
  /\ e.meEvalEnv = Names(e.lmLoadedModules)

Empty(e) == e.lmLoadedModules = <<>> /\ e.lmLoadedParamModules = <<>>

\* A dependency is settled when loadDeps may pass it.
Settled(e, d) ==
  /\ isLoaded(e, d.name)
  /\ d.how = "import" => d.name \in Names(e.lmLoadedModules)

LEMMA EmptyEnvOK ==
  ASSUME NEW e \in ModuleEnv, Empty(e), e.meEvalEnv = {}
  PROVE  EnvOK(e) /\ \A m : ~isLoaded(e, m)
BY DEF Empty, EnvOK, Ordered, Apart, FunctorsServed, Once, Names, isLoaded

LEMMA ResetOK ==
  ASSUME NEW e \in ModuleEnv
  PROVE  /\ resetModuleEnv(e) \in ModuleEnv /\ Empty(resetModuleEnv(e))
         /\ resetModuleEnv(e).meEvalEnv = {}
         /\ resetModuleEnv(e).meSearchPath = e.meSearchPath
<1> DEFINE f == resetModuleEnv(e)
<1>1. /\ f.lmLoadedModules = <<>> /\ f.lmLoadedParamModules = <<>>
      /\ f.meEvalEnv = {} /\ f.meFocusedModule = NoModule /\ f.meSearchPath = e.meSearchPath
  BY DEF resetModuleEnv, ModuleEnv
<1>2. <<>> \in Seq(LoadedModule) /\ {} \in SUBSET ModName /\ e.meSearchPath \in Seq(Dir)
  BY DEF ModuleEnv
<1>3. f \in ModuleEnv
  BY <1>2 DEF resetModuleEnv, ModuleEnv
<1> QED BY <1>1, <1>3 DEF Empty

\* The focus and the search path are of no concern to EnvOK.
LEMMA RefocusOK ==
  ASSUME NEW e, EnvOK(e), NEW f \in ModuleEnv,
         f.lmLoadedModules = e.lmLoadedModules,
         f.lmLoadedParamModules = e.lmLoadedParamModules,
         f.meEvalEnv = e.meEvalEnv
  PROVE  EnvOK(f)
BY DEF EnvOK, Ordered, Apart, FunctorsServed

\* A new module at the end of the list of ordinary ones.
LEMMA AppendOK ==
  ASSUME NEW e, EnvOK(e), NEW lm \in LoadedModule, ~isLoaded(e, lm.lmName),
         lm.mImports \subseteq Names(e.lmLoadedModules),
         ~IsParametrized(lm.lmName, lm.text),
         NEW f \in ModuleEnv,
         f.lmLoadedModules = Append(e.lmLoadedModules, lm),
         f.lmLoadedParamModules = e.lmLoadedParamModules,
         f.meEvalEnv = e.meEvalEnv \cup {lm.lmName}
  PROVE  EnvOK(f) /\ Names(f.lmLoadedModules) = Names(e.lmLoadedModules) \cup {lm.lmName}
<1> DEFINE old == e.lmLoadedModules  new == f.lmLoadedModules  n == Len(old)
<1>1. /\ old \in Seq(LoadedModule) /\ n \in Nat /\ DOMAIN old = 1..n
      /\ DOMAIN new = 1..(n + 1) /\ new[n + 1] = lm
      /\ \A i \in 1..n : new[i] = old[i]
  BY DEF EnvOK, ModuleEnv
<1> HIDE DEF old, new, n
<1>2. Names(new) = Names(old) \cup {lm.lmName}
  BY <1>1 DEF Names
<1>3. lm.lmName \notin Names(old) /\ lm.lmName \notin Names(e.lmLoadedParamModules)
  BY DEF isLoaded, old
<1>4. Ordered(f)
  <2> SUFFICES ASSUME NEW i \in DOMAIN new, NEW m \in new[i].mImports
               PROVE  \E j \in 1..(i - 1) : new[j].lmName = m
    BY DEF Ordered, new
  <2>1. CASE i \in 1..n
    <3>1. \E j \in 1..(i - 1) : old[j].lmName = m
      BY <1>1, <2>1 DEF EnvOK, Ordered, old
    <3> QED BY <1>1, <2>1, <3>1
  <2>2. CASE i = n + 1
    <3>1. m \in Names(old)
      BY <1>1, <2>2 DEF old
    <3>2. PICK j \in 1..n : old[j].lmName = m
      BY <1>1, <3>1 DEF Names
    <3> QED BY <1>1, <2>2, <3>2
  <2> QED BY <1>1, <2>1, <2>2
<1>5. Apart(f)
  BY <1>1 DEF EnvOK, Apart, old, new
<1>6. FunctorsServed(f)
  BY <1>2 DEF EnvOK, FunctorsServed, old, new
<1>7. Once(new)
  <2> SUFFICES ASSUME NEW i \in DOMAIN new, NEW j \in DOMAIN new, new[i].lmName = new[j].lmName
               PROVE  i = j
    BY DEF Once
  <2>1. ASSUME NEW k \in 1..n PROVE new[k].lmName # lm.lmName
    <3>1. old[k].lmName \in Names(old)
      BY <1>1 DEF Names
    <3> QED BY <1>1, <1>3, <3>1
  <2>2. \A k, l \in 1..n : old[k].lmName = old[l].lmName => k = l
    BY <1>1 DEF EnvOK, Once, old
  <2>3. /\ i \in 1..n \/ i = n + 1
        /\ j \in 1..n \/ j = n + 1
    BY <1>1
  <2>4. CASE i \in 1..n /\ j \in 1..n
    BY <1>1, <2>2, <2>4
  <2>5. CASE i = n + 1 \/ j = n + 1
    BY <1>1, <2>1, <2>3, <2>5
  <2> QED BY <2>3, <2>4, <2>5
<1>8. Names(new) \cap Names(f.lmLoadedParamModules) = {}
  BY <1>2, <1>3 DEF EnvOK, old
<1>9. f.meEvalEnv = Names(new)
  BY <1>2 DEF EnvOK, old
<1> QED BY <1>2, <1>4, <1>5, <1>6, <1>7, <1>8, <1>9 DEF EnvOK, old, new

\* A new functor, at the front of its list.
LEMMA FunctorOK ==
  ASSUME NEW e, EnvOK(e), NEW lm \in LoadedModule, ~isLoaded(e, lm.lmName),
         lm.mImports \subseteq Names(e.lmLoadedModules),
         IsParametrized(lm.lmName, lm.text),
         NEW f \in ModuleEnv,
         f.lmLoadedModules = e.lmLoadedModules,
         f.lmLoadedParamModules = <<lm>> \o e.lmLoadedParamModules,
         f.meEvalEnv = e.meEvalEnv
  PROVE  /\ EnvOK(f)
         /\ Names(f.lmLoadedParamModules) = Names(e.lmLoadedParamModules) \cup {lm.lmName}
<1> DEFINE old == e.lmLoadedParamModules  new == f.lmLoadedParamModules  n == Len(old)
<1>1. /\ old \in Seq(LoadedModule) /\ n \in Nat /\ DOMAIN old = 1..n
      /\ new = <<lm>> \o old
  BY DEF EnvOK, ModuleEnv
<1>2. /\ DOMAIN new = 1..(n + 1) /\ new[1] = lm
      /\ \A i \in 1..n : new[i + 1] = old[i]
  <2>1. <<lm>> \in Seq(LoadedModule) /\ Len(<<lm>>) = 1 /\ <<lm>>[1] = lm
    OBVIOUS
  <2>2. /\ new \in Seq(LoadedModule) /\ Len(new) = 1 + n
        /\ \A i \in 1..(1 + n) : new[i] = IF i <= 1 THEN <<lm>>[i] ELSE old[i - 1]
    <3> HIDE DEF old, new, n
    <3>1. n = Len(old)
      BY DEF n
    <3> QED BY <1>1, <2>1, <3>1, ConcatProperties
  <2> HIDE DEF old, new, n
  <2>3. DOMAIN new = 1..(n + 1)
    BY <1>1, <2>2
  <2>4. \A i \in 1..n : new[i + 1] = old[i]
    <3> SUFFICES ASSUME NEW i \in 1..n PROVE new[i + 1] = old[i]
      OBVIOUS
    <3>1. i + 1 \in 1..(1 + n) /\ ~(i + 1 <= 1) /\ (i + 1) - 1 = i
      BY <1>1
    <3> QED BY <2>2, <3>1
  <2> QED BY <1>1, <2>1, <2>2, <2>3, <2>4
<1> HIDE DEF old, new, n
<1>3. \A i \in DOMAIN new : i = 1 \/ (i - 1 \in 1..n /\ new[i] = old[i - 1])
  <2> SUFFICES ASSUME NEW i \in DOMAIN new, i # 1 PROVE i - 1 \in 1..n /\ new[i] = old[i - 1]
    OBVIOUS
  <2>1. i - 1 \in 1..n /\ (i - 1) + 1 = i
    BY <1>1, <1>2
  <2> QED BY <1>2, <2>1
<1>4. Names(new) = Names(old) \cup {lm.lmName}
  <2>1. \A i \in 1..n : i + 1 \in DOMAIN new
    BY <1>1, <1>2
  <2>2. 1 \in DOMAIN new
    BY <1>1, <1>2
  <2>3. Names(old) \cup {lm.lmName} \subseteq Names(new)
    <3>1. \A i \in 1..n : old[i].lmName \in Names(new)
      BY <1>2, <2>1 DEF Names
    <3>2. lm.lmName \in Names(new)
      BY <1>2, <2>2 DEF Names
    <3> QED BY <1>1, <3>1, <3>2 DEF Names
  <2>4. Names(new) \subseteq Names(old) \cup {lm.lmName}
    BY <1>1, <1>2, <1>3 DEF Names
  <2> QED BY <2>3, <2>4
<1>5. lm.lmName \notin Names(old) /\ lm.lmName \notin Names(e.lmLoadedModules)
  BY DEF isLoaded, old
<1>6. Ordered(f)
  BY DEF EnvOK, Ordered
<1>7. Apart(f)
  <2>1. \A i \in DOMAIN new : IsParametrized(new[i].lmName, new[i].text)
    <3>1. \A i \in 1..n : IsParametrized(old[i].lmName, old[i].text)
      BY <1>1 DEF EnvOK, Apart, old
    <3> QED BY <1>2, <1>3, <3>1
  <2> QED BY <2>1 DEF EnvOK, Apart, new
<1>8. FunctorsServed(f)
  <2>1. \A i \in 1..n : old[i].mImports \subseteq Names(e.lmLoadedModules)
    BY <1>1 DEF EnvOK, FunctorsServed, old
  <2>2. \A i \in DOMAIN new : new[i].mImports \subseteq Names(e.lmLoadedModules)
    BY <1>2, <1>3, <2>1
  <2> QED BY <2>2 DEF FunctorsServed, new
<1>9. Once(new)
  <2> SUFFICES ASSUME NEW i \in DOMAIN new, NEW j \in DOMAIN new, new[i].lmName = new[j].lmName
               PROVE  i = j
    BY DEF Once
  <2>1. \A k \in 1..n : old[k].lmName # lm.lmName
    BY <1>1, <1>5 DEF Names
  <2>2. \A k, l \in 1..n : old[k].lmName = old[l].lmName => k = l
    BY <1>1 DEF EnvOK, Once, old
  <2>3. i = 1 <=> j = 1
    BY <1>2, <1>3, <2>1
  <2>4. i # 1 => i - 1 = j - 1
    BY <1>3, <2>2, <2>3
  <2>5. i \in Int /\ j \in Int
    BY <1>1, <1>2
  <2> QED BY <2>3, <2>4, <2>5
<1>10. Names(f.lmLoadedModules) \cap Names(new) = {}
  BY <1>4, <1>5 DEF EnvOK, old
<1>11. f.meEvalEnv = Names(f.lmLoadedModules)
  BY DEF EnvOK
<1>12. Once(f.lmLoadedModules)
  BY DEF EnvOK
<1> QED BY <1>4, <1>6, <1>7, <1>8, <1>9, <1>10, <1>11, <1>12 DEF EnvOK, old, new

-----------------------------------------------------------------------------
(***************************************************************************)
(* Frames.                                                                 *)
(***************************************************************************)

\* Each dependency of the text of a frame is still to do, or settled.
FrameOK(e, f) ==
  \A k \in DOMAIN Dependencies(f.text) :
    \/ \E l \in DOMAIN f.todo : f.todo[l] = Dependencies(f.text)[k]
    \/ Settled(e, Dependencies(f.text)[k])

StackOK(e, frames) ==
  /\ \A i \in DOMAIN frames : FrameOK(e, frames[i]) /\ ~isLoaded(e, frames[i].isrc)
  /\ \A i, j \in DOMAIN frames : frames[i].isrc = frames[j].isrc => i = j

\* What is focused is loaded.
FocusLoaded(e) == e.meFocusedModule # NoModule => isLoaded(e, e.meFocusedModule)

IInv ==
  /\ TypeOK
  /\ FocusLoaded(env)
  /\ EnvOK(env) /\ EnvOK(work) /\ env.meSearchPath = SearchPath
  /\ StackOK(work, stack)
  /\ request = NoModule => stack = <<>> /\ call = NoModule
  /\ call # NoModule =>
       IF call.isrc = NoModule THEN Empty(work) ELSE ~isLoaded(work, call.isrc)

LEMMA NoFrames == \A e : StackOK(e, <<>>)
BY DEF StackOK

LEMMA TopType ==
  ASSUME stack \in Seq(Frame), stack # <<>>
  PROVE  /\ Len(stack) \in Nat \ {0} /\ DOMAIN stack = 1..Len(stack)
         /\ Top \in Frame /\ Top = stack[Len(stack)] /\ Len(stack) \in DOMAIN stack
<1>1. Len(stack) \in Nat \ {0} /\ DOMAIN stack = 1..Len(stack)
  OBVIOUS
<1> QED BY <1>1 DEF Top

\* A load that gives up.
LEMMA GiveUpStep ==
  ASSUME IInv, NEW how \in Result, GiveUp(how)
  PROVE  IInv'
<1>1. /\ disk' = disk /\ env' = env /\ work' = env /\ stack' = <<>>
      /\ call' = NoModule /\ request' = NoModule /\ result' = how
  BY DEF GiveUp
<1>2. TypeOK'
  <2>1. <<>> \in Seq(Frame)
    OBVIOUS
  <2> QED BY <1>1, <2>1 DEF IInv, TypeOK
<1>3. EnvOK(env') /\ EnvOK(work') /\ env'.meSearchPath = SearchPath /\ FocusLoaded(env')
  BY <1>1 DEF IInv
<1>4. StackOK(work', stack')
  BY <1>1, NoFrames
<1> QED BY <1>1, <1>2, <1>3, <1>4 DEF IInv

\* A load that begins on an environment with nothing in it.
LEMMA BeginStep ==
  ASSUME IInv, NEW req \in Request, NEW copy \in ModuleEnv, Empty(copy), copy.meEvalEnv = {},
         NEW isrc \in ModName \cup {NoModule}, NEW path, path # NoFile => path \in Path,
         Begin(req, copy, isrc, path)
  PROVE  IInv'
<1>1. CASE path = NoFile
  <2>1. /\ result' = "failed" /\ disk' = disk /\ env' = env /\ work' = work
        /\ stack' = stack /\ call' = call /\ request' = request
    BY <1>1 DEF Begin
  <2>2. TypeOK'
    BY <2>1 DEF IInv, TypeOK, Result
  <2>3. EnvOK(env') /\ EnvOK(work') /\ StackOK(work', stack') /\ env'.meSearchPath = SearchPath
        /\ FocusLoaded(env')
    BY <2>1 DEF IInv
  <2>4. /\ request' = NoModule => stack' = <<>> /\ call' = NoModule
        /\ call' = NoModule
    BY <2>1 DEF IInv, Begin
  <2> QED BY <2>2, <2>3, <2>4 DEF IInv
<1>2. CASE path # NoFile
  <2> DEFINE c == [isrc |-> isrc, path |-> path]
  <2>1. /\ request' = req /\ work' = copy /\ result' = "none" /\ call' = c
        /\ disk' = disk /\ env' = env /\ stack' = stack /\ stack = <<>>
    BY <1>2 DEF Begin, IInv
  <2>2. c \in Call /\ c.isrc = isrc
    BY <1>2 DEF Call
  <2>3. req # NoModule
    BY RequestAssumption DEF RequestAssumption
  <2>4. TypeOK'
    BY <2>1, <2>2 DEF IInv, TypeOK, Result
  <2>5. EnvOK(work') /\ \A m : ~isLoaded(work', m)
    BY <2>1, EmptyEnvOK
  <2>6. Empty(work')
    BY <2>1
  <2>7. StackOK(work', stack')
    BY <2>1, NoFrames
  <2>8. EnvOK(env') /\ env'.meSearchPath = SearchPath /\ FocusLoaded(env')
    BY <2>1 DEF IInv
  <2> QED BY <2>1, <2>3, <2>4, <2>5, <2>6, <2>7, <2>8 DEF IInv
<1> QED BY <1>1, <1>2

LEMMA ByNameStep ==
  ASSUME IInv, NEW m \in ModName, NEW quiet \in BOOLEAN, loadModuleByName(m, quiet)
  PROVE  IInv'
<1> DEFINE path == FindModule(disk, env.meSearchPath, m)
           copy == resetModuleEnv(env)
<1>1. env \in ModuleEnv /\ env.meSearchPath \in Seq(Dir)
  BY DEF IInv, TypeOK, ModuleEnv
<1>2. copy \in ModuleEnv /\ Empty(copy) /\ copy.meEvalEnv = {}
  BY <1>1, ResetOK
<1>3. path # NoFile => path \in Path
  BY <1>1, FindModuleType
<1>4. ByName(m, quiet) \in Request
  BY DEF Request
<1>5. Begin(ByName(m, quiet), copy, m, path)
  BY DEF loadModuleByName
<1> HIDE DEF path, copy
<1> QED BY <1>2, <1>3, <1>4, <1>5, BeginStep

LEMMA ByPathStep ==
  ASSUME IInv, NEW dir \in Dir, NEW file \in Name, NEW quiet \in BOOLEAN,
         loadModuleByPath(dir, file, quiet)
  PROVE  IInv'
<1> DEFINE dirs == <<dir>> \o env.meSearchPath
           path == FindFile(disk, dirs, file)
           reset == resetModuleEnv(env)
           copy == [reset EXCEPT !.meSearchPath = dirs]
<1>1. env \in ModuleEnv /\ env.meSearchPath \in Seq(Dir)
  BY DEF IInv, TypeOK, ModuleEnv
<1>2. dirs \in Seq(Dir)
  <2>1. <<dir>> \in Seq(Dir)
    OBVIOUS
  <2> QED BY <1>1, <2>1, ConcatProperties
<1>3. reset \in ModuleEnv /\ Empty(reset) /\ reset.meEvalEnv = {}
  BY <1>1, ResetOK
<1>4. path # NoFile => path \in Path
  <2> HIDE DEF dirs
  <2> QED BY <1>2, FindFileType
<1>5. copy \in ModuleEnv /\ Empty(copy) /\ copy.meEvalEnv = {}
  <2> HIDE DEF dirs, reset
  <2> QED BY <1>2, <1>3 DEF ModuleEnv, Empty
<1>6. ByPath(InFile(dir, file), quiet) \in Request
  <2>1. InFile(dir, file) \in Dir \X Name
    BY DEF InFile
  <2> QED BY <2>1 DEF Request
<1>7. Begin(ByPath(InFile(dir, file), quiet), copy, NoModule, path)
  BY DEF loadModuleByPath
<1> HIDE DEF path, copy
<1> QED BY <1>4, <1>5, <1>6, <1>7, BeginStep

-----------------------------------------------------------------------------
(***************************************************************************)
(* The steps of a load.                                                    *)
(***************************************************************************)

LEMMA ParseStep ==
  ASSUME IInv, parseModule
  PROVE  IInv'
<1> DEFINE text == Contents(disk, call.path)
           isrc == IF call.isrc = NoModule THEN Plain(text.name) ELSE call.isrc
           frame == [isrc |-> isrc, path |-> call.path, text |-> text, todo |-> Dependencies(text)]
<1>1. CASE GiveUp("failed")
  BY <1>1, GiveUpStep DEF Result
<1>2. CASE ~GiveUp("failed")
  <2>1. /\ text # NoFile /\ ~Recursive(isrc)
        /\ stack' = Append(stack, frame) /\ call' = NoModule
        /\ disk' = disk /\ env' = env /\ work' = work /\ request' = request /\ result' = result
        /\ call # NoModule
    BY <1>2 DEF parseModule
  <2>2. call \in Call /\ call.path \in Path /\ disk \in Disks /\ stack \in Seq(Frame)
    BY <2>1 DEF IInv, TypeOK, Call
  <2>3. text \in Text
    BY <2>1, <2>2, ContentsType
  <2>4. Dependencies(text) \in Seq(Dependency)
    BY <2>3, DependenciesType
  <2>5. isrc \in ModName
    BY <2>2, <2>3 DEF Call, Text, Plain, ModName
  <2>6. ~isLoaded(work, isrc)
    <3>1. CASE call.isrc = NoModule
      <4>1. Empty(work)
        BY <2>1, <3>1 DEF IInv
      <4> QED BY <4>1 DEF Empty, isLoaded, Names
    <3>2. CASE call.isrc # NoModule
      BY <2>1, <3>2 DEF IInv
    <3> QED BY <3>1, <3>2
  <2> HIDE DEF text, isrc
  <2>7. frame \in Frame /\ frame.isrc = isrc /\ frame.text = text /\ frame.todo = Dependencies(text)
    BY <2>2, <2>3, <2>4, <2>5 DEF Frame
  <2> HIDE DEF frame
  <2>8. /\ stack' \in Seq(Frame) /\ Len(stack) \in Nat /\ DOMAIN stack = 1..Len(stack)
        /\ DOMAIN stack' = 1..(Len(stack) + 1) /\ stack'[Len(stack) + 1] = frame
        /\ \A i \in 1..Len(stack) : stack'[i] = stack[i]
    BY <2>1, <2>2, <2>7
  <2>9. TypeOK'
    BY <2>1, <2>8 DEF IInv, TypeOK
  <2>10. FrameOK(work, frame)
    BY <2>7 DEF FrameOK
  <2>11. StackOK(work', stack')
    <3>1. \A i \in 1..Len(stack) : /\ FrameOK(work, stack[i]) /\ ~isLoaded(work, stack[i].isrc)
                                   /\ stack[i].isrc # isrc
      BY <2>1, <2>8 DEF IInv, StackOK, Recursive, Loading
    <3>2. \A i, j \in 1..Len(stack) : stack[i].isrc = stack[j].isrc => i = j
      BY <2>8 DEF IInv, StackOK
    <3>3. \A i \in DOMAIN stack' : i \in 1..Len(stack) \/ (i = Len(stack) + 1 /\ stack'[i] = frame)
      BY <2>8
    <3>4. \A i \in DOMAIN stack' : FrameOK(work, stack'[i]) /\ ~isLoaded(work, stack'[i].isrc)
      BY <2>6, <2>7, <2>8, <2>10, <3>1, <3>3
    <3>5. \A i, j \in DOMAIN stack' : stack'[i].isrc = stack'[j].isrc => i = j
      BY <2>7, <2>8, <3>1, <3>2, <3>3
    <3> QED BY <2>1, <3>4, <3>5 DEF StackOK
  <2>12. request # NoModule
    BY <2>1 DEF IInv
  <2>13. EnvOK(env') /\ EnvOK(work') /\ env'.meSearchPath = SearchPath /\ FocusLoaded(env')
    BY <2>1 DEF IInv
  <2> QED BY <2>1, <2>9, <2>11, <2>12, <2>13 DEF IInv
<1> QED BY <1>1, <1>2

\* Where loadDeps is.
LEMMA WantedType ==
  ASSUME IInv, InLoadDeps
  PROVE  /\ Wanted \in Dependency /\ Top \in Frame /\ stack \in Seq(Frame) /\ stack # <<>>
         /\ Tail(Top.todo) \in Seq(Dependency)
         /\ \A l \in DOMAIN Top.todo : Top.todo[l] = Wanted
              \/ \E k \in DOMAIN Tail(Top.todo) : Tail(Top.todo)[k] = Top.todo[l]
<1>1. stack \in Seq(Frame) /\ stack # <<>> /\ Top.todo # <<>>
  BY DEF IInv, TypeOK, InLoadDeps
<1>2. Top \in Frame
  BY <1>1, TopType
<1> DEFINE todo == Top.todo
<1>3. todo \in Seq(Dependency) /\ todo # <<>>
  BY <1>1, <1>2 DEF Frame
<1>4. Wanted = Head(todo)
  BY DEF Wanted
<1> HIDE DEF todo
<1>5. /\ Wanted \in Dependency /\ Tail(todo) \in Seq(Dependency)
      /\ Len(Tail(todo)) = Len(todo) - 1 /\ Wanted = todo[1]
      /\ \A i \in 1..Len(Tail(todo)) : Tail(todo)[i] = todo[i + 1]
  BY <1>3, <1>4, HeadTailProperties
<1>6. \A l \in DOMAIN todo : l = 1 \/ (l - 1 \in DOMAIN Tail(todo) /\ Tail(todo)[l - 1] = todo[l])
  <2> SUFFICES ASSUME NEW l \in DOMAIN todo, l # 1
               PROVE  l - 1 \in DOMAIN Tail(todo) /\ Tail(todo)[l - 1] = todo[l]
    OBVIOUS
  <2>1. l \in 1..Len(todo) /\ l \in Int /\ Len(todo) \in Nat
    BY <1>3
  <2>2. l - 1 \in 1..Len(Tail(todo)) /\ (l - 1) + 1 = l
    BY <1>5, <2>1
  <2>3. DOMAIN Tail(todo) = 1..Len(Tail(todo))
    BY <1>5
  <2> QED BY <1>5, <2>2, <2>3
<1> QED BY <1>1, <1>2, <1>5, <1>6 DEF todo

LEMMA FindStep ==
  ASSUME IInv, loadModuleFrom
  PROVE  IInv'
<1> DEFINE path == FindModule(disk, work.meSearchPath, Wanted.name)
           c == [isrc |-> Wanted.name, path |-> path]
<1>1. InLoadDeps /\ ~isLoaded(work, Wanted.name)
  BY DEF loadModuleFrom
<1>2. Wanted \in Dependency /\ stack # <<>> /\ call = NoModule
  BY <1>1, WantedType DEF InLoadDeps
<1>3. CASE path = NoFile
  <2>1. GiveUp("failed")
    BY <1>3 DEF loadModuleFrom
  <2> QED BY <2>1, GiveUpStep DEF Result
<1>4. CASE path # NoFile
  <2>1. /\ call' = c /\ disk' = disk /\ env' = env /\ work' = work
        /\ stack' = stack /\ request' = request /\ result' = result
    BY <1>4 DEF loadModuleFrom
  <2>2. work.meSearchPath \in Seq(Dir) /\ Wanted.name \in ModName
    BY <1>2 DEF IInv, TypeOK, ModuleEnv, Dependency
  <2>3. path \in Path
    BY <1>4, <2>2, FindModuleType
  <2> HIDE DEF path
  <2>4. c \in Call /\ c.isrc = Wanted.name
    BY <2>2, <2>3 DEF Call
  <2>5. Wanted.name # NoModule
    BY <2>2, PreludeType
  <2>6. TypeOK'
    BY <2>1, <2>4 DEF IInv, TypeOK
  <2>7. EnvOK(env') /\ EnvOK(work') /\ StackOK(work', stack') /\ env'.meSearchPath = SearchPath
        /\ FocusLoaded(env')
    BY <2>1 DEF IInv
  <2>8. request # NoModule
    BY <1>2 DEF IInv
  <2>9. call'.isrc # NoModule /\ ~isLoaded(work', call'.isrc)
    BY <1>1, <2>1, <2>4, <2>5
  <2> QED BY <2>1, <2>6, <2>7, <2>8, <2>9 DEF IInv
<1> QED BY <1>3, <1>4

LEMMA DepsStep ==
  ASSUME IInv, loadDeps
  PROVE  IInv'
<1>1. InLoadDeps /\ isLoaded(work, Wanted.name)
  BY DEF loadDeps
<1>2. CASE ImportsParam(Wanted.name)
  <2>1. GiveUp("failed")
    BY <1>2 DEF loadDeps
  <2> QED BY <2>1, GiveUpStep DEF Result
<1>3. CASE ~ImportsParam(Wanted.name)
  <2> DEFINE n == Len(stack)
             frame == [Top EXCEPT !.todo = Tail(@)]
  <2>1. /\ stack' = Advance /\ disk' = disk /\ env' = env /\ work' = work
        /\ call' = call /\ request' = request /\ result' = result
    BY <1>3 DEF loadDeps
  <2>2. /\ Wanted \in Dependency /\ Top \in Frame /\ stack \in Seq(Frame) /\ stack # <<>>
        /\ Tail(Top.todo) \in Seq(Dependency)
        /\ \A l \in DOMAIN Top.todo : Top.todo[l] = Wanted
             \/ \E k \in DOMAIN Tail(Top.todo) : Tail(Top.todo)[k] = Top.todo[l]
    BY <1>1, WantedType
  <2>3. /\ n \in Nat \ {0} /\ DOMAIN stack = 1..n /\ Top = stack[n] /\ n \in DOMAIN stack
    BY <2>2, TopType
  <2>4. /\ frame \in Frame /\ frame.isrc = Top.isrc /\ frame.text = Top.text
        /\ frame.todo = Tail(Top.todo)
    BY <2>2 DEF Frame
  <2>5. stack' = [stack EXCEPT ![n] = frame]
    BY <2>1, <2>3 DEF Advance
  <2> HIDE DEF frame, n
  <2>6. /\ stack' \in Seq(Frame) /\ DOMAIN stack' = 1..n /\ stack'[n] = frame
        /\ \A i \in 1..n : i # n => stack'[i] = stack[i]
    BY <2>2, <2>3, <2>4, <2>5
  <2>7. TypeOK'
    BY <2>1, <2>6 DEF IInv, TypeOK
  <2>8. Settled(work, Wanted)
    BY <1>1, <1>3 DEF Settled, ImportsParam, isLoaded
  <2>9. FrameOK(work, Top) /\ ~isLoaded(work, Top.isrc)
    BY <2>3 DEF IInv, StackOK
  <2>10. FrameOK(work, frame)
    BY <2>2, <2>4, <2>8, <2>9 DEF FrameOK
  <2>11. StackOK(work', stack')
    <3>1. \A i \in 1..n : FrameOK(work, stack[i]) /\ ~isLoaded(work, stack[i].isrc)
      BY <2>3 DEF IInv, StackOK
    <3>2. \A i, j \in 1..n : stack[i].isrc = stack[j].isrc => i = j
      BY <2>3 DEF IInv, StackOK
    <3>3. \A i \in 1..n : stack'[i].isrc = stack[i].isrc
      BY <2>3, <2>4, <2>6
    <3>4. \A i \in 1..n : FrameOK(work, stack'[i]) /\ ~isLoaded(work, stack'[i].isrc)
      BY <2>6, <2>10, <3>1, <3>3
    <3> QED BY <2>1, <2>6, <3>2, <3>3, <3>4 DEF StackOK
  <2>12. EnvOK(env') /\ EnvOK(work') /\ env'.meSearchPath = SearchPath /\ FocusLoaded(env')
    BY <2>1 DEF IInv
  <2>13. request # NoModule /\ call = NoModule
    BY <1>1 DEF IInv, InLoadDeps
  <2> QED BY <2>1, <2>7, <2>11, <2>12, <2>13 DEF IInv
<1> QED BY <1>2, <1>3

\* The first module of a list that bears a name that the list has.
LEMMA FirstNamedIsThere ==
  ASSUME NEW list \in Seq(LoadedModule), NEW m \in Names(list)
  PROVE  \E i \in DOMAIN list : FirstNamed(list, m) = list[i] /\ list[i].lmName = m
<1> DEFINE S == {i \in DOMAIN list : list[i].lmName = m}
           first(i) == i \in DOMAIN list /\ list[i].lmName = m
                       /\ \A j \in DOMAIN list : list[j].lmName = m => i <= j
<1>1. S \in SUBSET Nat /\ S # {}
  BY DEF Names
<1>2. PICK i \in S : \A j \in S : i <= j
  BY <1>1, Least
<1>3. /\ i \in DOMAIN list /\ list[i].lmName = m
      /\ \A j \in DOMAIN list : list[j].lmName = m => i <= j
  BY <1>2
<1> DEFINE k == CHOOSE k \in DOMAIN list :
                  list[k].lmName = m /\ \A j \in DOMAIN list : list[j].lmName = m => k <= j
<1>4. k \in DOMAIN list /\ list[k].lmName = m
  BY <1>3
<1>5. FirstNamed(list, m) = list[k]
  BY DEF FirstNamed
<1> QED BY <1>4, <1>5

\* The imports of a module that is loaded are loaded, ordinary modules.
LEMMA ImportsLoaded ==
  ASSUME NEW e, EnvOK(e), NEW m, isLoaded(e, m)
  PROVE  lookupModule(e, m).mImports \subseteq Names(e.lmLoadedModules)
<1>1. e.lmLoadedModules \in Seq(LoadedModule) /\ e.lmLoadedParamModules \in Seq(LoadedModule)
  BY DEF EnvOK, ModuleEnv
<1>2. CASE m \in Names(e.lmLoadedModules)
  <2> DEFINE list == e.lmLoadedModules
  <2>1. PICK i \in DOMAIN list : FirstNamed(list, m) = list[i]
    BY <1>1, <1>2, FirstNamedIsThere
  <2>2. lookupModule(e, m) = list[i]
    BY <1>2, <2>1 DEF lookupModule
  <2>3. \A d \in list[i].mImports : \E j \in 1..(i - 1) : list[j].lmName = d
    BY DEF EnvOK, Ordered
  <2>4. DOMAIN list = 1..Len(list) /\ Len(list) \in Nat
    BY <1>1
  <2>5. \A j \in 1..(i - 1) : j \in DOMAIN list
    BY <2>4
  <2> QED BY <2>2, <2>3, <2>5 DEF Names
<1>3. CASE m \notin Names(e.lmLoadedModules)
  <2> DEFINE list == e.lmLoadedParamModules
  <2>1. m \in Names(list)
    BY <1>3 DEF isLoaded
  <2>2. PICK i \in DOMAIN list : FirstNamed(list, m) = list[i]
    BY <1>1, <2>1, FirstNamedIsThere
  <2>3. lookupModule(e, m) = list[i]
    BY <1>3, <2>2 DEF lookupModule
  <2> QED BY <2>3 DEF EnvOK, FunctorsServed
<1> QED BY <1>2, <1>3

\* When nothing is left to do, what a text names is loaded.
LEMMA AllSettled ==
  ASSUME NEW e, NEW f \in Frame, FrameOK(e, f), f.todo = <<>>
  PROVE  /\ \A i \in DOMAIN AddPrelude(f.text) : AddPrelude(f.text)[i] \in Names(e.lmLoadedModules)
         /\ f.text.functor # NoModule => isLoaded(e, f.text.functor)
<1>1. f.text \in Text
  BY DEF Frame
<1>2. \A k \in DOMAIN Dependencies(f.text) : Settled(e, Dependencies(f.text)[k])
  BY DEF FrameOK
<1>3. \A i \in DOMAIN AddPrelude(f.text) : Settled(e, ImportOf(AddPrelude(f.text)[i]))
  BY <1>1, <1>2, DependenciesType
<1>4. f.text.functor # NoModule => Settled(e, InstanceOf(f.text.functor))
  BY <1>1, <1>2, DependenciesType
<1> QED BY <1>3, <1>4 DEF Settled, ImportOf, InstanceOf

\* The environment after a module is checked, evaluated and recorded.
LEMMA RecordOK ==
  ASSUME NEW e, EnvOK(e), NEW lm \in LoadedModule, ~isLoaded(e, lm.lmName),
         lm.mImports \subseteq Names(e.lmLoadedModules)
  PROVE  LET f == addLoadedModule(modifyEvalEnv(e, lm.lmName, lm.text), lm)
         IN  /\ EnvOK(f)
             /\ Names(e.lmLoadedModules) \subseteq Names(f.lmLoadedModules)
             /\ \A m : isLoaded(f, m) <=> isLoaded(e, m) \/ m = lm.lmName
<1> DEFINE g == modifyEvalEnv(e, lm.lmName, lm.text)
           f == addLoadedModule(g, lm)
<1>1. e \in ModuleEnv /\ lm.lmName \in ModName
  BY DEF EnvOK, LoadedModule
<1>2. CASE IsParametrized(lm.lmName, lm.text)
  <2>1. g = e
    BY <1>2 DEF modifyEvalEnv
  <2>2. f = [e EXCEPT !.lmLoadedParamModules = <<lm>> \o @]
    BY <1>2, <2>1 DEF addLoadedModule
  <2>3. <<lm>> \o e.lmLoadedParamModules \in Seq(LoadedModule)
    <3>1. <<lm>> \in Seq(LoadedModule) /\ e.lmLoadedParamModules \in Seq(LoadedModule)
      BY <1>1 DEF ModuleEnv
    <3> QED BY <3>1, ConcatProperties
  <2> HIDE DEF f, g
  <2>4. /\ f \in ModuleEnv /\ f.lmLoadedModules = e.lmLoadedModules
        /\ f.lmLoadedParamModules = <<lm>> \o e.lmLoadedParamModules
        /\ f.meEvalEnv = e.meEvalEnv
    BY <1>1, <2>2, <2>3 DEF ModuleEnv
  <2>5. EnvOK(f) /\ Names(f.lmLoadedParamModules) = Names(e.lmLoadedParamModules) \cup {lm.lmName}
    BY <1>2, <2>4, FunctorOK
  <2> QED BY <2>4, <2>5 DEF isLoaded, f, g
<1>3. CASE ~IsParametrized(lm.lmName, lm.text)
  <2>1. g = [e EXCEPT !.meEvalEnv = @ \cup {lm.lmName}]
    BY <1>3 DEF modifyEvalEnv
  <2>2. ~isLoaded(g, lm.lmName)
    BY <1>1, <2>1 DEF isLoaded, ModuleEnv
  <2>3. f = [g EXCEPT !.lmLoadedModules = Append(@, lm)]
    BY <1>3, <2>2 DEF addLoadedModule
  <2>4. Append(e.lmLoadedModules, lm) \in Seq(LoadedModule)
    BY <1>1 DEF ModuleEnv
  <2> HIDE DEF f, g
  <2>5. /\ g \in ModuleEnv /\ g.lmLoadedModules = e.lmLoadedModules
        /\ g.lmLoadedParamModules = e.lmLoadedParamModules
        /\ g.meEvalEnv = e.meEvalEnv \cup {lm.lmName}
    BY <1>1, <2>1 DEF ModuleEnv
  <2>6. /\ f \in ModuleEnv /\ f.lmLoadedModules = Append(e.lmLoadedModules, lm)
        /\ f.lmLoadedParamModules = e.lmLoadedParamModules
        /\ f.meEvalEnv = e.meEvalEnv \cup {lm.lmName}
    BY <2>3, <2>4, <2>5 DEF ModuleEnv
  <2>7. EnvOK(f) /\ Names(f.lmLoadedModules) = Names(e.lmLoadedModules) \cup {lm.lmName}
    BY <1>3, <2>6, AppendOK
  <2> QED BY <2>6, <2>7 DEF isLoaded, f, g
<1> QED BY <1>2, <1>3

LEMMA DoLoadStep ==
  ASSUME IInv, doLoadModule
  PROVE  IInv' /\ (env' # env => result' = "loaded" /\ env'.meSearchPath = SearchPath)
<1>1. /\ call = NoModule /\ stack # <<>> /\ Top.todo = <<>> /\ stack \in Seq(Frame)
      /\ EnvOK(work) /\ EnvOK(env) /\ StackOK(work, stack) /\ disk \in Disks
      /\ request # NoModule /\ request \in Request /\ result \in Result
      /\ env.meSearchPath = SearchPath /\ FocusLoaded(env)
  BY DEF doLoadModule, IInv, TypeOK
<1>2. CASE Rejected(Top.isrc, Top.text)
  <2>1. GiveUp("failed")
    BY <1>2 DEF doLoadModule
  <2>2. IInv'
    BY <2>1, GiveUpStep DEF Result
  <2> QED BY <2>1, <2>2 DEF GiveUp
<1>3. CASE ~Rejected(Top.isrc, Top.text)
  <2> DEFINE n == Len(stack)
             imports == ImportsOf(work, Top.text)
             lm == [lmName |-> Top.isrc, lmFilePath |-> Top.path, text |-> Top.text,
                    mImports |-> imports]
             rest == SubSeq(stack, 1, n - 1)
             filled == addLoadedModule(modifyEvalEnv(work, Top.isrc, Top.text), lm)
  <2>1. /\ n \in Nat \ {0} /\ DOMAIN stack = 1..n /\ Top \in Frame /\ Top = stack[n]
        /\ n \in DOMAIN stack
    BY <1>1, TopType
  <2>2. FrameOK(work, Top) /\ ~isLoaded(work, Top.isrc)
    BY <1>1, <2>1 DEF StackOK
  <2>3. imports \subseteq Names(work.lmLoadedModules)
    <3>1. /\ \A i \in DOMAIN AddPrelude(Top.text) :
               AddPrelude(Top.text)[i] \in Names(work.lmLoadedModules)
          /\ Top.text.functor # NoModule => isLoaded(work, Top.text.functor)
      BY <1>1, <2>1, <2>2, AllSettled
    <3>2. Top.text.functor # NoModule =>
            lookupModule(work, Top.text.functor).mImports \subseteq Names(work.lmLoadedModules)
      BY <1>1, <3>1, ImportsLoaded
    <3> QED BY <3>1, <3>2 DEF ImportsOf
  <2>4. imports \in SUBSET ModName
    <3>1. work.lmLoadedModules \in Seq(LoadedModule)
      BY <1>1 DEF EnvOK, ModuleEnv
    <3>2. \A i \in DOMAIN work.lmLoadedModules : work.lmLoadedModules[i] \in LoadedModule
      BY <3>1
    <3>3. Names(work.lmLoadedModules) \subseteq ModName
      BY <3>2 DEF Names, LoadedModule
    <3> QED BY <2>3, <3>3
  <2> HIDE DEF imports
  <2>5. /\ lm \in LoadedModule /\ lm.lmName = Top.isrc /\ lm.text = Top.text
        /\ lm.mImports = imports
    BY <2>1, <2>4 DEF LoadedModule, Frame
  <2>6. filled = addLoadedModule(modifyEvalEnv(work, lm.lmName, lm.text), lm)
    BY <2>5
  <2>7. /\ EnvOK(filled)
        /\ Names(work.lmLoadedModules) \subseteq Names(filled.lmLoadedModules)
        /\ \A m : isLoaded(filled, m) <=> isLoaded(work, m) \/ m = Top.isrc
    <3> HIDE DEF lm, filled
    <3> QED BY <1>1, <2>2, <2>3, <2>5, <2>6, RecordOK
  <2>8. IF rest # <<>>
        THEN /\ work' = filled /\ stack' = rest
             /\ UNCHANGED <<disk, env, call, request, result>>
        ELSE /\ env' = [filled EXCEPT !.meFocusedModule = Top.isrc,
                                      !.meSearchPath = env.meSearchPath]
             /\ work' = env' /\ stack' = <<>>
             /\ request' = NoModule /\ result' = "loaded"
             /\ UNCHANGED <<disk, call>>
    BY <1>3 DEF doLoadModule, imports
  <2> HIDE DEF lm, filled
  <2>9. /\ rest \in Seq(Frame) /\ DOMAIN rest = 1..(n - 1)
        /\ \A i \in 1..(n - 1) : rest[i] = stack[i]
    <3>1. \A i \in 1..(n - 1) : i \in 1..n /\ stack[i] \in Frame
      BY <1>1, <2>1
    <3>2. /\ rest \in Seq(Frame) /\ Len(rest) = (IF 1 <= n - 1 THEN (n - 1) - 1 + 1 ELSE 0)
          /\ \A i \in 1..((n - 1) - 1 + 1) : rest[i] = stack[1 + i - 1]
      BY <2>1, <3>1, SubSeqProperties
    <3>3. Len(rest) = n - 1 /\ (n - 1) - 1 + 1 = n - 1
      BY <2>1, <3>2
    <3>4. \A i \in 1..(n - 1) : 1 + i - 1 = i
      BY <2>1
    <3>5. DOMAIN rest = 1..Len(rest)
      BY <3>2
    <3> HIDE DEF rest
    <3> QED BY <3>2, <3>3, <3>4, <3>5
  <2> HIDE DEF rest
  <2>10. CASE rest # <<>>
    <3>1. /\ work' = filled /\ stack' = rest /\ disk' = disk /\ env' = env /\ call' = call
          /\ request' = request /\ result' = result
      BY <2>8, <2>10
    <3>2. StackOK(filled, rest)
      <4>1. \A i \in 1..(n - 1) : i \in 1..n /\ i # n
        <5>1. n \in Nat \ {0}
          BY <2>1
        <5> HIDE DEF n
        <5> QED BY <5>1
      <4>2. \A i \in 1..(n - 1) : /\ FrameOK(work, stack[i]) /\ ~isLoaded(work, stack[i].isrc)
                                  /\ stack[i].isrc # Top.isrc
        BY <1>1, <2>1, <4>1 DEF StackOK
      <4>3. \A f : FrameOK(work, f) => FrameOK(filled, f)
        BY <2>7 DEF FrameOK, Settled
      <4>4. \A i \in 1..(n - 1) : FrameOK(filled, rest[i]) /\ ~isLoaded(filled, rest[i].isrc)
        BY <2>7, <2>9, <4>2, <4>3
      <4>5. \A i, j \in 1..(n - 1) : rest[i].isrc = rest[j].isrc => i = j
        BY <1>1, <2>1, <2>9, <4>1 DEF StackOK
      <4> QED BY <2>9, <4>4, <4>5 DEF StackOK
    <3>3. TypeOK'
      BY <2>7, <2>9, <3>1 DEF IInv, TypeOK, EnvOK
    <3> QED BY <1>1, <2>7, <3>1, <3>2, <3>3 DEF IInv
  <2>11. CASE rest = <<>>
    <3>1. /\ env' = [filled EXCEPT !.meFocusedModule = Top.isrc,
                                   !.meSearchPath = env.meSearchPath]
          /\ work' = env' /\ stack' = <<>> /\ request' = NoModule /\ result' = "loaded"
          /\ disk' = disk /\ call' = call
      BY <2>8, <2>11
    <3>2. Top.isrc \in ModName \cup {NoModule} /\ env.meSearchPath \in Seq(Dir)
      BY <1>1, <2>1 DEF Frame, EnvOK, ModuleEnv
    <3>3. EnvOK(env') /\ env'.meSearchPath = SearchPath /\ FocusLoaded(env')
      <4>1. /\ EnvOK(env') /\ env'.lmLoadedModules = filled.lmLoadedModules
            /\ env'.lmLoadedParamModules = filled.lmLoadedParamModules
            /\ env'.meFocusedModule = Top.isrc /\ env'.meSearchPath = env.meSearchPath
        <5>1. filled \in ModuleEnv
          BY <2>7 DEF EnvOK
        <5>2. /\ env' \in ModuleEnv /\ env'.lmLoadedModules = filled.lmLoadedModules
              /\ env'.lmLoadedParamModules = filled.lmLoadedParamModules
              /\ env'.meEvalEnv = filled.meEvalEnv
              /\ env'.meFocusedModule = Top.isrc /\ env'.meSearchPath = env.meSearchPath
          BY <3>1, <3>2, <5>1 DEF ModuleEnv
        <5> QED BY <2>7, <5>2, RefocusOK
      <4> QED BY <1>1, <2>7, <4>1 DEF FocusLoaded, isLoaded
    <3>4. StackOK(work', stack') /\ <<>> \in Seq(Frame)
      BY <3>1, NoFrames
    <3>5. TypeOK'
      BY <1>1, <3>1, <3>3, <3>4 DEF IInv, TypeOK, Result, EnvOK
    <3> QED BY <1>1, <3>1, <3>3, <3>4, <3>5 DEF IInv
  <2> QED BY <2>10, <2>11
<1> QED BY <1>2, <1>3

-----------------------------------------------------------------------------
LEMMA InitIInv == Init => IInv
<1> SUFFICES ASSUME Init PROVE IInv
  OBVIOUS
<1>1. SearchPath \in Seq(Dir) /\ <<>> \in Seq(LoadedModule) /\ <<>> \in Seq(Frame)
  BY TextAssumption DEF TextAssumption
<1>2. /\ initialModuleEnv \in ModuleEnv /\ Empty(initialModuleEnv)
      /\ initialModuleEnv.meEvalEnv = {} /\ initialModuleEnv.meSearchPath = SearchPath
  BY <1>1 DEF initialModuleEnv, ModuleEnv, Empty
<1>3. EnvOK(initialModuleEnv)
  BY <1>2, EmptyEnvOK
<1>4. StackOK(work, stack)
  BY NoFrames DEF Init
<1>5. TypeOK
  BY <1>1, <1>2 DEF Init, TypeOK, Result
<1> QED BY <1>2, <1>3, <1>4, <1>5 DEF Init, IInv, FocusLoaded, initialModuleEnv

\* One step per action; only the end of a load touches the session.
LEMMA StepIInv ==
  ASSUME IInv, [Next]_vars
  PROVE  IInv' /\ (env' # env => result' = "loaded" /\ env'.meSearchPath = SearchPath)
<1>1. CASE Edit
  <2>1. /\ disk' \in Disks /\ env' = env /\ work' = work /\ stack' = stack /\ call' = call
        /\ request' = request /\ result' = result
    BY <1>1 DEF Edit
  <2> QED BY <2>1 DEF IInv, TypeOK
<1>2. CASE \E m \in ModName, quiet \in BOOLEAN : loadModuleByName(m, quiet)
  <2>1. IInv'
    BY <1>2, ByNameStep
  <2> QED BY <1>2, <2>1 DEF loadModuleByName, Begin
<1>3. CASE \E dir \in Dir, file \in Name, quiet \in BOOLEAN : loadModuleByPath(dir, file, quiet)
  <2>1. IInv'
    BY <1>3, ByPathStep
  <2> QED BY <1>3, <2>1 DEF loadModuleByPath, Begin
<1>4. CASE parseModule
  BY <1>4, ParseStep DEF parseModule, GiveUp
<1>5. CASE loadModuleFrom
  BY <1>5, FindStep DEF loadModuleFrom, GiveUp
<1>6. CASE loadDeps
  BY <1>6, DepsStep DEF loadDeps, GiveUp
<1>7. CASE doLoadModule
  BY <1>7, DoLoadStep
<1>8. CASE Interrupt
  BY <1>8, GiveUpStep DEF Interrupt, GiveUp, Result
<1>9. CASE UNCHANGED vars
  <2>1. /\ disk' = disk /\ env' = env /\ work' = work /\ stack' = stack /\ call' = call
        /\ request' = request /\ result' = result
    BY <1>9 DEF vars
  <2> QED BY <2>1 DEF IInv, TypeOK
<1> QED BY <1>1, <1>2, <1>3, <1>4, <1>5, <1>6, <1>7, <1>8, <1>9 DEF Next, Ask, Load

LEMMA Invariance == Spec => []IInv
<1>1. IInv /\ [Next]_vars => IInv'
  BY StepIInv
<1> QED BY InitIInv, <1>1, PTL DEF Spec

(***************************************************************************)
(* The state of the loader is well typed: in particular every path that a  *)
(* module is read from is that of a file or of a built-in text.            *)
(***************************************************************************)
THEOREM LoaderTypes == Spec => []TypeOK
<1>1. IInv => TypeOK
  BY DEF IInv
<1> QED BY Invariance, <1>1, PTL

(***************************************************************************)
(* The invariants of the data structure (Env.hs:299-301): dependencies     *)
(* come first, and functors are kept apart.                                *)
(***************************************************************************)
THEOREM LoadedModulesOrder == Spec => []LoadedModulesInvariant
<1>1. IInv => LoadedModulesInvariant
  BY DEF IInv, EnvOK, LoadedModulesInvariant
<1> QED BY Invariance, <1>1, PTL

(***************************************************************************)
(* addLoadedModule never finds the module that it is given (Env.hs:368).   *)
(***************************************************************************)
THEOREM NothingTwice == Spec => []EachModuleOnce
<1>1. IInv => EachModuleOnce
  BY DEF IInv, EnvOK, StackOK, EachModuleOnce
<1> QED BY Invariance, <1>1, PTL

(***************************************************************************)
(* The panics of getIfaces, getPrimMap and checkModule cannot happen.      *)
(***************************************************************************)
THEOREM NoMissingInterface == Spec => []ChecksFindInterfaces
<1>1. IInv => ChecksFindInterfaces
  <2> SUFFICES ASSUME IInv, stack # <<>>, Top.todo = <<>>
               PROVE  /\ \A i \in DOMAIN Top.text.imports : isLoaded(work, Top.text.imports[i])
                      /\ Top.text.functor # NoModule => isLoaded(work, Top.text.functor)
                      /\ Top.text.name # Cryptol => isLoaded(work, preludeName)
    BY DEF ChecksFindInterfaces
  <2>1. Top \in Frame /\ FrameOK(work, Top)
    BY TopType DEF IInv, TypeOK, StackOK
  <2>2. Top.text \in Text /\ Top.text.imports \in Seq(ModName)
    BY <2>1 DEF Frame, Text
  <2> DEFINE imports == Top.text.imports  all == AddPrelude(Top.text)
  <2>3. /\ \A i \in DOMAIN all : isLoaded(work, all[i])
        /\ Top.text.functor # NoModule => isLoaded(work, Top.text.functor)
    BY <2>1, AllSettled DEF isLoaded
  <2>4. CASE all = imports
    <3>1. Top.text.name # Cryptol => \E i \in DOMAIN imports : imports[i] = preludeName
      <4>1. Top.text.name # Cryptol /\ ~(\E i \in DOMAIN imports : imports[i] = preludeName)
              => imports = <<preludeName>> \o imports
        BY <2>4 DEF AddPrelude
      <4>2. <<preludeName>> \in Seq(ModName) /\ <<preludeName>> # <<>>
        BY PreludeType
      <4>3. imports # <<preludeName>> \o imports
        <5> HIDE DEF imports
        <5>1. Len(<<preludeName>> \o imports) = Len(<<preludeName>>) + Len(imports)
          BY <2>2, <4>2, ConcatProperties DEF imports
        <5>2. Len(<<preludeName>>) = 1 /\ Len(imports) \in Nat
          BY <2>2 DEF imports
        <5> QED BY <5>1, <5>2
      <4> QED BY <4>1, <4>3
    <3> QED BY <2>3, <2>4, <3>1
  <2>5. CASE all = <<preludeName>> \o imports
    <3>1. <<preludeName>> \in Seq(ModName) /\ Len(<<preludeName>>) = 1
          /\ <<preludeName>>[1] = preludeName /\ Len(imports) \in Nat
          /\ DOMAIN imports = 1..Len(imports)
      BY <2>2, PreludeType
    <3> HIDE DEF imports, all
    <3>2. /\ all \in Seq(ModName) /\ Len(all) = 1 + Len(imports)
          /\ \A i \in 1..(1 + Len(imports)) :
               all[i] = IF i <= 1 THEN <<preludeName>>[i] ELSE imports[i - 1]
      BY <2>2, <2>5, <3>1, ConcatProperties DEF imports
    <3>3. 1 \in DOMAIN all /\ all[1] = preludeName
      BY <3>1, <3>2
    <3>4. \A i \in DOMAIN imports : i + 1 \in DOMAIN all /\ all[i + 1] = imports[i]
      <4> SUFFICES ASSUME NEW i \in 1..Len(imports)
                   PROVE  i + 1 \in DOMAIN all /\ all[i + 1] = imports[i]
        BY <3>1
      <4>1. i + 1 \in 1..(1 + Len(imports)) /\ ~(i + 1 <= 1) /\ (i + 1) - 1 = i
        BY <3>1
      <4>2. DOMAIN all = 1..(1 + Len(imports))
        BY <3>2
      <4> QED BY <3>2, <4>1, <4>2
    <3> QED BY <2>3, <3>3, <3>4 DEF imports, all
  <2> QED BY <2>4, <2>5 DEF AddPrelude
<1> QED BY Invariance, <1>1, PTL

-----------------------------------------------------------------------------
(***************************************************************************)
(* The focus of a session is loaded, and its values are those of its       *)
(* ordinary modules.                                                       *)
(***************************************************************************)
THEOREM SessionsConsistent == Spec => []SessionConsistent
<1>1. IInv => SessionConsistent
  BY DEF IInv, EnvOK, FocusLoaded, SessionConsistent
<1> QED BY Invariance, <1>1, PTL

(***************************************************************************)
(* A load that fails or is interrupted leaves the session as it was, and   *)
(* one that succeeds leaves its search path as it was.                     *)
(***************************************************************************)
THEOREM FailuresLeaveNoTrace == Spec => OnlySuccessCommits
<1>1. IInv /\ [Next]_vars
        => [env' # env => result' = "loaded" /\ env'.meSearchPath = SearchPath]_vars
  BY StepIInv
<1> QED BY Invariance, <1>1, PTL DEF Spec, OnlySuccessCommits

(***************************************************************************)
(* The loader keeps the promise of AtomicLoad.                             *)
(*                                                                         *)
(* The argument is about a load whose files stay as they are.  All that it *)
(* has loaded is good and needed, and none of it leads to itself, as each  *)
(* module is loaded when everything that it leads to is; and each module   *)
(* on the stack leads to those above it, so that a module met again is one *)
(* that leads to itself.                                                   *)
(***************************************************************************)

\* AtomicLoad reads the same texts as the loader.
LEMMA SameTexts ==
  /\ \A dk, dirs, file : Atomic!FindFile(dk, dirs, file) = FindFile(dk, dirs, file)
  /\ \A dk, dirs, m : Atomic!FindModule(dk, dirs, m) = FindModule(dk, dirs, m)
  /\ \A dk, path : Atomic!Contents(dk, path) = Contents(dk, path)
  /\ \A text : Atomic!Dependencies(text) = Dependencies(text)
  /\ \A m, text : Atomic!IsParametrized(m, text) = IsParametrized(m, text)
  /\ \A n : Atomic!Plain(n) = Plain(n)
  /\ Atomic!ModName = ModName
<1>1. ASSUME NEW dk, NEW dirs, NEW file
      PROVE  Atomic!Hits(dk, dirs, file) = Hits(dk, dirs, file)
  BY DEF Atomic!Hits, Hits, Atomic!InFile, InFile
<1>2. ASSUME NEW dk, NEW dirs, NEW file
      PROVE  Atomic!FindFile(dk, dirs, file) = FindFile(dk, dirs, file)
  <2>1. Atomic!Hits(dk, dirs, file) = Hits(dk, dirs, file)
    BY <1>1
  <2> QED BY <2>1 DEF Atomic!FindFile, FindFile, Atomic!InFile, InFile
<1>3. \A dk, dirs, m : Atomic!FindModule(dk, dirs, m) = FindModule(dk, dirs, m)
  BY <1>2 DEF Atomic!FindModule, FindModule, Atomic!InMem, InMem
<1>4. \A dk, path : Atomic!Contents(dk, path) = Contents(dk, path)
  BY DEF Atomic!Contents, Contents
<1>5. \A text : Atomic!AddPrelude(text) = AddPrelude(text)
  BY DEF Atomic!AddPrelude, AddPrelude, Atomic!preludeName, preludeName, Atomic!Plain, Plain
<1>6. \A text : Atomic!Dependencies(text) = Dependencies(text)
  BY <1>5 DEF Atomic!Dependencies, Dependencies, Atomic!ImportOf, ImportOf,
              Atomic!InstanceOf, InstanceOf
<1>7. \A m, text : Atomic!IsParametrized(m, text) = IsParametrized(m, text)
  BY DEF Atomic!IsParametrized, IsParametrized
<1>8. /\ \A n : Atomic!Plain(n) = Plain(n)
      /\ Atomic!ModName = ModName
  BY DEF Atomic!Plain, Plain, Atomic!ModName, ModName
<1> QED BY <1>2, <1>3, <1>4, <1>6, <1>7, <1>8

\* The closure of a set under the edges of a graph.
LEMMA ClosureFacts ==
  ASSUME NEW edges \in SUBSET (ModName \X ModName), NEW start \in SUBSET ModName
  PROVE  LET C == Atomic!Closure(edges, start)
         IN  /\ C \in SUBSET ModName /\ start \subseteq C
             /\ \A m, n \in ModName : m \in C /\ <<m, n>> \in edges => n \in C
             /\ \A S \in SUBSET ModName :
                  start \subseteq S /\ (\A m, n \in ModName : m \in S /\ <<m, n>> \in edges => n \in S)
                    => C \subseteq S
<1> DEFINE C == Atomic!Closure(edges, start)
<1>1. \A S \in SUBSET ModName :
        Atomic!Closed(edges, S)
          <=> \A m, n \in ModName : m \in S /\ <<m, n>> \in edges => n \in S
  BY DEF Atomic!Closed
<1>2. C = {m \in ModName : \A S \in SUBSET ModName :
             start \subseteq S /\ Atomic!Closed(edges, S) => m \in S}
  BY SameTexts DEF Atomic!Closure
<1> HIDE DEF C
<1>3. C \in SUBSET ModName /\ start \subseteq C
  BY <1>2
<1>4. \A m, n \in ModName : m \in C /\ <<m, n>> \in edges => n \in C
  BY <1>1, <1>2
<1>5. \A S \in SUBSET ModName :
        start \subseteq S /\ (\A m, n \in ModName : m \in S /\ <<m, n>> \in edges => n \in S)
          => C \subseteq S
  BY <1>1, <1>2
<1> QED BY <1>3, <1>4, <1>5 DEF C

\* A file that is found has a text.
LEMMA FoundText ==
  ASSUME NEW dk \in Disks, NEW dirs \in Seq(Dir)
  PROVE  /\ \A file \in Name : FindFile(dk, dirs, file) # NoFile =>
              /\ FindFile(dk, dirs, file) \in Path
              /\ Contents(dk, FindFile(dk, dirs, file)) \in Text
         /\ \A m \in ModName : FindModule(dk, dirs, m) # NoFile =>
              /\ FindModule(dk, dirs, m) \in Path
              /\ Contents(dk, FindModule(dk, dirs, m)) \in Text
<1>1. ASSUME NEW file \in Name, FindFile(dk, dirs, file) # NoFile
      PROVE  /\ FindFile(dk, dirs, file) \in Path
             /\ Contents(dk, FindFile(dk, dirs, file)) \in Text
  <2> DEFINE hits == Hits(dk, dirs, file)
             k == CHOOSE i \in hits : \A j \in hits : i <= j
  <2>1. hits \subseteq 1..Len(dirs) /\ hits \subseteq Nat
    BY DEF Hits
  <2>2. hits # {}
    BY <1>1 DEF FindFile
  <2>3. PICK i \in hits : \A j \in hits : i <= j
    BY <2>1, <2>2, Least
  <2>4. k \in hits
    BY <2>3
  <2>5. dirs[k] \in Dir /\ dk[<<dirs[k], file>>] # NoFile
    BY <2>1, <2>4 DEF Hits, InFile
  <2>6. FindFile(dk, dirs, file) = <<dirs[k], file>>
    BY <2>2 DEF FindFile, InFile
  <2> HIDE DEF hits, k
  <2>7. Contents(dk, <<dirs[k], file>>) # NoFile
    BY <2>5, TextAssumption DEF TextAssumption, Contents
  <2>8. FindFile(dk, dirs, file) \in Path
    BY <1>1, FindFileType
  <2> QED BY <2>6, <2>7, <2>8, ContentsType
<1>2. ASSUME NEW m \in ModName, FindModule(dk, dirs, m) # NoFile
      PROVE  /\ FindModule(dk, dirs, m) \in Path
             /\ Contents(dk, FindModule(dk, dirs, m)) \in Text
  <2>1. m.base \in Name
    BY DEF ModName
  <2>2. CASE FindModule(dk, dirs, m) = FindFile(dk, dirs, m.base)
    BY <1>1, <1>2, <2>1, <2>2
  <2>3. CASE FindModule(dk, dirs, m) = InMem(m.base) /\ m.base \in DOMAIN BuiltIn
    <3>1. Contents(dk, <<Memory, m.base>>) = BuiltIn[m.base]
      BY DEF Contents
    <3>2. BuiltIn[m.base] \in Text
      BY <2>3, TextAssumption DEF TextAssumption
    <3>3. FindModule(dk, dirs, m) \in Path
      BY <2>3 DEF InMem, Path
    <3> QED BY <2>3, <3>1, <3>2, <3>3 DEF InMem
  <2> QED BY <2>2, <2>3 DEF FindModule
<1> QED BY <1>1, <1>2

-----------------------------------------------------------------------------
(***************************************************************************)
(* A request whose files are there.                                        *)
(***************************************************************************)
Asked == IInv /\ request # NoModule /\ Atomic!RootPath(request) # NoFile

Root == Atomic!Root(request)
PathOf(m) == Atomic!PathOf(request, m)
TextOf(m) == Atomic!TextOf(request, m)
Readable(m) == Atomic!Readable(request, m)
Needs(m) == Atomic!Needs(request, m)
Good(m) == Atomic!Good(request, m)
Needed == Atomic!Needed(request)
Leads(m) == Atomic!Closure(Atomic!Edges(request), Atomic!Needs(request, m))
Loadable == Atomic!Loadable(request)

LEMMA RequestFacts ==
  ASSUME IInv, request # NoModule
  PROVE  /\ Atomic!Dirs(request) \in Seq(Dir)
         /\ \/ request.by = "name" /\ request.module \in ModName
            \/ request.by = "path" /\ request.path \in Dir \X Name
<1>1. \/ request.by = "name" /\ request.module \in ModName
      \/ request.by = "path" /\ request.path \in Dir \X Name
  BY DEF IInv, TypeOK, Request, ByName, ByPath
<1>2. SearchPath \in Seq(Dir)
  BY TextAssumption DEF TextAssumption
<1>3. CASE request.by = "name"
  BY <1>1, <1>2, <1>3 DEF Atomic!Dirs
<1>4. CASE request.by = "path" /\ request.path \in Dir \X Name
  <2>1. <<request.path[1]>> \in Seq(Dir)
    BY <1>4
  <2>2. <<request.path[1]>> \o SearchPath \in Seq(Dir)
    BY <1>2, <2>1, ConcatProperties
  <2> QED BY <1>4, <2>2 DEF Atomic!Dirs
<1> QED BY <1>1, <1>3, <1>4

LEMMA RootFacts ==
  ASSUME Asked
  PROVE  /\ Atomic!RootPath(request) \in Path
         /\ Contents(disk, Atomic!RootPath(request)) \in Text
         /\ Root \in ModName /\ PathOf(Root) = Atomic!RootPath(request)
         /\ request.by = "name" => Root = request.module
         /\ request.by # "name" => Root = Plain(Contents(disk, Atomic!RootPath(request)).name)
<1> DEFINE path == Atomic!RootPath(request)
<1>0. disk \in Disks
  BY DEF Asked, IInv, TypeOK
<1>1. path \in Path /\ Contents(disk, path) \in Text
  <2>1. CASE request.by = "name" /\ request.module \in ModName
    <3>1. path = FindModule(disk, Atomic!Dirs(request), request.module)
      BY <2>1, SameTexts DEF Atomic!RootPath
    <3> QED BY <1>0, <2>1, <3>1, RequestFacts, FoundText DEF Asked
  <2>2. CASE request.by = "path" /\ request.path \in Dir \X Name
    <3>1. path = FindFile(disk, Atomic!Dirs(request), request.path[2])
      BY <2>2, SameTexts DEF Atomic!RootPath
    <3>2. request.path[2] \in Name
      BY <2>2
    <3> QED BY <1>0, <3>1, <3>2, RequestFacts, FoundText DEF Asked
  <2> QED BY <2>1, <2>2, RequestFacts DEF Asked
<1>2. /\ request.by = "name" => Root = request.module
      /\ request.by # "name" => Root = Plain(Contents(disk, path).name)
  BY SameTexts DEF Root, Atomic!Root
<1>3. Root \in ModName
  <2>1. Plain(Contents(disk, path).name) \in ModName
    BY <1>1 DEF Text, Plain, ModName
  <2> QED BY <1>2, <2>1, RequestFacts DEF Asked
<1>4. PathOf(Root) = path
  BY DEF PathOf, Root, Atomic!PathOf
<1> QED BY <1>1, <1>2, <1>3, <1>4

LEMMA ModuleFacts ==
  ASSUME Asked, NEW m \in ModName
  PROVE  /\ m # Root => PathOf(m) = FindModule(disk, Atomic!Dirs(request), m)
         /\ TextOf(m) = Contents(disk, PathOf(m))
         /\ Readable(m) <=> PathOf(m) # NoFile /\ TextOf(m).fault # "parse"
         /\ PathOf(m) # NoFile => PathOf(m) \in Path /\ TextOf(m) \in Text
         /\ Needs(m) \in SUBSET ModName
         /\ \A k \in DOMAIN Dependencies(TextOf(m)) :
              Readable(m) => /\ Dependencies(TextOf(m))[k] \in Dependency
                             /\ Dependencies(TextOf(m))[k].name \in Needs(m)
         /\ Good(m) <=>
              /\ Readable(m)
              /\ TextOf(m).name = m.base
              /\ TextOf(m).fault = "none" \/ (TextOf(m).fault = "addParams" /\ ~m.paramInst)
              /\ m.paramInst => TextOf(m).params
              /\ \A k \in DOMAIN Dependencies(TextOf(m)) :
                   LET d == Dependencies(TextOf(m))[k]
                   IN  d.how = "import" /\ Readable(d.name)
                         => ~IsParametrized(d.name, TextOf(d.name))
         /\ \A n \in Needs(m) : /\ Readable(m)
                                /\ \E k \in DOMAIN Dependencies(TextOf(m)) :
                                     Dependencies(TextOf(m))[k].name = n
<1>1. m # Root => PathOf(m) = FindModule(disk, Atomic!Dirs(request), m)
  BY SameTexts DEF PathOf, Root, Atomic!PathOf
<1>2. /\ TextOf(m) = Contents(disk, PathOf(m))
      /\ Readable(m) <=> PathOf(m) # NoFile /\ TextOf(m).fault # "parse"
  BY SameTexts DEF TextOf, PathOf, Atomic!TextOf, Readable, Atomic!Readable
<1>3. PathOf(m) # NoFile => PathOf(m) \in Path /\ TextOf(m) \in Text
  <2>1. disk \in Disks
    BY DEF Asked, IInv, TypeOK
  <2>2. CASE m = Root
    BY <1>2, <2>2, RootFacts
  <2>3. CASE m # Root
    BY <1>1, <1>2, <2>1, <2>3, RequestFacts, FoundText DEF Asked
  <2> QED BY <2>2, <2>3
<1> DEFINE deps == Dependencies(TextOf(m))
           of == Atomic!DependsOn(request, m)
<1>4. of = IF Readable(m) THEN {deps[k] : k \in DOMAIN deps} ELSE {}
  BY SameTexts DEF Atomic!DependsOn, Readable, TextOf
<1>5. Needs(m) = {d.name : d \in of}
  BY DEF Needs, Atomic!Needs
<1>6. Readable(m) => deps \in Seq(Dependency)
  BY <1>2, <1>3, DependenciesType
<1>7. \A k \in DOMAIN deps :
        Readable(m) => deps[k] \in Dependency /\ deps[k].name \in Needs(m)
  <2> HIDE DEF deps, of
  <2> QED BY <1>4, <1>5, <1>6
<1>8. \A n \in Needs(m) : Readable(m) /\ \E k \in DOMAIN deps : deps[k].name = n
  <2> HIDE DEF deps, of
  <2> QED BY <1>4, <1>5
<1>9. Needs(m) \in SUBSET ModName
  <2> HIDE DEF deps
  <2> QED BY <1>7, <1>8 DEF Dependency
<1>10. Good(m) <=>
         /\ Readable(m)
         /\ TextOf(m).name = m.base
         /\ TextOf(m).fault = "none" \/ (TextOf(m).fault = "addParams" /\ ~m.paramInst)
         /\ m.paramInst => TextOf(m).params
         /\ \A d \in of : d.how = "import" /\ Readable(d.name)
                            => ~IsParametrized(d.name, TextOf(d.name))
  BY SameTexts DEF Good, Atomic!Good, Readable, TextOf
<1>11. Readable(m) =>
         ((\A d \in of : d.how = "import" /\ Readable(d.name)
                           => ~IsParametrized(d.name, TextOf(d.name)))
          <=> \A k \in DOMAIN deps :
                deps[k].how = "import" /\ Readable(deps[k].name)
                  => ~IsParametrized(deps[k].name, TextOf(deps[k].name)))
  <2> HIDE DEF deps, of
  <2> QED BY <1>4
<1> HIDE DEF deps, of
<1>12. Good(m) <=>
         /\ Readable(m)
         /\ TextOf(m).name = m.base
         /\ TextOf(m).fault = "none" \/ (TextOf(m).fault = "addParams" /\ ~m.paramInst)
         /\ m.paramInst => TextOf(m).params
         /\ \A k \in DOMAIN deps :
              LET d == deps[k]
              IN  d.how = "import" /\ Readable(d.name)
                    => ~IsParametrized(d.name, TextOf(d.name))
  BY <1>10, <1>11
<1> QED BY <1>1, <1>2, <1>3, <1>7, <1>8, <1>9, <1>12 DEF deps

\* What the request needs, and what a module leads to.
LEMMA NeededFacts ==
  ASSUME Asked
  PROVE  /\ Needed \in SUBSET ModName /\ Root \in Needed
         /\ \A m \in Needed : Needs(m) \subseteq Needed
         /\ \A S \in SUBSET ModName :
              Root \in S /\ (\A m \in S : Needs(m) \subseteq S) => Needed \subseteq S
<1> DEFINE edges == Atomic!Edges(request)
<1>1. /\ edges \in SUBSET (ModName \X ModName)
      /\ \A m, n \in ModName : <<m, n>> \in edges <=> n \in Needs(m)
  BY SameTexts, ModuleFacts DEF Atomic!Edges, Needs
<1>2. Needed = Atomic!Closure(edges, {Root}) /\ {Root} \in SUBSET ModName
  BY RootFacts DEF Needed, Atomic!Needed, Root
<1> HIDE DEF edges
<1>3. /\ Needed \in SUBSET ModName /\ {Root} \subseteq Needed
      /\ \A m, n \in ModName : m \in Needed /\ <<m, n>> \in edges => n \in Needed
      /\ \A S \in SUBSET ModName :
           {Root} \subseteq S /\ (\A m, n \in ModName : m \in S /\ <<m, n>> \in edges => n \in S)
             => Needed \subseteq S
  <2> DEFINE start == {Root}
             C == Atomic!Closure(edges, start)
  <2>1. start \in SUBSET ModName
    BY <1>2
  <2> HIDE DEF start
  <2>2. /\ C \in SUBSET ModName /\ start \subseteq C
        /\ \A m, n \in ModName : m \in C /\ <<m, n>> \in edges => n \in C
        /\ \A S \in SUBSET ModName :
             start \subseteq S /\ (\A m, n \in ModName : m \in S /\ <<m, n>> \in edges => n \in S)
               => C \subseteq S
    BY <1>1, <2>1, ClosureFacts
  <2>3. Needed = C
    BY <1>2 DEF start
  <2> HIDE DEF C
  <2> QED BY <2>2, <2>3 DEF start
<1>4. \A m \in ModName : Needs(m) \in SUBSET ModName
  BY ModuleFacts
<1> QED BY <1>1, <1>3, <1>4

LEMMA LeadsFacts ==
  ASSUME Asked, NEW o \in ModName
  PROVE  /\ Leads(o) \in SUBSET ModName /\ Needs(o) \subseteq Leads(o)
         /\ \A m \in Leads(o) : Needs(m) \subseteq Leads(o)
         /\ \A S \in SUBSET ModName :
              Needs(o) \subseteq S /\ (\A m \in S : Needs(m) \subseteq S) => Leads(o) \subseteq S
<1> DEFINE edges == Atomic!Edges(request)
<1>1. /\ edges \in SUBSET (ModName \X ModName)
      /\ \A m, n \in ModName : <<m, n>> \in edges <=> n \in Needs(m)
  BY SameTexts, ModuleFacts DEF Atomic!Edges, Needs
<1>2. Leads(o) = Atomic!Closure(edges, Needs(o)) /\ Needs(o) \in SUBSET ModName
  BY ModuleFacts DEF Leads, Needs
<1> HIDE DEF edges
<1>3. /\ Leads(o) \in SUBSET ModName /\ Needs(o) \subseteq Leads(o)
      /\ \A m, n \in ModName : m \in Leads(o) /\ <<m, n>> \in edges => n \in Leads(o)
      /\ \A S \in SUBSET ModName :
           Needs(o) \subseteq S /\ (\A m, n \in ModName : m \in S /\ <<m, n>> \in edges => n \in S)
             => Leads(o) \subseteq S
  <2> DEFINE start == Needs(o)
             C == Atomic!Closure(edges, start)
  <2>1. start \in SUBSET ModName
    BY <1>2
  <2> HIDE DEF start
  <2>2. /\ C \in SUBSET ModName /\ start \subseteq C
        /\ \A m, n \in ModName : m \in C /\ <<m, n>> \in edges => n \in C
        /\ \A S \in SUBSET ModName :
             start \subseteq S /\ (\A m, n \in ModName : m \in S /\ <<m, n>> \in edges => n \in S)
               => C \subseteq S
    BY <1>1, <2>1, ClosureFacts
  <2>3. Leads(o) = C
    BY <1>2 DEF start
  <2> HIDE DEF C
  <2> QED BY <2>2, <2>3 DEF start
<1>4. \A m \in ModName : Needs(m) \in SUBSET ModName
  BY ModuleFacts
<1> QED BY <1>1, <1>3, <1>4

\* What makes a request one that cannot be answered, and what one that can.
LEMMA LoadableFacts ==
  ASSUME Asked
  PROVE  Loadable <=> \A m \in Needed : Good(m) /\ m \notin Leads(m)
BY DEF Asked, Loadable, Atomic!Loadable, Needed, Atomic!Needed, Good, Leads

-----------------------------------------------------------------------------
(***************************************************************************)
(* What is so during a load whose files stay as they are.                  *)
(***************************************************************************)
Quiet == request # NoModule /\ request.quiet

\* The path and the text of a module are those that the request means by it.
Fits(m, path, text) ==
  m \in Needed /\ Readable(m) /\ path = PathOf(m) /\ text = TextOf(m)

Elements(list) == {list[i] : i \in DOMAIN list}
Shelf(e) == Elements(e.lmLoadedModules) \cup Elements(e.lmLoadedParamModules)

\* A module that was loaded is the right one, and so is all that it leads to.
Stored(e, lm) ==
  /\ Fits(lm.lmName, lm.lmFilePath, lm.text)
  /\ Good(lm.lmName) /\ lm.lmName \notin Leads(lm.lmName)
  /\ \A n \in Needs(lm.lmName) : isLoaded(e, n)

FrameFits(f) ==
  /\ Fits(f.isrc, f.path, f.text)
  /\ \A l \in DOMAIN f.todo :
       \E k \in DOMAIN Dependencies(f.text) : f.todo[l] = Dependencies(f.text)[k]

\* The stack begins with what was asked for, and each module leads to those above.
StackFits(frames) ==
  /\ frames # <<>> => frames[1].isrc = Root
  /\ \A i \in DOMAIN frames : FrameFits(frames[i])
  /\ \A i, j \in DOMAIN frames : i < j => frames[j].isrc \in Leads(frames[i].isrc)

\* What is about to be read is what was asked for, or what the top frame wants.
CallFits ==
  call # NoModule =>
    IF stack = <<>>
    THEN /\ call.path = Atomic!RootPath(request)
         /\ call.isrc = IF request.by = "name" THEN request.module ELSE NoModule
    ELSE /\ Top.todo # <<>> /\ call.isrc = Wanted.name
         /\ call.path = FindModule(disk, work.meSearchPath, call.isrc)
         /\ call.path # NoFile

QuietInv ==
  Quiet => /\ Atomic!RootPath(request) # NoFile
           /\ work.meSearchPath = Atomic!Dirs(request)
           /\ \A lm \in Shelf(work) : Stored(work, lm)
           /\ StackFits(stack) /\ CallFits

\* While neither the files nor the request change, they mean the same.
LEMMA SameRequest ==
  ASSUME UNCHANGED <<disk, request>>
  PROVE  /\ Atomic!RootPath(request)' = Atomic!RootPath(request)
         /\ Atomic!Dirs(request)' = Atomic!Dirs(request)
         /\ Root' = Root /\ Needed' = Needed
         /\ \A m : /\ PathOf(m)' = PathOf(m) /\ TextOf(m)' = TextOf(m)
                   /\ Readable(m)' <=> Readable(m)
                   /\ Needs(m)' = Needs(m) /\ Leads(m)' = Leads(m)
                   /\ Good(m)' <=> Good(m)
<1>1. /\ Atomic!Dirs(request)' = Atomic!Dirs(request)
      /\ Atomic!RootPath(request)' = Atomic!RootPath(request)
  BY DEF Atomic!Dirs, Atomic!RootPath
<1>2. Root' = Root
  BY <1>1 DEF Root, Atomic!Root
<1>3. \A m : PathOf(m)' = PathOf(m)
  BY <1>1, <1>2 DEF PathOf, Atomic!PathOf, Root
<1>4. \A m : TextOf(m)' = TextOf(m)
  BY <1>3 DEF TextOf, Atomic!TextOf, PathOf
<1>5. \A m : Readable(m)' <=> Readable(m)
  BY <1>3, <1>4 DEF Readable, Atomic!Readable, PathOf, TextOf
<1>6. \A m : Atomic!DependsOn(request, m)' = Atomic!DependsOn(request, m)
  BY <1>4, <1>5 DEF Atomic!DependsOn, Readable, TextOf
<1>7. \A m : Needs(m)' = Needs(m)
  BY <1>6 DEF Needs, Atomic!Needs
<1>8. Atomic!Edges(request)' = Atomic!Edges(request)
  BY <1>7 DEF Atomic!Edges, Needs
<1>9. \A m : Leads(m)' = Leads(m)
  BY <1>7, <1>8 DEF Leads, Needs
<1>10. Needed' = Needed
  BY <1>2, <1>8 DEF Needed, Atomic!Needed, Root
<1>11. \A m : Good(m)' <=> Good(m)
  BY <1>4, <1>5, <1>6 DEF Good, Atomic!Good, Readable, TextOf
<1> QED BY <1>1, <1>2, <1>3, <1>4, <1>5, <1>7, <1>9, <1>10, <1>11

LEMMA AskedQuietly == IInv /\ QuietInv /\ Quiet => Asked
BY DEF QuietInv, Quiet, Asked

\* The top frame of a quiet load, and the module that it wants.
LEMMA TopFits ==
  ASSUME IInv, QuietInv, Quiet, stack # <<>>
  PROVE  /\ Top \in Frame /\ Len(stack) \in DOMAIN stack /\ Top = stack[Len(stack)]
         /\ FrameFits(Top) /\ Top.isrc \in Needed /\ Top.isrc \in ModName
         /\ 1 \in DOMAIN stack /\ stack[1].isrc = Root
         /\ Top.todo # <<>> =>
              /\ Wanted \in Dependency /\ Wanted.name \in ModName
              /\ \E k \in DOMAIN Dependencies(Top.text) : Wanted = Dependencies(Top.text)[k]
              /\ Wanted.name \in Needed
              /\ \A i \in DOMAIN stack : Wanted.name \in Leads(stack[i].isrc)
<1>0. Asked /\ stack \in Seq(Frame) /\ StackFits(stack)
  BY AskedQuietly DEF QuietInv, IInv, TypeOK
<1>1. /\ Len(stack) \in Nat \ {0} /\ DOMAIN stack = 1..Len(stack)
      /\ Top \in Frame /\ Top = stack[Len(stack)] /\ Len(stack) \in DOMAIN stack
  BY <1>0, TopType
<1>2. FrameFits(Top) /\ Top.isrc \in Needed /\ Top.isrc \in ModName
  BY <1>0, <1>1 DEF StackFits, FrameFits, Fits, Frame
<1>3. 1 \in DOMAIN stack /\ stack[1].isrc = Root
  BY <1>0, <1>1 DEF StackFits
<1>4. ASSUME Top.todo # <<>>
      PROVE  /\ Wanted \in Dependency /\ Wanted.name \in ModName
             /\ \E k \in DOMAIN Dependencies(Top.text) : Wanted = Dependencies(Top.text)[k]
             /\ Wanted.name \in Needed
             /\ \A i \in DOMAIN stack : Wanted.name \in Leads(stack[i].isrc)
  <2>1. Top.todo \in Seq(Dependency)
    BY <1>1 DEF Frame
  <2>2. 1 \in DOMAIN Top.todo /\ Wanted = Top.todo[1] /\ Wanted \in Dependency
    BY <1>4, <2>1 DEF Wanted
  <2>3. PICK k \in DOMAIN Dependencies(Top.text) : Wanted = Dependencies(Top.text)[k]
    BY <1>2, <2>2 DEF FrameFits
  <2>4. Wanted.name \in Needs(Top.isrc)
    <3>1. Top.text = TextOf(Top.isrc) /\ Readable(Top.isrc)
      BY <1>2 DEF FrameFits, Fits
    <3> QED BY <1>0, <1>2, <2>3, <3>1, ModuleFacts
  <2>5. Wanted.name \in Needed /\ Wanted.name \in ModName
    BY <1>0, <1>2, <2>2, <2>4, NeededFacts DEF Dependency
  <2>6. ASSUME NEW i \in DOMAIN stack
        PROVE  Wanted.name \in Leads(stack[i].isrc)
    <3>1. stack[i].isrc \in ModName
      BY <1>0, NeededFacts DEF StackFits, FrameFits, Fits
    <3>2. CASE i = Len(stack)
      BY <1>0, <1>1, <2>4, <3>1, <3>2, LeadsFacts
    <3>3. CASE i # Len(stack)
      <4>1. i < Len(stack)
        BY <1>1, <3>3
      <4>2. Top.isrc \in Leads(stack[i].isrc)
        BY <1>0, <1>1, <4>1 DEF StackFits
      <4> QED BY <1>0, <2>4, <3>1, <4>2, LeadsFacts
    <3> QED BY <3>2, <3>3
  <2> QED BY <2>2, <2>3, <2>5, <2>6
<1> QED BY <1>1, <1>2, <1>3, <1>4

-----------------------------------------------------------------------------
(***************************************************************************)
(* A quiet load that fails has found something that is wrong.              *)
(***************************************************************************)

LEMMA LoopFound ==
  ASSUME IInv, QuietInv, Quiet, stack # <<>>, Top.todo # <<>>, Wanted.name \in Loading
  PROVE  ~Loadable
<1>1. PICK i \in DOMAIN stack : Wanted.name = stack[i].isrc
  BY DEF Loading
<1>2. Wanted.name \in Needed /\ Wanted.name \in Leads(Wanted.name)
  BY <1>1, TopFits
<1> QED BY <1>2, AskedQuietly, LoadableFacts

LEMMA BadFound ==
  ASSUME IInv, QuietInv, Quiet, NEW m \in Needed, ~Good(m)
  PROVE  ~Loadable
BY AskedQuietly, LoadableFacts

LEMMA ParseFails ==
  ASSUME IInv, QuietInv, Quiet, parseModule, GiveUp("failed"), call # NoModule
  PROVE  ~Loadable
<1> DEFINE text == Contents(disk, call.path)
           isrc == IF call.isrc = NoModule THEN Plain(text.name) ELSE call.isrc
<1>0. Asked /\ CallFits /\ disk \in Disks
  BY AskedQuietly DEF QuietInv, IInv, TypeOK
<1>1. text = NoFile \/ text.fault = "parse" \/ Recursive(isrc)
  <2>1. request # NoModule /\ request' = NoModule
    BY DEF Quiet, GiveUp
  <2> QED BY <2>1 DEF parseModule
<1>2. NoFile \notin Text
  BY TextAssumption DEF TextAssumption
<1>3. CASE stack = <<>>
  <2>1. call.path = PathOf(Root) /\ text \in Text
    BY <1>0, <1>3, RootFacts DEF CallFits
  <2>2. ~Recursive(isrc)
    BY <1>3 DEF Recursive, Loading
  <2>3. text.fault = "parse"
    BY <1>1, <1>2, <2>1, <2>2
  <2>4. Root \in Needed /\ Root \in ModName
    BY <1>0, NeededFacts
  <2>5. TextOf(Root) = text
    BY <1>0, <2>1, <2>4, ModuleFacts
  <2>6. ~Good(Root)
    BY <1>0, <2>3, <2>4, <2>5, ModuleFacts
  <2> QED BY <2>4, <2>6, BadFound
<1>4. CASE stack # <<>>
  <2>1. /\ Top.todo # <<>> /\ call.isrc = Wanted.name /\ call.path # NoFile
        /\ call.path = FindModule(disk, Atomic!Dirs(request), call.isrc)
    BY <1>0, <1>4 DEF CallFits, QuietInv
  <2>2. Wanted.name \in ModName /\ Wanted.name \in Needed
    BY <1>4, <2>1, TopFits
  <2>3. text \in Text
    BY <1>0, <2>1, <2>2, RequestFacts, FoundText DEF Asked
  <2>4. isrc = Wanted.name
    BY <2>1, <2>2, PreludeType
  <2>5. CASE Recursive(isrc)
    BY <1>4, <2>1, <2>4, <2>5, LoopFound DEF Recursive
  <2>6. CASE ~Recursive(isrc)
    <3>1. Wanted.name # Root
      BY <1>4, <2>4, <2>6, TopFits DEF Recursive, Loading
    <3>2. PathOf(Wanted.name) = call.path
      BY <1>0, <2>1, <2>2, <3>1, ModuleFacts
    <3>3. TextOf(Wanted.name) = text
      BY <1>0, <2>2, <3>2, ModuleFacts
    <3>4. text.fault = "parse"
      BY <1>1, <1>2, <2>3, <2>6
    <3>5. ~Good(Wanted.name)
      BY <1>0, <2>2, <3>3, <3>4, ModuleFacts
    <3> QED BY <2>2, <3>5, BadFound
  <2> QED BY <2>5, <2>6
<1> QED BY <1>3, <1>4

LEMMA FindFails ==
  ASSUME IInv, QuietInv, Quiet, loadModuleFrom, GiveUp("failed")
  PROVE  ~Loadable
<1>0. Asked /\ InLoadDeps /\ stack # <<>> /\ Top.todo # <<>>
  BY AskedQuietly DEF loadModuleFrom, InLoadDeps
<1>1. Wanted.name \in ModName /\ Wanted.name \in Needed
  BY <1>0, TopFits
<1>2. FindModule(disk, Atomic!Dirs(request), Wanted.name) = NoFile
  <2>1. request # NoModule /\ request' = NoModule
    BY DEF Quiet, GiveUp
  <2> QED BY <2>1 DEF loadModuleFrom, QuietInv
<1>3. CASE Wanted.name = Root
  BY <1>0, <1>3, TopFits, LoopFound DEF Loading
<1>4. CASE Wanted.name # Root
  <2>1. PathOf(Wanted.name) = NoFile
    BY <1>0, <1>1, <1>2, <1>4, ModuleFacts
  <2>2. ~Good(Wanted.name)
    BY <1>0, <1>1, <2>1, ModuleFacts
  <2> QED BY <1>1, <2>2, BadFound
<1> QED BY <1>3, <1>4

LEMMA DepsFails ==
  ASSUME IInv, QuietInv, Quiet, loadDeps, GiveUp("failed")
  PROVE  ~Loadable
<1>0. Asked /\ InLoadDeps /\ stack # <<>> /\ Top.todo # <<>>
  BY AskedQuietly DEF loadDeps, InLoadDeps
<1>1. /\ Wanted.name \in ModName /\ Top.isrc \in Needed /\ Top.isrc \in ModName
      /\ FrameFits(Top)
  BY <1>0, TopFits
<1>2. Wanted.how = "import" /\ Wanted.name \in Names(work.lmLoadedParamModules)
  <2>1. request # NoModule /\ request' = NoModule
    BY DEF Quiet, GiveUp
  <2> QED BY <2>1 DEF loadDeps, ImportsParam
<1>3. PICK i \in DOMAIN work.lmLoadedParamModules :
        work.lmLoadedParamModules[i].lmName = Wanted.name
  BY <1>2 DEF Names
<1> DEFINE lm == work.lmLoadedParamModules[i]
<1>4. Stored(work, lm) /\ IsParametrized(lm.lmName, lm.text)
  BY DEF QuietInv, Shelf, Elements, IInv, EnvOK, Apart
<1>5. Readable(Wanted.name) /\ IsParametrized(Wanted.name, TextOf(Wanted.name))
  BY <1>3, <1>4 DEF Stored, Fits
<1>6. PICK k \in DOMAIN Dependencies(Top.text) : Wanted = Dependencies(Top.text)[k]
  BY <1>0, TopFits
<1>7. Top.text = TextOf(Top.isrc)
  BY <1>1 DEF FrameFits, Fits
<1>8. ~Good(Top.isrc)
  BY <1>0, <1>1, <1>2, <1>5, <1>6, <1>7, ModuleFacts
<1> QED BY <1>1, <1>8, BadFound

LEMMA CheckFails ==
  ASSUME IInv, QuietInv, Quiet, stack # <<>>, Rejected(Top.isrc, Top.text)
  PROVE  ~Loadable
<1>0. Asked /\ Top.isrc \in Needed /\ Top.isrc \in ModName /\ Top.text = TextOf(Top.isrc)
  BY AskedQuietly, TopFits DEF FrameFits, Fits
<1>1. ~Good(Top.isrc)
  BY <1>0, ModuleFacts DEF Rejected
<1> QED BY <1>0, <1>1, BadFound

-----------------------------------------------------------------------------
(***************************************************************************)
(* The invariant, step by step.                                            *)
(***************************************************************************)

LEMMA SameFits ==
  ASSUME UNCHANGED <<disk, request>>
  PROVE  /\ Quiet' <=> Quiet
         /\ \A m, path, text : Fits(m, path, text)' <=> Fits(m, path, text)
         /\ \A f : FrameFits(f)' <=> FrameFits(f)
         /\ \A frames : StackFits(frames)' <=> StackFits(frames)
         /\ \A e, lm : Stored(e, lm)' <=> Stored(e, lm)
<1>1. Quiet' <=> Quiet
  BY DEF Quiet
<1>2. \A m, path, text : Fits(m, path, text)' <=> Fits(m, path, text)
  BY SameRequest DEF Fits
<1>3. \A f : FrameFits(f)' <=> FrameFits(f)
  BY <1>2 DEF FrameFits
<1>4. \A frames : StackFits(frames)' <=> StackFits(frames)
  BY <1>3, SameRequest DEF StackFits
<1>5. \A e, lm : Stored(e, lm)' <=> Stored(e, lm)
  BY <1>2, SameRequest DEF Stored
<1> QED BY <1>1, <1>2, <1>3, <1>4, <1>5

\* A load begins with nothing loaded.
LEMMA BeginQuiet ==
  ASSUME IInv, NEW req, NEW copy, NEW isrc, NEW path, Begin(req, copy, isrc, path),
         Empty(copy),
         path = IF req.by = "name" THEN FindModule(disk, copy.meSearchPath, req.module)
                ELSE FindFile(disk, copy.meSearchPath, req.path[2]),
         isrc = (IF req.by = "name" THEN req.module ELSE NoModule),
         copy.meSearchPath = IF req.by = "name" THEN SearchPath
                             ELSE <<req.path[1]>> \o SearchPath
  PROVE  QuietInv'
<1>1. CASE path = NoFile
  BY <1>1 DEF Begin, QuietInv, Quiet
<1>2. CASE path # NoFile
  <2>1. /\ request' = req /\ work' = copy /\ disk' = disk /\ stack' = <<>>
        /\ call' = [isrc |-> isrc, path |-> path]
    BY <1>2 DEF Begin, IInv
  <2>2. Atomic!Dirs(request)' = copy.meSearchPath
    BY <2>1 DEF Atomic!Dirs
  <2>3. Atomic!RootPath(request)' = path
    BY <2>1, <2>2, SameTexts DEF Atomic!RootPath
  <2>4. Shelf(work') = {} /\ Shelf(work)' = Shelf(work')
    BY <2>1 DEF Empty, Shelf, Elements
  <2>5. StackFits(stack)'
    BY <2>1 DEF StackFits
  <2>6. CallFits'
    BY <2>1, <2>3 DEF CallFits
  <2> QED BY <1>2, <2>1, <2>2, <2>3, <2>4, <2>5, <2>6 DEF QuietInv
<1> QED BY <1>1, <1>2

LEMMA AskQuiet ==
  ASSUME IInv, Ask
  PROVE  QuietInv'
<1>0. env \in ModuleEnv /\ env.meSearchPath = SearchPath
  BY DEF IInv, TypeOK
<1>r. /\ resetModuleEnv(env) \in ModuleEnv /\ Empty(resetModuleEnv(env))
      /\ resetModuleEnv(env).meSearchPath = SearchPath
  BY <1>0, ResetOK
<1>1. ASSUME NEW m \in ModName, NEW quiet \in BOOLEAN, loadModuleByName(m, quiet)
      PROVE  QuietInv'
  <2> DEFINE req == ByName(m, quiet)
             copy == resetModuleEnv(env)
             path == FindModule(disk, env.meSearchPath, m)
  <2>1. req.by = "name" /\ req.module = m
    BY DEF ByName
  <2>2. Begin(req, copy, m, path)
    BY <1>1 DEF loadModuleByName
  <2>3. path = FindModule(disk, copy.meSearchPath, req.module)
    BY <1>0, <1>r, <2>1
  <2>4. Empty(copy) /\ copy.meSearchPath = SearchPath
    BY <1>r
  <2> HIDE DEF req, copy, path
  <2> QED BY <2>1, <2>2, <2>3, <2>4, BeginQuiet
<1>2. ASSUME NEW dir \in Dir, NEW file \in Name, NEW quiet \in BOOLEAN,
             loadModuleByPath(dir, file, quiet)
      PROVE  QuietInv'
  <2> DEFINE dirs == <<dir>> \o env.meSearchPath
             req == ByPath(InFile(dir, file), quiet)
             copy == [resetModuleEnv(env) EXCEPT !.meSearchPath = dirs]
             path == FindFile(disk, dirs, file)
  <2>1. req.by # "name" /\ req.path[1] = dir /\ req.path[2] = file
    BY DEF ByPath, InFile
  <2>2. Begin(req, copy, NoModule, path)
    BY <1>2 DEF loadModuleByPath
  <2>3. Empty(copy) /\ copy.meSearchPath = dirs
    <3> HIDE DEF dirs
    <3> QED BY <1>r DEF ModuleEnv, Empty
  <2>4. dirs = <<req.path[1]>> \o SearchPath
    BY <1>0, <2>1
  <2>5. path = FindFile(disk, copy.meSearchPath, req.path[2])
    <3> HIDE DEF copy, req, dirs
    <3> QED BY <2>1, <2>3
  <2> HIDE DEF req, copy, path, dirs
  <2> QED BY <2>1, <2>2, <2>3, <2>4, <2>5, BeginQuiet
<1> QED BY <1>1, <1>2 DEF Ask

\* A load that has ended leaves nothing to say.
LEMMA EndedQuiet ==
  ASSUME request' = NoModule
  PROVE  QuietInv'
BY DEF QuietInv, Quiet

LEMMA ParseQuiet ==
  ASSUME IInv, QuietInv, parseModule
  PROVE  QuietInv'
<1> DEFINE text == Contents(disk, call.path)
           isrc == IF call.isrc = NoModule THEN Plain(text.name) ELSE call.isrc
           frame == [isrc |-> isrc, path |-> call.path, text |-> text, todo |-> Dependencies(text)]
<1>1. CASE GiveUp("failed")
  BY <1>1, EndedQuiet DEF GiveUp
<1>2. CASE ~GiveUp("failed")
  <2>1. /\ text # NoFile /\ text.fault # "parse" /\ ~Recursive(isrc)
        /\ stack' = Append(stack, frame) /\ call' = NoModule
        /\ disk' = disk /\ env' = env /\ work' = work /\ request' = request
        /\ call # NoModule
    BY <1>2 DEF parseModule
  <2>2. CASE ~Quiet
    BY <2>1, <2>2, SameFits DEF QuietInv
  <2>3. CASE Quiet
    <3>0. /\ Asked /\ CallFits /\ StackFits(stack) /\ stack \in Seq(Frame)
          /\ work.meSearchPath = Atomic!Dirs(request)
      BY <2>3, AskedQuietly DEF QuietInv, IInv, TypeOK
    <3>1. /\ Fits(isrc, call.path, text)
          /\ stack = <<>> => isrc = Root
          /\ \A i \in DOMAIN stack : isrc \in Leads(stack[i].isrc)
      <4>1. CASE stack = <<>>
        <5>1. call.path = PathOf(Root) /\ text = TextOf(Root) /\ Root \in Needed
              /\ call.path = Atomic!RootPath(request) /\ call.path # NoFile
          BY <2>1, <3>0, <4>1, RootFacts, ModuleFacts, NeededFacts DEF CallFits, Asked
        <5>2. isrc = Root
          <6>1. CASE request.by = "name"
            <7>1. call.isrc = Root /\ Root \in ModName
              BY <2>1, <3>0, <4>1, <6>1, RootFacts DEF CallFits
            <7> QED BY <7>1, PreludeType
          <6>2. CASE request.by # "name"
            <7>1. call.isrc = NoModule
              BY <2>1, <3>0, <4>1, <6>2 DEF CallFits
            <7>2. Root = Plain(text.name)
              BY <3>0, <5>1, <6>2, RootFacts
            <7> QED BY <7>1, <7>2
          <6> QED BY <6>1, <6>2
        <5> HIDE DEF text, isrc
        <5>3. Readable(Root)
          BY <2>1, <3>0, <5>1, RootFacts, ModuleFacts
        <5>4. Fits(isrc, call.path, text)
          BY <5>1, <5>2, <5>3 DEF Fits
        <5>5. DOMAIN stack = {}
          BY <4>1
        <5> QED BY <5>2, <5>4, <5>5
      <4>2. CASE stack # <<>>
        <5>1. /\ Top.todo # <<>> /\ call.isrc = Wanted.name /\ call.path # NoFile
              /\ call.path = FindModule(disk, Atomic!Dirs(request), call.isrc)
          BY <2>1, <3>0, <4>2 DEF CallFits
        <5>2. /\ Wanted.name \in ModName /\ Wanted.name \in Needed
              /\ \A i \in DOMAIN stack : Wanted.name \in Leads(stack[i].isrc)
              /\ 1 \in DOMAIN stack /\ stack[1].isrc = Root
          BY <2>3, <4>2, <5>1, TopFits
        <5>3. isrc = Wanted.name
          BY <5>1, <5>2, PreludeType
        <5>4. isrc # Root
          BY <2>1, <5>2 DEF Recursive, Loading
        <5> HIDE DEF isrc
        <5>5. PathOf(isrc) = call.path
          BY <3>0, <5>1, <5>2, <5>3, <5>4, ModuleFacts
        <5>6. TextOf(isrc) = text
          BY <3>0, <5>2, <5>3, <5>5, ModuleFacts
        <5> HIDE DEF text
        <5>7. Readable(isrc)
          BY <2>1, <3>0, <5>1, <5>2, <5>3, <5>5, <5>6, ModuleFacts
        <5> QED BY <4>2, <5>2, <5>3, <5>5, <5>6, <5>7 DEF Fits
      <4> QED BY <4>1, <4>2
    <3> HIDE DEF isrc, text
    <3>2. /\ frame.isrc = isrc /\ frame.path = call.path /\ frame.text = text
          /\ frame.todo = Dependencies(text)
      OBVIOUS
    <3> HIDE DEF frame
    <3>3. FrameFits(frame)
      BY <3>1, <3>2 DEF FrameFits
    <3>4. /\ Len(stack) \in Nat /\ DOMAIN stack = 1..Len(stack)
          /\ DOMAIN stack' = 1..(Len(stack) + 1) /\ stack'[Len(stack) + 1] = frame
          /\ \A i \in 1..Len(stack) : stack'[i] = stack[i]
      BY <2>1, <3>0
    <3>5. stack'[1].isrc = Root
      <4>1. CASE stack = <<>>
        BY <3>1, <3>2, <3>4, <4>1
      <4>2. CASE stack # <<>>
        <5>1. 1 \in 1..Len(stack)
          BY <3>0, <4>2
        <5> QED BY <3>0, <3>4, <4>2, <5>1 DEF StackFits
      <4> QED BY <4>1, <4>2
    <3>6. \A i \in DOMAIN stack' : FrameFits(stack'[i])
      <4>1. \A i \in 1..Len(stack) : FrameFits(stack[i])
        BY <3>0, <3>4 DEF StackFits
      <4>2. \A i \in DOMAIN stack' : i \in 1..Len(stack) \/ i = Len(stack) + 1
        BY <3>4
      <4> QED BY <3>3, <3>4, <4>1, <4>2
    <3>7. ASSUME NEW i \in DOMAIN stack', NEW j \in DOMAIN stack', i < j
          PROVE  stack'[j].isrc \in Leads(stack'[i].isrc)
      <4>1. i \in 1..Len(stack) /\ (j \in 1..Len(stack) \/ j = Len(stack) + 1)
        BY <3>4, <3>7
      <4>2. CASE j \in 1..Len(stack)
        BY <3>0, <3>4, <3>7, <4>1, <4>2 DEF StackFits
      <4>3. CASE j = Len(stack) + 1
        BY <3>1, <3>2, <3>4, <4>1, <4>3
      <4> QED BY <4>1, <4>2, <4>3
    <3>8. StackFits(stack')
      BY <3>5, <3>6, <3>7 DEF StackFits
    <3>9. StackFits(stack)'
      BY <2>1, <3>8, SameRequest, SameFits DEF StackFits
    <3>10. CallFits'
      BY <2>1 DEF CallFits
    <3>11. \A lm \in Shelf(work)' : Stored(work, lm)'
      BY <2>1, <2>3, SameFits DEF QuietInv, Shelf
    <3> QED BY <2>1, <2>3, <3>0, <3>9, <3>10, <3>11, SameRequest DEF QuietInv, Asked
  <2> QED BY <2>2, <2>3
<1> QED BY <1>1, <1>2

LEMMA FindQuiet ==
  ASSUME IInv, QuietInv, loadModuleFrom
  PROVE  QuietInv'
<1> DEFINE path == FindModule(disk, work.meSearchPath, Wanted.name)
<1>1. CASE path = NoFile
  BY <1>1, EndedQuiet DEF loadModuleFrom, GiveUp
<1>2. CASE path # NoFile
  <2>1. /\ call' = [isrc |-> Wanted.name, path |-> path] /\ stack' = stack /\ work' = work
        /\ disk' = disk /\ request' = request /\ InLoadDeps
    BY <1>2 DEF loadModuleFrom
  <2>2. CallFits'
    <3>1. stack # <<>> /\ Top.todo # <<>>
      BY <2>1 DEF InLoadDeps
    <3>2. Top' = Top /\ Wanted' = Wanted
      BY <2>1 DEF Top, Wanted
    <3>3. call'.isrc = Wanted.name /\ call'.path = path
      BY <2>1
    <3> QED BY <1>2, <2>1, <3>1, <3>2, <3>3 DEF CallFits
  <2>3. \A lm : Stored(work, lm)' <=> Stored(work, lm)
    BY <2>1, SameFits DEF Stored
  <2> QED BY <2>1, <2>2, <2>3, SameRequest, SameFits DEF QuietInv, Shelf, StackFits
<1> QED BY <1>1, <1>2

LEMMA DepsQuiet ==
  ASSUME IInv, QuietInv, loadDeps
  PROVE  QuietInv'
<1>1. CASE ImportsParam(Wanted.name)
  BY <1>1, EndedQuiet DEF loadDeps, GiveUp
<1>2. CASE ~ImportsParam(Wanted.name)
  <2> DEFINE n == Len(stack)
             frame == [Top EXCEPT !.todo = Tail(@)]
  <2>1. /\ stack' = Advance /\ disk' = disk /\ work' = work
        /\ call' = NoModule /\ request' = request /\ InLoadDeps
    BY <1>2 DEF loadDeps, InLoadDeps
  <2>2. CASE ~Quiet
    BY <2>1, <2>2, SameFits DEF QuietInv
  <2>3. CASE Quiet
    <3>1. /\ stack # <<>> /\ Top.todo # <<>> /\ stack \in Seq(Frame) /\ StackFits(stack)
      BY <2>1, <2>3 DEF InLoadDeps, IInv, TypeOK, QuietInv
    <3>2. /\ n \in Nat \ {0} /\ DOMAIN stack = 1..n /\ Top \in Frame /\ Top = stack[n]
      BY <3>1, TopType
    <3>3. /\ frame.isrc = Top.isrc /\ frame.path = Top.path /\ frame.text = Top.text
          /\ frame.todo = Tail(Top.todo)
      BY <3>2 DEF Frame
    <3>4. FrameFits(frame)
      <4>1. FrameFits(Top)
        BY <2>3, <3>1, TopFits
      <4>2. Top.todo \in Seq(Dependency)
        BY <3>2 DEF Frame
      <4>3. \A l \in DOMAIN Tail(Top.todo) :
              l + 1 \in DOMAIN Top.todo /\ Tail(Top.todo)[l] = Top.todo[l + 1]
        BY <3>1, <4>2
      <4> HIDE DEF frame
      <4> QED BY <3>3, <4>1, <4>3 DEF FrameFits
    <3>5. stack' = [stack EXCEPT ![n] = frame]
      BY <2>1, <3>2 DEF Advance
    <3> HIDE DEF frame, n
    <3>6. /\ DOMAIN stack' = 1..n /\ stack'[n] = frame
          /\ \A i \in 1..n : i # n => stack'[i] = stack[i]
      BY <3>2, <3>5
    <3>7. \A i \in 1..n : FrameFits(stack'[i]) /\ stack'[i].isrc = stack[i].isrc
      BY <3>1, <3>2, <3>3, <3>4, <3>6 DEF StackFits
    <3>8. stack'[1].isrc = Root
      <4>1. 1 \in 1..n
        BY <3>2
      <4> QED BY <3>1, <3>7, <4>1 DEF StackFits
    <3>9. \A i, j \in 1..n : i < j => stack'[j].isrc \in Leads(stack'[i].isrc)
      BY <3>1, <3>2, <3>7 DEF StackFits
    <3>10. StackFits(stack')
      BY <3>6, <3>7, <3>8, <3>9 DEF StackFits
    <3>11. StackFits(stack)'
      BY <2>1, <3>10, SameRequest, SameFits DEF StackFits
    <3>12. CallFits'
      BY <2>1 DEF CallFits
    <3>13. \A lm \in Shelf(work)' : Stored(work, lm)'
      BY <2>1, <2>3, SameFits DEF QuietInv, Shelf
    <3> QED BY <2>1, <2>3, <3>11, <3>12, <3>13, SameRequest DEF QuietInv
  <2> QED BY <2>2, <2>3
<1> QED BY <1>1, <1>2

-----------------------------------------------------------------------------
(***************************************************************************)
(* The end of doLoadModule.                                                *)
(***************************************************************************)

\* The elements of longer lists.
LEMMA ConcatElements ==
  ASSUME NEW S, NEW s \in Seq(S), NEW t \in Seq(S), NEW c \in Seq(S),
         Len(c) = Len(s) + Len(t),
         \A i \in 1..(Len(s) + Len(t)) : c[i] = IF i <= Len(s) THEN s[i] ELSE t[i - Len(s)]
  PROVE  Elements(c) = Elements(s) \cup Elements(t)
<1> DEFINE n == Len(s)  k == Len(t)
<1>1. /\ n \in Nat /\ k \in Nat /\ DOMAIN s = 1..n /\ DOMAIN t = 1..k
  OBVIOUS
<1>2. /\ Len(c) = n + k
      /\ \A i \in 1..(n + k) : c[i] = IF i <= n THEN s[i] ELSE t[i - n]
  OBVIOUS
<1>3. DOMAIN c = 1..(n + k)
  BY <1>2
<1> HIDE DEF n, k
<1>4. \A i \in 1..n : i \in DOMAIN c /\ c[i] = s[i]
  <2> SUFFICES ASSUME NEW i \in 1..n PROVE i \in DOMAIN c /\ c[i] = s[i]
    OBVIOUS
  <2>1. i \in 1..(n + k) /\ i <= n
    BY <1>1
  <2> QED BY <1>2, <1>3, <2>1
<1>5. \A i \in 1..k : n + i \in DOMAIN c /\ c[n + i] = t[i]
  <2> SUFFICES ASSUME NEW i \in 1..k PROVE n + i \in DOMAIN c /\ c[n + i] = t[i]
    OBVIOUS
  <2>1. n + i \in 1..(n + k) /\ ~(n + i <= n) /\ (n + i) - n = i
    BY <1>1
  <2> QED BY <1>2, <1>3, <2>1
<1>6. \A i \in DOMAIN c : \/ i \in 1..n /\ c[i] = s[i]
                          \/ i - n \in 1..k /\ c[i] = t[i - n]
  <2> SUFFICES ASSUME NEW i \in 1..(n + k)
               PROVE  \/ i \in 1..n /\ c[i] = s[i]
                      \/ i - n \in 1..k /\ c[i] = t[i - n]
    BY <1>3
  <2>1. (i \in 1..n /\ i <= n) \/ (i - n \in 1..k /\ ~(i <= n))
    BY <1>1
  <2> QED BY <1>2, <2>1
<1>7. {c[i] : i \in DOMAIN c} = {s[i] : i \in 1..n} \cup {t[i] : i \in 1..k}
  <2> DEFINE C == {c[i] : i \in DOMAIN c}  A == {s[i] : i \in 1..n}  B == {t[i] : i \in 1..k}
  <2>1. C \subseteq A \cup B
    BY <1>6
  <2>2. A \subseteq C
    BY <1>4
  <2>3. B \subseteq C
    BY <1>5
  <2> QED BY <2>1, <2>2, <2>3
<1> QED BY <1>1, <1>7 DEF Elements

LEMMA AppendElements ==
  ASSUME NEW S, NEW s \in Seq(S), NEW x \in S
  PROVE  Elements(Append(s, x)) = Elements(s) \cup {x}
<1> DEFINE c == Append(s, x)  n == Len(s)
<1>1. /\ n \in Nat /\ DOMAIN s = 1..n /\ DOMAIN c = 1..(n + 1) /\ c[n + 1] = x
      /\ \A i \in 1..n : c[i] = s[i]
  OBVIOUS
<1> HIDE DEF c, n
<1>2. \A i \in DOMAIN c : i \in 1..n \/ i = n + 1
  BY <1>1
<1>3. \A i \in 1..n : i \in DOMAIN c
  BY <1>1
<1>4. n + 1 \in DOMAIN c
  BY <1>1
<1>5. {c[i] : i \in DOMAIN c} = {s[i] : i \in 1..n} \cup {x}
  <2> DEFINE C == {c[i] : i \in DOMAIN c}  A == {s[i] : i \in 1..n}
  <2>1. C \subseteq A \cup {x}
    BY <1>1, <1>2
  <2>2. A \subseteq C
    BY <1>1, <1>3
  <2>3. x \in C
    BY <1>1, <1>4
  <2> QED BY <2>1, <2>2, <2>3
<1> QED BY <1>1, <1>5 DEF c, Elements

\* Recording a module puts it on the shelf, and nothing else.
LEMMA RecordShelf ==
  ASSUME NEW e, EnvOK(e), NEW lm \in LoadedModule, ~isLoaded(e, lm.lmName)
  PROVE  LET f == addLoadedModule(modifyEvalEnv(e, lm.lmName, lm.text), lm)
         IN  Shelf(f) = Shelf(e) \cup {lm} /\ f.meSearchPath = e.meSearchPath
<1> DEFINE g == modifyEvalEnv(e, lm.lmName, lm.text)
           f == addLoadedModule(g, lm)
           plain == e.lmLoadedModules
           params == e.lmLoadedParamModules
<1>1. /\ e \in ModuleEnv /\ plain \in Seq(LoadedModule) /\ params \in Seq(LoadedModule)
      /\ <<lm>> \in Seq(LoadedModule)
  BY DEF EnvOK, ModuleEnv
<1>2. CASE IsParametrized(lm.lmName, lm.text)
  <2>1. g = e
    BY <1>2 DEF modifyEvalEnv
  <2>2. f = [e EXCEPT !.lmLoadedParamModules = <<lm>> \o @]
    BY <1>2, <2>1 DEF addLoadedModule
  <2> HIDE DEF f, g
  <2>3. /\ f.lmLoadedModules = plain /\ f.lmLoadedParamModules = <<lm>> \o params
        /\ f.meSearchPath = e.meSearchPath
    BY <1>1, <2>2 DEF ModuleEnv
  <2> DEFINE one == <<lm>>  list == f.lmLoadedParamModules
  <2>4. Elements(one) = {lm}
    <3>1. DOMAIN one = {1} /\ one[1] = lm
      OBVIOUS
    <3> QED BY <3>1 DEF Elements
  <2>5. one \in Seq(LoadedModule) /\ params \in Seq(LoadedModule) /\ list = one \o params
    BY <1>1, <2>3
  <2> HIDE DEF one, list, plain, params
  <2>6. Elements(list) = Elements(one) \cup Elements(params)
    <3>1. /\ list \in Seq(LoadedModule) /\ Len(list) = Len(one) + Len(params)
          /\ \A i \in 1..(Len(one) + Len(params)) :
               list[i] = IF i <= Len(one) THEN one[i] ELSE params[i - Len(one)]
      BY <2>5, ConcatProperties
    <3>2. one \in Seq(LoadedModule) /\ params \in Seq(LoadedModule)
      BY <2>5
    <3> QED BY <3>1, <3>2, ConcatElements, Zenon
  <2>7. Shelf(f) = Elements(plain) \cup Elements(list)
    BY <2>3 DEF Shelf, list
  <2>8. Shelf(f) = Elements(plain) \cup ({lm} \cup Elements(params))
    BY <2>4, <2>6, <2>7
  <2>9. Shelf(e) = Elements(plain) \cup Elements(params)
    BY DEF Shelf, plain, params
  <2>10. Shelf(f) = Shelf(e) \cup {lm}
    BY <2>8, <2>9
  <2> QED BY <2>3, <2>10 DEF f, g
<1>3. CASE ~IsParametrized(lm.lmName, lm.text)
  <2>1. g = [e EXCEPT !.meEvalEnv = @ \cup {lm.lmName}]
    BY <1>3 DEF modifyEvalEnv
  <2>2. ~isLoaded(g, lm.lmName)
    BY <1>1, <2>1 DEF isLoaded, ModuleEnv
  <2>3. f = [g EXCEPT !.lmLoadedModules = Append(@, lm)]
    BY <1>3, <2>2 DEF addLoadedModule
  <2>4. lm.lmName \in ModName
    BY DEF LoadedModule
  <2> HIDE DEF f, g
  <2>5. /\ g \in ModuleEnv /\ g.lmLoadedModules = plain /\ g.lmLoadedParamModules = params
        /\ g.meSearchPath = e.meSearchPath
    BY <1>1, <2>1, <2>4 DEF ModuleEnv
  <2>6. /\ f.lmLoadedModules = Append(plain, lm) /\ f.lmLoadedParamModules = params
        /\ f.meSearchPath = e.meSearchPath
    BY <2>3, <2>5 DEF ModuleEnv
  <2> HIDE DEF plain, params
  <2>7. Elements(Append(plain, lm)) = Elements(plain) \cup {lm}
    BY <1>1, AppendElements
  <2>8. Shelf(f) = (Elements(plain) \cup {lm}) \cup Elements(params)
    BY <2>6, <2>7 DEF Shelf
  <2>9. Shelf(e) = Elements(plain) \cup Elements(params)
    BY DEF Shelf, plain, params
  <2>10. Shelf(f) = Shelf(e) \cup {lm}
    BY <2>8, <2>9
  <2> QED BY <2>6, <2>10 DEF f, g
<1> QED BY <1>2, <1>3

LEMMA LoadedOnShelf ==
  ASSUME NEW e, NEW m
  PROVE  isLoaded(e, m) <=> \E lm \in Shelf(e) : lm.lmName = m
BY DEF isLoaded, Names, Shelf, Elements

\* A module that is not rejected is good, all that it leads to is loaded, and
\* it leads to nothing that leads to it.
LEMMA NewGood ==
  ASSUME IInv, QuietInv, Quiet, stack # <<>>, Top.todo = <<>>, ~Rejected(Top.isrc, Top.text)
  PROVE  /\ Fits(Top.isrc, Top.path, Top.text)
         /\ Good(Top.isrc) /\ Top.isrc \notin Leads(Top.isrc)
         /\ \A n \in Needs(Top.isrc) : isLoaded(work, n)
<1> DEFINE m == Top.isrc  deps == Dependencies(Top.text)
           L == {n \in ModName : isLoaded(work, n)}
<1>0. Asked /\ EnvOK(work) /\ \A lm \in Shelf(work) : Stored(work, lm)
  BY AskedQuietly DEF IInv, QuietInv
<1>1. Top \in Frame /\ Fits(m, Top.path, Top.text) /\ m \in ModName
  BY TopFits DEF FrameFits
<1>2. FrameOK(work, Top) /\ ~isLoaded(work, m)
  BY TopFits DEF IInv, StackOK
<1>3. /\ Readable(m) /\ Top.text = TextOf(m) /\ Top.text \in Text
  BY <1>1 DEF Fits, Frame
<1>4. \A k \in DOMAIN deps : Settled(work, deps[k])
  BY <1>2 DEF FrameOK
<1>5. \A n \in Needs(m) : isLoaded(work, n)
  <2> SUFFICES ASSUME NEW n \in Needs(m) PROVE isLoaded(work, n)
    OBVIOUS
  <2>1. PICK k \in DOMAIN deps : deps[k].name = n
    BY <1>0, <1>1, <1>3, ModuleFacts
  <2> QED BY <1>4, <2>1 DEF Settled
<1>6. m \notin Leads(m)
  <2>1. Needs(m) \subseteq L
    BY <1>0, <1>1, <1>5, ModuleFacts
  <2>2. \A n \in L : Needs(n) \subseteq L
    <3> SUFFICES ASSUME NEW n \in L, NEW o \in Needs(n) PROVE o \in L
      OBVIOUS
    <3>1. PICK lm \in Shelf(work) : lm.lmName = n
      BY LoadedOnShelf
    <3>2. isLoaded(work, o)
      BY <1>0, <3>1 DEF Stored
    <3>3. o \in ModName
      BY <1>0, ModuleFacts
    <3> QED BY <3>2, <3>3
  <2>3. L \in SUBSET ModName /\ m \notin L
    BY <1>2
  <2> HIDE DEF L
  <2>4. Leads(m) \subseteq L
    BY <1>0, <1>1, <2>1, <2>2, <2>3, LeadsFacts
  <2> QED BY <2>3, <2>4
<1>7. ASSUME NEW k \in DOMAIN deps, deps[k].how = "import"
      PROVE  ~IsParametrized(deps[k].name, TextOf(deps[k].name))
  <2>1. deps[k].name \in Names(work.lmLoadedModules)
    BY <1>4, <1>7 DEF Settled
  <2>2. PICK i \in DOMAIN work.lmLoadedModules : work.lmLoadedModules[i].lmName = deps[k].name
    BY <2>1 DEF Names
  <2> DEFINE lm == work.lmLoadedModules[i]
  <2>3. Stored(work, lm) /\ ~IsParametrized(lm.lmName, lm.text)
    BY <1>0 DEF Shelf, Elements, EnvOK, Apart
  <2> QED BY <2>2, <2>3 DEF Stored, Fits
<1>8. /\ Top.text.name = m.base
      /\ Top.text.fault = "none" \/ (Top.text.fault = "addParams" /\ ~m.paramInst)
      /\ m.paramInst => Top.text.params
  <2>1. Top.text.fault # "parse"
    BY <1>0, <1>1, <1>3, ModuleFacts
  <2> QED BY <1>3, <2>1 DEF Rejected, Text, Fault
<1> HIDE DEF m, deps
<1>9. Good(m)
  <2>1. deps = Dependencies(TextOf(m))
    BY <1>3 DEF deps
  <2> QED BY <1>0, <1>1, <1>3, <1>7, <1>8, <2>1, ModuleFacts
<1> QED BY <1>1, <1>5, <1>6, <1>9 DEF m

\* What is recorded, when doLoadModule comes to it.
NewModule == [lmName |-> Top.isrc, lmFilePath |-> Top.path, text |-> Top.text,
              mImports |-> ImportsOf(work, Top.text)]
Filled == addLoadedModule(modifyEvalEnv(work, Top.isrc, Top.text), NewModule)

LEMMA FilledFacts ==
  ASSUME IInv, call = NoModule, stack # <<>>, Top.todo = <<>>
  PROVE  /\ EnvOK(Filled) /\ Shelf(Filled) = Shelf(work) \cup {NewModule}
         /\ Filled.meSearchPath = work.meSearchPath
         /\ \A m : isLoaded(Filled, m) <=> isLoaded(work, m) \/ m = Top.isrc
<1>1. /\ stack \in Seq(Frame) /\ EnvOK(work) /\ StackOK(work, stack)
  BY DEF IInv, TypeOK
<1>2. Top \in Frame /\ FrameOK(work, Top) /\ ~isLoaded(work, Top.isrc)
  BY <1>1, TopType DEF StackOK
<1> DEFINE imports == ImportsOf(work, Top.text)  lm == NewModule
<1>3. imports \subseteq Names(work.lmLoadedModules)
  <2>1. /\ \A i \in DOMAIN AddPrelude(Top.text) :
             AddPrelude(Top.text)[i] \in Names(work.lmLoadedModules)
        /\ Top.text.functor # NoModule => isLoaded(work, Top.text.functor)
    BY <1>2, AllSettled
  <2>2. Top.text.functor # NoModule =>
          lookupModule(work, Top.text.functor).mImports \subseteq Names(work.lmLoadedModules)
    BY <1>1, <2>1, ImportsLoaded
  <2> QED BY <2>1, <2>2 DEF ImportsOf
<1>4. imports \in SUBSET ModName
  <2>1. work.lmLoadedModules \in Seq(LoadedModule)
    BY <1>1 DEF EnvOK, ModuleEnv
  <2>2. \A i \in DOMAIN work.lmLoadedModules : work.lmLoadedModules[i] \in LoadedModule
    BY <2>1
  <2>3. Names(work.lmLoadedModules) \subseteq ModName
    BY <2>2 DEF Names, LoadedModule
  <2> QED BY <1>3, <2>3
<1> HIDE DEF imports
<1>5. /\ lm \in LoadedModule /\ lm.lmName = Top.isrc /\ lm.text = Top.text
      /\ lm.mImports = imports
  BY <1>2, <1>4 DEF LoadedModule, Frame, NewModule, imports
<1>6. Filled = addLoadedModule(modifyEvalEnv(work, lm.lmName, lm.text), lm)
  BY <1>5 DEF Filled
<1> HIDE DEF lm
<1>7. /\ EnvOK(Filled)
      /\ \A m : isLoaded(Filled, m) <=> isLoaded(work, m) \/ m = Top.isrc
  BY <1>1, <1>2, <1>3, <1>5, <1>6, RecordOK
<1>8. Shelf(Filled) = Shelf(work) \cup {lm} /\ Filled.meSearchPath = work.meSearchPath
  BY <1>1, <1>2, <1>5, <1>6, RecordShelf
<1> QED BY <1>7, <1>8 DEF lm

\* The frames below the top one.
Rest == SubSeq(stack, 1, Len(stack) - 1)

LEMMA RestFacts ==
  ASSUME stack \in Seq(Frame), stack # <<>>
  PROVE  /\ Rest \in Seq(Frame) /\ DOMAIN Rest = 1..(Len(stack) - 1)
         /\ \A i \in 1..(Len(stack) - 1) : Rest[i] = stack[i] /\ i \in DOMAIN stack
<1> DEFINE n == Len(stack)
<1>1. /\ n \in Nat \ {0} /\ DOMAIN stack = 1..n
  BY TopType
<1>2. \A i \in 1..(n - 1) : i \in 1..n /\ stack[i] \in Frame
  BY <1>1
<1>3. /\ Rest \in Seq(Frame) /\ Len(Rest) = (IF 1 <= n - 1 THEN (n - 1) - 1 + 1 ELSE 0)
      /\ \A i \in 1..((n - 1) - 1 + 1) : Rest[i] = stack[1 + i - 1]
  BY <1>1, <1>2, SubSeqProperties DEF Rest
<1>4. Len(Rest) = n - 1 /\ (n - 1) - 1 + 1 = n - 1
  <2> HIDE DEF n
  <2>1. (IF 1 <= n - 1 THEN (n - 1) - 1 + 1 ELSE 0) = n - 1 /\ (n - 1) - 1 + 1 = n - 1
    BY <1>1
  <2> QED BY <1>3, <2>1
<1>5. \A i \in 1..(n - 1) : 1 + i - 1 = i
  BY <1>1
<1>6. DOMAIN Rest = 1..Len(Rest)
  BY <1>3
<1> HIDE DEF n
<1>7. /\ Rest \in Seq(Frame) /\ DOMAIN Rest = 1..(n - 1)
      /\ \A i \in 1..(n - 1) : Rest[i] = stack[i] /\ i \in DOMAIN stack
  BY <1>1, <1>2, <1>3, <1>4, <1>5, <1>6
<1> QED BY <1>7 DEF n

LEMMA DoLoadCases ==
  ASSUME doLoadModule
  PROVE  /\ call = NoModule /\ stack # <<>> /\ Top.todo = <<>>
         /\ \/ Rejected(Top.isrc, Top.text) /\ GiveUp("failed")
            \/ /\ ~Rejected(Top.isrc, Top.text) /\ Rest # <<>>
               /\ work' = Filled /\ stack' = Rest
               /\ UNCHANGED <<disk, env, call, request, result>>
            \/ /\ ~Rejected(Top.isrc, Top.text) /\ Rest = <<>>
               /\ env' = [Filled EXCEPT !.meFocusedModule = Top.isrc,
                                        !.meSearchPath = env.meSearchPath]
               /\ work' = env' /\ stack' = <<>>
               /\ request' = NoModule /\ result' = "loaded"
               /\ UNCHANGED <<disk, call>>
BY DEF doLoadModule, Rest, Filled, NewModule

\* What is recorded fits as well as what was there.
LEMMA FilledStored ==
  ASSUME IInv, QuietInv, Quiet, call = NoModule, stack # <<>>, Top.todo = <<>>,
         ~Rejected(Top.isrc, Top.text)
  PROVE  \A lm \in Shelf(Filled) : Stored(Filled, lm)
<1>1. \A lm \in Shelf(work) : Stored(work, lm)
  BY DEF QuietInv
<1>2. \A m : isLoaded(work, m) => isLoaded(Filled, m)
  BY FilledFacts
<1>3. \A lm \in Shelf(work) : Stored(Filled, lm)
  BY <1>1, <1>2 DEF Stored
<1>4. Stored(Filled, NewModule)
  <2>1. /\ NewModule.lmName = Top.isrc /\ NewModule.lmFilePath = Top.path
        /\ NewModule.text = Top.text
    BY DEF NewModule
  <2>2. /\ Fits(Top.isrc, Top.path, Top.text)
        /\ Good(Top.isrc) /\ Top.isrc \notin Leads(Top.isrc)
        /\ \A n \in Needs(Top.isrc) : isLoaded(work, n)
    BY NewGood
  <2> QED BY <1>2, <2>1, <2>2 DEF Stored
<1>5. Shelf(Filled) = Shelf(work) \cup {NewModule}
  BY FilledFacts
<1> QED BY <1>3, <1>4, <1>5

LEMMA DoLoadQuiet ==
  ASSUME IInv, QuietInv, doLoadModule
  PROVE  QuietInv'
<1>0. call = NoModule /\ stack # <<>> /\ Top.todo = <<>> /\ stack \in Seq(Frame)
  BY DoLoadCases DEF IInv, TypeOK
<1>1. CASE request' = NoModule
  BY <1>1, EndedQuiet
<1>2. CASE request' # NoModule
  <2>1. /\ ~Rejected(Top.isrc, Top.text) /\ Rest # <<>> /\ work' = Filled /\ stack' = Rest
        /\ disk' = disk /\ call' = call /\ request' = request
    BY <1>2, DoLoadCases DEF GiveUp
  <2>2. CASE ~Quiet
    BY <2>1, <2>2, SameFits DEF QuietInv
  <2>3. CASE Quiet
    <3>1. StackFits(Rest)
      <4>1. /\ Rest \in Seq(Frame) /\ DOMAIN Rest = 1..(Len(stack) - 1)
            /\ \A i \in DOMAIN Rest : Rest[i] = stack[i] /\ i \in DOMAIN stack
        BY <1>0, RestFacts
      <4>2. StackFits(stack)
        BY <2>3 DEF QuietInv
      <4>3. Rest[1].isrc = Root
        <5>1. 1 \in DOMAIN Rest
          BY <2>1, <4>1
        <5> QED BY <1>0, <4>1, <4>2, <5>1 DEF StackFits
      <4> QED BY <4>1, <4>2, <4>3 DEF StackFits
    <3>2. StackFits(stack)'
      BY <2>1, <3>1, SameRequest, SameFits DEF StackFits
    <3>3. CallFits'
      BY <1>0, <2>1 DEF CallFits
    <3>4. \A lm \in Shelf(work)' : Stored(work, lm)'
      <4>1. \A lm \in Shelf(Filled) : Stored(Filled, lm)
        BY <1>0, <2>1, <2>3, FilledStored
      <4>2. Shelf(work)' = Shelf(Filled)
        BY <2>1 DEF Shelf
      <4>3. \A lm : Stored(Filled, lm) => Stored(work, lm)'
        BY <2>1, SameRequest, SameFits DEF Stored
      <4> QED BY <4>1, <4>2, <4>3
    <3>5. work'.meSearchPath = work.meSearchPath
      BY <1>0, <2>1, FilledFacts
    <3> QED BY <2>1, <2>3, <3>2, <3>3, <3>4, <3>5, SameRequest DEF QuietInv
  <2> QED BY <2>2, <2>3
<1> QED BY <1>1, <1>2

LEMMA StepQuietInv ==
  ASSUME IInv, QuietInv, [Next]_vars
  PROVE  QuietInv'
<1>1. CASE Edit
  BY <1>1 DEF Edit, QuietInv, Quiet
<1>2. CASE Ask
  BY <1>2, AskQuiet
<1>3. CASE Load
  BY <1>3, ParseQuiet, FindQuiet, DepsQuiet, DoLoadQuiet DEF Load
<1>4. CASE Interrupt
  BY <1>4, EndedQuiet DEF Interrupt, GiveUp
<1>5. CASE UNCHANGED vars
  <2>1. /\ disk' = disk /\ work' = work /\ stack' = stack /\ call' = call
        /\ request' = request
    BY <1>5 DEF vars
  <2>2. Shelf(work)' = Shelf(work) /\ (StackFits(stack)' <=> StackFits(stack))
    BY <2>1, SameRequest, SameFits DEF Shelf, StackFits
  <2>3. CallFits' <=> CallFits
    BY <2>1, SameRequest DEF CallFits, Top, Wanted
  <2>4. \A lm : Stored(work, lm)' <=> Stored(work, lm)
    BY <2>1, SameFits DEF Stored
  <2> QED BY <2>1, <2>2, <2>3, <2>4, SameRequest, SameFits DEF QuietInv
<1> QED BY <1>1, <1>2, <1>3, <1>4, <1>5 DEF Next

LEMMA QuietInvariance == Spec => [](IInv /\ QuietInv)
<1>1. Init => QuietInv
  BY DEF Init, QuietInv, Quiet
<1>2. IInv /\ QuietInv /\ [Next]_vars => (IInv /\ QuietInv)'
  BY StepIInv, StepQuietInv
<1> QED BY InitIInv, <1>1, <1>2, PTL DEF Spec

-----------------------------------------------------------------------------
(***************************************************************************)
(* The steps of the loader are steps of AtomicLoad, or stutter.            *)
(***************************************************************************)

\* The modules of a session, as AtomicLoad sees them.
Texts(e) == {Stripped(loadedModules(e)[i]) : i \in DOMAIN loadedModules(e)}

LEMMA TextsOfShelf ==
  ASSUME NEW e \in ModuleEnv
  PROVE  Texts(e) = {Stripped(lm) : lm \in Shelf(e)}
<1> DEFINE plain == e.lmLoadedModules  params == e.lmLoadedParamModules
           all == loadedModules(e)
<1>1. /\ params \in Seq(LoadedModule) /\ plain \in Seq(LoadedModule) /\ all = params \o plain
  BY DEF ModuleEnv, loadedModules
<1> HIDE DEF plain, params, all
<1>2. /\ all \in Seq(LoadedModule) /\ Len(all) = Len(params) + Len(plain)
      /\ \A i \in 1..(Len(params) + Len(plain)) :
           all[i] = IF i <= Len(params) THEN params[i] ELSE plain[i - Len(params)]
  BY <1>1, ConcatProperties
<1>3. params \in Seq(LoadedModule) /\ plain \in Seq(LoadedModule)
  BY <1>1
<1>4. Elements(all) = Elements(params) \cup Elements(plain)
  BY <1>2, <1>3, ConcatElements, Zenon
<1>5. Shelf(e) = Elements(all)
  BY <1>4 DEF Shelf, plain, params
<1>6. Texts(e) = {Stripped(all[i]) : i \in DOMAIN all}
  BY DEF Texts, all
<1> QED BY <1>5, <1>6 DEF Elements

\* When a quiet load ends with everything recorded, that is all it needs.
LEMMA FilledIsNeeded ==
  ASSUME IInv, QuietInv, Quiet, call = NoModule, stack # <<>>, Top.todo = <<>>,
         ~Rejected(Top.isrc, Top.text), Rest = <<>>
  PROVE  /\ Loadable /\ Top.isrc = Root
         /\ {Stripped(lm) : lm \in Shelf(Filled)} = Atomic!Modules(request)
<1> DEFINE L == {m \in ModName : isLoaded(Filled, m)}
           of(m) == [name |-> m, path |-> PathOf(m), text |-> TextOf(m)]
<1>0. Asked /\ stack \in Seq(Frame)
  BY AskedQuietly DEF IInv, TypeOK
<1>1. Top.isrc = Root
  <2>1. DOMAIN Rest = 1..(Len(stack) - 1) /\ Len(stack) \in Nat \ {0}
    BY <1>0, RestFacts, TopType
  <2>2. DOMAIN Rest = {}
    OBVIOUS
  <2>3. Len(stack) = 1
    <3> DEFINE n == Len(stack)
    <3>1. n \in Nat \ {0} /\ 1 \notin 1..(n - 1)
      BY <2>1, <2>2
    <3> HIDE DEF n
    <3>2. n = 1
      BY <3>1
    <3> QED BY <3>2 DEF n
  <2> QED BY <2>3, TopFits
<1>2. \A lm \in Shelf(Filled) : Stored(Filled, lm)
  BY FilledStored
<1>3. Root \in L
  BY <1>0, <1>1, FilledFacts, NeededFacts
<1>4. \A m \in L : Needs(m) \subseteq L
  <2> SUFFICES ASSUME NEW m \in L, NEW n \in Needs(m) PROVE n \in L
    OBVIOUS
  <2>1. PICK lm \in Shelf(Filled) : lm.lmName = m
    BY LoadedOnShelf
  <2>2. isLoaded(Filled, n)
    BY <1>2, <2>1 DEF Stored
  <2>3. n \in ModName
    BY <1>0, ModuleFacts
  <2> QED BY <2>2, <2>3
<1>5. Needed \subseteq L
  <2>1. L \in SUBSET ModName
    OBVIOUS
  <2> HIDE DEF L
  <2> QED BY <1>0, <1>3, <1>4, <2>1, NeededFacts
<1>6. \A m \in Needed : \E lm \in Shelf(Filled) : lm.lmName = m
  BY <1>5, LoadedOnShelf
<1>7. Loadable
  <2>1. \A m \in Needed : Good(m) /\ m \notin Leads(m)
    BY <1>2, <1>6 DEF Stored
  <2> QED BY <1>0, <2>1, LoadableFacts
<1>8. \A lm \in Shelf(Filled) : lm.lmName \in Needed /\ Stripped(lm) = of(lm.lmName)
  BY <1>2 DEF Stored, Fits, Stripped
<1>9. Atomic!Modules(request) = {of(m) : m \in Needed}
  BY DEF Atomic!Modules, Needed, PathOf, TextOf
<1> HIDE DEF of
<1>10. {Stripped(lm) : lm \in Shelf(Filled)} = {of(m) : m \in Needed}
  BY <1>6, <1>8
<1> QED BY <1>1, <1>7, <1>9, <1>10

\* The session, as it is handed back.
LEMMA HandedBack ==
  ASSUME IInv, NEW e, EnvOK(Filled), NEW m,
         e = [Filled EXCEPT !.meFocusedModule = m, !.meSearchPath = env.meSearchPath]
  PROVE  Shelf(e) = Shelf(Filled) /\ e.meFocusedModule = m
<1>1. Filled \in ModuleEnv
  BY DEF EnvOK
<1>2. /\ e.lmLoadedModules = Filled.lmLoadedModules /\ e.meFocusedModule = m
      /\ e.lmLoadedParamModules = Filled.lmLoadedParamModules
  BY <1>1 DEF ModuleEnv
<1> QED BY <1>2 DEF Shelf

\* A load that fails gives the answer that AtomicLoad gives.
LEMMA AnswersNo ==
  ASSUME GiveUp("failed"), request # NoModule, Quiet => ~Loadable
  PROVE  Atomic!Answer \/ Atomic!AnswerDisturbed
<1>1. /\ request' = NoModule /\ result' = "failed" /\ disk' = disk /\ env' = env
  BY DEF GiveUp
<1>2. UNCHANGED <<Texts(env), env.meFocusedModule>>
  BY <1>1 DEF Texts
<1>3. CASE request.quiet
  BY <1>1, <1>2, <1>3 DEF Atomic!Answer, Quiet, Loadable, Texts
<1>4. CASE ~request.quiet
  BY <1>1, <1>2, <1>4 DEF Atomic!AnswerDisturbed, Texts
<1> QED BY <1>3, <1>4

\* So does one that succeeds.
LEMMA AnswersYes ==
  ASSUME IInv, IInv', QuietInv, doLoadModule, result' = "loaded", request' = NoModule
  PROVE  Atomic!Answer \/ Atomic!AnswerDisturbed
<1>1. /\ call = NoModule /\ stack # <<>> /\ Top.todo = <<>>
      /\ ~Rejected(Top.isrc, Top.text) /\ Rest = <<>>
      /\ env' = [Filled EXCEPT !.meFocusedModule = Top.isrc, !.meSearchPath = env.meSearchPath]
      /\ disk' = disk /\ request # NoModule
  <2>1. request # NoModule
    BY DEF IInv, doLoadModule
  <2> QED BY <2>1, DoLoadCases DEF GiveUp
<1>2. CASE request.quiet
  <2>1. Quiet
    BY <1>1, <1>2 DEF Quiet
  <2>2. /\ Loadable /\ Top.isrc = Root
        /\ {Stripped(lm) : lm \in Shelf(Filled)} = Atomic!Modules(request)
    BY <1>1, <2>1, FilledIsNeeded
  <2>3. EnvOK(Filled)
    BY <1>1, FilledFacts
  <2>4. Shelf(env') = Shelf(Filled) /\ env'.meFocusedModule = Root
    BY <1>1, <2>2, <2>3, HandedBack
  <2>5. env' \in ModuleEnv
    BY DEF IInv, TypeOK
  <2>6. Texts(env') = {Stripped(lm) : lm \in Shelf(env')}
    BY <2>5, TextsOfShelf
  <2>7. Texts(env') = Atomic!Modules(request)
    BY <2>2, <2>4, <2>6
  <2> QED BY <1>1, <1>2, <2>2, <2>4, <2>7 DEF Atomic!Answer, Loadable, Root, Texts
<1>3. CASE ~request.quiet
  BY <1>1, <1>3 DEF Atomic!AnswerDisturbed
<1> QED BY <1>2, <1>3

\* A step that touches neither the session nor the request is none of AtomicLoad.
LEMMA Stutters ==
  ASSUME UNCHANGED <<disk, env, request, result>>
  PROVE  UNCHANGED Atomic!vars
BY DEF Atomic!vars

LEMMA AsksRefine ==
  ASSUME IInv, Ask
  PROVE  [Atomic!Next]_Atomic!vars
<1>0. env.meSearchPath = SearchPath
  BY DEF IInv
<1>1. ASSUME NEW req \in Atomic!Request, NEW copy, NEW isrc, Begin(req, copy, isrc, Atomic!RootPath(req))
      PROVE  [Atomic!Next]_Atomic!vars
  <2>1. Atomic!Ask(req) \/ Atomic!Refuse(req)
    BY <1>1 DEF Begin, Atomic!Ask, Atomic!Refuse
  <2> QED BY <2>1 DEF Atomic!Next
<1>2. ASSUME NEW m \in ModName, NEW quiet \in BOOLEAN, loadModuleByName(m, quiet)
      PROVE  [Atomic!Next]_Atomic!vars
  <2> DEFINE req == ByName(m, quiet)
  <2>1. req \in Atomic!Request /\ req.by = "name" /\ req.module = m
    BY SameTexts DEF ByName, Atomic!Request
  <2>2. Atomic!RootPath(req) = FindModule(disk, env.meSearchPath, m)
    BY <1>0, <2>1, SameTexts DEF Atomic!RootPath, Atomic!Dirs
  <2>3. Begin(req, resetModuleEnv(env), m, Atomic!RootPath(req))
    BY <1>2, <2>2 DEF loadModuleByName
  <2> HIDE DEF req
  <2> QED BY <1>1, <2>1, <2>3
<1>3. ASSUME NEW dir \in Dir, NEW file \in Name, NEW quiet \in BOOLEAN,
             loadModuleByPath(dir, file, quiet)
      PROVE  [Atomic!Next]_Atomic!vars
  <2> DEFINE req == ByPath(InFile(dir, file), quiet)
             dirs == <<dir>> \o env.meSearchPath
             copy == [resetModuleEnv(env) EXCEPT !.meSearchPath = dirs]
  <2>1. /\ req \in Atomic!Request /\ req.by # "name"
        /\ req.path[1] = dir /\ req.path[2] = file
    BY DEF ByPath, InFile, Atomic!Request
  <2>2. Atomic!Dirs(req) = dirs
    BY <1>0, <2>1 DEF Atomic!Dirs
  <2> HIDE DEF dirs
  <2>3. Atomic!RootPath(req) = FindFile(disk, dirs, file)
    BY <2>1, <2>2, SameTexts DEF Atomic!RootPath
  <2>4. Begin(req, copy, NoModule, Atomic!RootPath(req))
    BY <1>3, <2>3 DEF loadModuleByPath, dirs
  <2> HIDE DEF req, copy
  <2> QED BY <1>1, <2>1, <2>4
<1> QED BY <1>2, <1>3 DEF Ask

LEMMA LoadsRefine ==
  ASSUME IInv, IInv', QuietInv, Load
  PROVE  [Atomic!Next]_Atomic!vars
<1>0. request # NoModule
  BY DEF IInv, Load, parseModule, loadModuleFrom, loadDeps, InLoadDeps, doLoadModule
<1>1. CASE UNCHANGED <<disk, env, request, result>>
  BY <1>1, Stutters
<1>2. CASE GiveUp("failed")
  <2>1. Quiet => ~Loadable
    <3>1. CASE parseModule
      BY <1>2, <3>1, ParseFails DEF parseModule
    <3>2. CASE loadModuleFrom
      BY <1>2, <3>2, FindFails
    <3>3. CASE loadDeps
      BY <1>2, <3>3, DepsFails
    <3>4. CASE doLoadModule
      <4>1. stack # <<>> /\ Rejected(Top.isrc, Top.text)
        BY <1>0, <1>2, <3>4, DoLoadCases DEF GiveUp
      <4> QED BY <4>1, CheckFails
    <3> QED BY <3>1, <3>2, <3>3, <3>4 DEF Load
  <2> QED BY <1>0, <1>2, <2>1, AnswersNo DEF Atomic!Next
<1>3. CASE doLoadModule /\ result' = "loaded" /\ request' = NoModule
  BY <1>3, AnswersYes DEF Atomic!Next
<1>4. \/ UNCHANGED <<disk, env, request, result>>
      \/ GiveUp("failed")
      \/ doLoadModule /\ result' = "loaded" /\ request' = NoModule
  <2>1. CASE parseModule
    BY <2>1 DEF parseModule
  <2>2. CASE loadModuleFrom
    BY <2>2 DEF loadModuleFrom
  <2>3. CASE loadDeps
    BY <2>3 DEF loadDeps
  <2>4. CASE doLoadModule
    BY <2>4, DoLoadCases
  <2> QED BY <2>1, <2>2, <2>3, <2>4 DEF Load
<1> QED BY <1>1, <1>2, <1>3, <1>4

LEMMA StepRefines ==
  ASSUME IInv, IInv', QuietInv, [Next]_vars
  PROVE  [Atomic!Next]_Atomic!vars
<1>1. CASE Edit
  BY <1>1 DEF Edit, Atomic!Next, Atomic!Edit
<1>2. CASE Ask
  BY <1>2, AsksRefine
<1>3. CASE Load
  BY <1>3, LoadsRefine
<1>4. CASE Interrupt
  BY <1>4 DEF Interrupt, GiveUp, Atomic!Next, Atomic!Interrupt
<1>5. CASE UNCHANGED vars
  BY <1>5, Stutters DEF vars
<1> QED BY <1>1, <1>2, <1>3, <1>4, <1>5 DEF Next

LEMMA InitRefines == Init => Atomic!Init
<1> SUFFICES ASSUME Init PROVE Atomic!Init
  OBVIOUS
<1>1. env \in ModuleEnv /\ Shelf(env) = {}
  <2>1. IInv
    BY InitIInv
  <2>2. env.lmLoadedModules = <<>> /\ env.lmLoadedParamModules = <<>>
    BY DEF Init, initialModuleEnv
  <2> QED BY <2>1, <2>2 DEF IInv, TypeOK, Shelf, Elements
<1>2. Texts(env) = {}
  BY <1>1, TextsOfShelf
<1>3. env.meFocusedModule = NoModule
  BY DEF Init, initialModuleEnv
<1> QED BY <1>2, <1>3 DEF Init, Atomic!Init, Texts

(***************************************************************************)
(* For any texts, any search path and any file system, the loader answers  *)
(* every request as AtomicLoad does.  In particular, when the files stay   *)
(* as they are while it runs, a load by path or by name succeeds exactly   *)
(* when every module that the requested one leads to is good and none of   *)
(* them leads to itself; the session then holds these modules and no       *)
(* others, each with the text of the file that the request means by it,    *)
(* and is about the requested one.  A load that fails or is interrupted    *)
(* leaves the session as it was, whatever happens to the files.            *)
(***************************************************************************)
THEOREM LoadsAreAtomic == Spec => ImplementsAtomicLoad
<1>1. IInv /\ QuietInv /\ (IInv /\ QuietInv)' /\ [Next]_vars => [Atomic!Next]_Atomic!vars
  BY StepRefines
<1> QED BY InitRefines, QuietInvariance, <1>1, PTL DEF Spec, ImplementsAtomicLoad, Atomic!Spec
=============================================================================
