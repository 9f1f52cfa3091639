----------------------------- MODULE ModuleText -----------------------------
(***************************************************************************)
(* What a load of Cryptol modules reads: module names, source texts, the   *)
(* file system with its search path, and the modules that a text depends   *)
(* on (Cryptol.ModuleSystem.Base, Cryptol.Utils.Ident).                    *)
(*                                                                         *)
(* A text is what the parser and the later passes make of it: the module   *)
(* name it declares, its top-level imports, the functor it instantiates,   *)
(* whether it has parameters, and the pass, if any, that rejects it.       *)
(***************************************************************************)
EXTENDS Integers, Sequences, FiniteSets

CONSTANTS
  Name,       \* identifiers that modules, and the files that hold them, bear
  Cryptol,    \* the name of the prelude
  Dir,        \* directories
  Memory,     \* where the texts built into the program are
  BuiltIn,    \* the built-in text of some of the names
  SearchPath, \* the directories that are searched, in order
  NoModule,   \* stands for no module name
  NoFile      \* stands for no text, and for no path

(***************************************************************************)
(* A module name. `A, with a backtick (paramInst = TRUE), is the       *)
(* module that addModParams makes from the parameterized module A: the     *)
(* parameters become parameters of each of its definitions.                *)
(***************************************************************************)
ModName == [base: Name, paramInst: BOOLEAN]

Plain(n) == [base |-> n, paramInst |-> FALSE]
ParamInst(n) == [base |-> n, paramInst |-> TRUE]
preludeName == Plain(Cryptol)

(***************************************************************************)
(* The pass that rejects a text: the parser, one of the passes from        *)
(* removing includes to type checking, or addModParams, which rejects      *)
(* parameters with a polymorphic type.                                     *)
(***************************************************************************)
Fault == {"none", "parse", "check", "addParams"}

Text == [name: Name, imports: Seq(ModName), functor: ModName \cup {NoModule},
         params: BOOLEAN, fault: Fault]

InFile(dir, file) == <<dir, file>>
InMem(n) == <<Memory, n>>
Path == (Dir \X Name) \cup ({Memory} \X DOMAIN BuiltIn)

\* A disk gives the text of each file, or NoFile.
Disk == [Dir \X Name -> Text \cup {NoFile}]

\* The bytes that parseModule reads from a path.
Contents(disk, path) == IF path[1] = Memory THEN BuiltIn[path[2]] ELSE disk[path]

ASSUME TextAssumption ==
  /\ Cryptol \in DOMAIN BuiltIn
  /\ DOMAIN BuiltIn \subseteq Name
  /\ \A n \in DOMAIN BuiltIn : BuiltIn[n] \in Text
  /\ SearchPath \in Seq(Dir)
  /\ Memory \notin Dir
  /\ NoModule \notin ModName
  /\ NoFile \notin Text \cup Path

-----------------------------------------------------------------------------
\* The directories of a search path that have a file of that name.
Hits(disk, dirs, file) == {i \in DOMAIN dirs : disk[InFile(dirs[i], file)] # NoFile}

\* findFile: the first of the directories that has the file.
FindFile(disk, dirs, file) ==
  LET hits == Hits(disk, dirs, file)
  IN  IF hits = {} THEN NoFile
      ELSE InFile(dirs[CHOOSE i \in hits : \A j \in hits : i <= j], file)

(***************************************************************************)
(* findModule: the first directory of the search path that has a file for  *)
(* the name, and the built-in text of that name when none has. `A is       *)
(* searched as A (moduleFile takes the name apart with modNameChunks,      *)
(* which drops the backtick), but only the plain name of a built-in module *)
(* is recognised.                                                          *)
(***************************************************************************)
FindModule(disk, dirs, m) ==
  LET file == FindFile(disk, dirs, m.base)
  IN  IF file = NoFile /\ ~m.paramInst /\ m.base \in DOMAIN BuiltIn
      THEN InMem(m.base) ELSE file

ImportOf(m) == [name |-> m, how |-> "import"]
InstanceOf(m) == [name |-> m, how |-> "instance"]
Dependency == [name: ModName, how: {"import", "instance"}]

\* A mistaken addPrelude, which leaves functors to the modules that use them.
AddPrelude_NotForFunctors(text) ==
  IF text.name = Cryptol \/ text.params THEN text.imports
  ELSE <<preludeName>> \o text.imports

\* addPrelude: the prelude comes first unless it is mentioned, or is this text.
AddPrelude(text) ==
  IF text.name = Cryptol \/ preludeName \in {text.imports[i] : i \in DOMAIN text.imports}
  THEN text.imports
  ELSE <<preludeName>> \o text.imports

\* The modules that loadDeps loads for a text, in its order.
Dependencies(text) ==
  LET imports == AddPrelude(text)
      loadI == [i \in DOMAIN imports |-> ImportOf(imports[i])]
  IN  IF text.functor = NoModule THEN loadI
      ELSE Append(loadI, InstanceOf(text.functor))

\* What optionalInstantiate does not turn into ordinary definitions.
IsParametrized(m, text) == text.params /\ ~m.paramInst
=============================================================================
