--------------------------- MODULE CryptolSession ---------------------------
(***************************************************************************)
(* What one state of the server holds for a client and what a command does *)
(* to it: the module in focus, the directories where modules are searched, *)
(* and the values that were given a name because they cannot be sent.      *)
(***************************************************************************)
EXTENDS Integers, Sequences, FiniteSetsExt

CONSTANTS
  Modules,   \* names of modules
  Dirs,      \* directories
  FilesOf,   \* the modules that have a file in a directory
  StartPath, \* the search path of a server that starts
  Values,    \* values that cannot be sent
  Kind,      \* the word for the type of such a value
  Tried      \* the commands that scripts give

NoModule == <<>>

\* The state behind the id null.
Fresh == [module |-> NoModule, path |-> StartPath, names |-> [n \in {} |-> {}]]

\* Commands.  values are the parts of the result of an expression that
\* cannot be sent; name is an identifier that an expression mentions.
Commands ==
    [op : {"loadModule"}, module : Modules]
    \cup {[op |-> "loadFile", file |-> f] : f \in {g \in Modules \X Dirs : g[1] \in FilesOf[g[2]]}}
    \cup [op : {"extSearchPath"}, dir : Dirs]
    \cup [op : {"evalExpression"},
          values : {<<>>} \cup {<<v>> : v \in Values} \cup {<<v, w>> : v, w \in Values}]
    \cup [op : {"use"}, name : {Kind[v] : v \in Values} \X (0 .. 1)]
    \cup [op : {"focusedModule"}]

ASSUME OnlyCommands == Tried \subseteq Commands

\* The first file for a module on the path, as at most one element.
FindModule(path, m) ==
    LET found == SelectSeq(path, LAMBDA d : m \in FilesOf[d])
    IN  IF found = <<>> THEN {} ELSE {<<m, Head(found)>>}

\* The environment is emptied before a module is loaded, but for the path.
LoadFile(s, file) == [Fresh EXCEPT !.module = file, !.path = s.path]

extendSearchPath(s, dir) ==
    [s EXCEPT !.path = <<dir>> \o SelectSeq(s.path, LAMBDA d : d # dir)]

\* The number in a fresh name is the number of names so far, or the next
\* one that is free.
FreshName_Zero(names, v) == <<Kind[v], 0>>
FreshName(names, v) ==
    LET size == Cardinality(DOMAIN names)
        free == {n \in size .. 2 * size : <<Kind[v], n>> \notin DOMAIN names}
    IN  <<Kind[v], Min(free)>>

bindValToFreshName(names, v) ==
    LET name == FreshName(names, v)
    IN  [n \in DOMAIN names \cup {name} |-> IF n = name THEN v ELSE names[n]]

\* The names after k of the values are bound, in order.
NamesAfter(names, values) ==
    LET after[k \in 0 .. Len(values)] ==
          IF k = 0 THEN names ELSE bindValToFreshName(after[k - 1], values[k])
    IN  after

\* The names so far, and the new ones in order.
BindAll(s, values) ==
    LET after == NamesAfter(s.names, values)
    IN  [names |-> after[Len(values)],
         new |-> [k \in 1 .. Len(values) |-> FreshName(after[k - 1], values[k])]]

Same(s, answer) == [state |-> s, answer |-> answer]
Done(s) == Same(s, <<>>)

\* The outcome of a command when it succeeds, if it can; it may always fail
\* (a module with an error in it, an expression that has no value).
Results(s, c) ==
    CASE c.op = "loadModule" -> {Done(LoadFile(s, f)) : f \in FindModule(s.path, c.module)}
      [] c.op = "loadFile" -> {Done(LoadFile(s, c.file))}
      [] c.op = "extSearchPath" -> {Done(extendSearchPath(s, c.dir))}
      [] c.op = "evalExpression" ->
           LET b == BindAll(s, c.values)
           IN  {[state |-> [s EXCEPT !.names = b.names], answer |-> b.new]}
      [] c.op = "use" -> {Same(s, <<s.names[n]>>) : n \in {c.name} \cap DOMAIN s.names}
      [] c.op = "focusedModule" -> {Same(s, IF s.module = NoModule THEN <<>> ELSE <<Head(s.module)>>)}

\* The opaque values that a client can name after a command has succeeded.
KnownAfter(known, c, answer) ==
    CASE c.op \in {"loadModule", "loadFile"} -> {}
      [] c.op = "evalExpression" ->
           known \cup {[name |-> answer[k], value |-> c.values[k]] : k \in DOMAIN answer}
      [] OTHER -> known
=============================================================================
