---------------------------- MODULE MCHardThunks ----------------------------
(***************************************************************************)
(* Tables of computations that go wrong, for the model checker, and that   *)
(* the tables of all runs are lexically scoped.                            *)
(***************************************************************************)
EXTENDS MCThunks

(***************************************************************************)
(* Thunks that may depend on themselves and on each other, with and        *)
(* without a backup, forced by one thread.                                 *)
(***************************************************************************)
CyclicMains(ends) ==
  {(a :> DoOps(x, "value")) @@ (b :> DoOps(y, e)) @@ (c :> Skip) :
     x \in ForcesOf({a, b}), y \in ForcesOf({a, b}), e \in ends}

Backups == {DoOps(s, "value") : s \in {<<>>} \cup {ForceAll(<<t>>) : t \in {a, b}}}
           \cup {DoOps(<<>>, "user")}

ForceCommands ==
  (c1 :> DoOps(ForceAll(<<a, b>>), "value")) @@ (c2 :> DoOps(ForceAll(<<b, a>>), "value"))

LoopCode ==
  {Table(ForceCommands, m, NoBackup, {}, {a, b}) :
     m \in CyclicMains({"value", "user"})}
  \cup {Table(ForceCommands, m, [NoBackup EXCEPT ![a] = x], {a}, {a, b}) :
     m \in CyclicMains({"value"}), x \in Backups}
  \cup {Table(ForceCommands, m, [NoBackup EXCEPT ![a] = x], {a, b}, {a, b}) :
     m \in CyclicMains({"value"}), x \in Backups}

(***************************************************************************)
(* Computations that are cut short: by an exception that is not an         *)
(* EvalErrorEx (one of them the panic on a hole forced before it is        *)
(* filled), or by CTRL^C.                                                  *)
(***************************************************************************)
HoleForcedCommands ==
  (c1 :> DoOps(<<Op("hole", b), Op("force", b)>>, "value")) @@ (c2 :> Skip)

CutShortCode ==
  {Table(SparkCommands, m, NoBackup, {}, {a, b, c}) :
     m \in {n \in AcyclicMains({"value", "foreign"}) :
              n[a].ops \in {ForceAll(<<b, c>>), ForceAll(<<c, b>>)}
              /\ n[b].ops \in {<<>>, ForceAll(<<c>>)}}}
  \cup {Table(HoleForcedCommands, (a :> Skip) @@ (b :> Skip) @@ (c :> Skip),
              NoBackup, {}, {})}

\* The same without sparks.
RetryCode ==
  {Table(ForceCommands, m, [NoBackup EXCEPT ![a] = x], {a}, {a, b, c}) :
     m \in AcyclicMains({"value", "foreign"}) \cup CyclicMains({"value"}),
     x \in {Skip, DoOps(ForceAll(<<b>>), "value")}}

\* Loops that run through one thread or through several: each of two sparks, or
\* a spark and Main, works on a thunk that the other needs.
SparkLoopCommands ==
  (c1 :> DoOps(<<Op("spark", a), Op("spark", b)>> \o ForceAll(<<a>>), "value"))
    @@ (c2 :> DoOps(ForceAll(<<b>>), "value"))

SparkLoopCode ==
  {Table(SparkLoopCommands, m, [NoBackup EXCEPT ![a] = Skip], has, {a, b}) :
     m \in {n \in CyclicMains({"value"}) : Len(n[a].ops) < 2 /\ Len(n[b].ops) < 2},
     has \in {{}, {a}}}

\* Everything that is not undisturbed evaluation of sound definitions.
HardCode == LoopCode \cup SparkLoopCode \cup CutShortCode \cup RetryCode

\* parmap over two elements of which one needs a word too wide for memory.
SparkDiesCode ==
  {Table(ParMapCommands,
         (a :> DoOps(<<>>, "foreign")) @@ (b :> Skip) @@ (c :> Skip),
         NoBackup, {}, {c})}

\* The computations of all these tables are lexically scoped, which is what
\* keeps a hole from being forced before it is filled, except for the one that
\* does that.  (No value holds a thunk.)
ASSUME \A table \in AcyclicCode \cup HardCode \cup SparkDiesCode :
         table.command # HoleForcedCommands <=>
           \E scope \in [Thunk -> SUBSET Thunk] :
             Scoped(table, [scope |-> scope, gives |-> [t \in Thunk |-> {}]])

=============================================================================
