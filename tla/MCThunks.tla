------------------------------ MODULE MCThunks ------------------------------
(***************************************************************************)
(* Tables of computations for the model checker.                           *)
(***************************************************************************)
EXTENDS Thunks, TLC

CONSTANTS a, b, c, c1, c2, m0, s1, s2

Op(o, t) == [op |-> o, on |-> t]
DoOps(s, e) == [ops |-> s, end |-> e]
Skip == DoOps(<<>>, "value")

DeclGroup_LastUnfilled(s) ==
  [i \in 1..(2 * Len(s) - 1) |->
     IF i <= Len(s) THEN Op("hole", s[i]) ELSE Op("fill", s[i - Len(s)])]

\* evalDeclGroup on a recursive group: allocate the holes, then fill each.
DeclGroup(s) ==
  [i \in 1..(2 * Len(s)) |->
     IF i <= Len(s) THEN Op("hole", s[i]) ELSE Op("fill", s[i - Len(s)])]

\* sparkParMap: a spark for each element.
ParMap(s) == [i \in 1..Len(s) |-> Op("sparkNew", s[i])]

\* The elements of a result, forced one after the other.
ForceAll(s) == [i \in 1..Len(s) |-> Op("force", s[i])]

\* What a computation that forces only thunks of S can do, in up to two steps.
ForcesOf(S) == {ForceAll(s) : s \in {<<>>} \cup {<<x>> : x \in S}
                                   \cup {<<x, y>> : x \in S, y \in S}}

Table(cmd, main, backup, has, existing) ==
  [command |-> cmd, main |-> main, backup |-> backup,
   hasBackup |-> has, existing |-> existing]

NoBackup == [t \in Thunk |-> Skip]

(***************************************************************************)
(* Thunks that do not depend on themselves: a may force b and c, b may     *)
(* force c, and each ends with a value or an error.                        *)
(***************************************************************************)
AcyclicMains(ends) ==
  {(a :> DoOps(x, "value")) @@ (b :> DoOps(y, e)) @@ (c :> DoOps(<<>>, f)) :
     x \in ForcesOf({b, c}), y \in ForcesOf({c}), e \in ends, f \in ends}

\* Two commands over thunks that exist, with a spark for each of two of them,
\* and a parmap over two elements that share a thunk.
SparkCommands ==
  (c1 :> DoOps(<<Op("spark", b), Op("spark", a)>> \o ForceAll(<<c, a>>), "value"))
    @@ (c2 :> DoOps(ForceAll(<<b, c>>), "value"))

ParMapCommands ==
  (c1 :> DoOps(ParMap(<<a, b>>) \o ForceAll(<<b, a>>), "value"))
    @@ (c2 :> DoOps(ForceAll(<<c>>), "value"))

\* A recursive group, a thunk delayed on top of it, and a spark of a hole.
GroupCommands ==
  (c1 :> DoOps(DeclGroup(<<b, c>>) \o <<Op("delay", a), Op("spark", b)>>
                 \o ForceAll(<<a>>), "value"))
    @@ (c2 :> Skip)

\* Sparks of holes; of these thunks, those of "last" are forced in the end.
EarlySparkCommands(last) ==
  (c1 :> DoOps(<<Op("hole", b), Op("spark", b), Op("fill", b),
                 Op("hole", c), Op("spark", c), Op("fillReady", c)>>
                 \o ForceAll(last), "value"))
    @@ (c2 :> Skip)

AcyclicCode ==
  {Table(SparkCommands, m, NoBackup, {}, {a, b, c}) :
     m \in AcyclicMains({"value", "user"})}
  \cup {Table(ParMapCommands, m, NoBackup, {}, {c}) :
     m \in {n \in AcyclicMains({"value", "user"}) : n[b].ops = n[a].ops}}
  \cup {Table(GroupCommands, m, NoBackup, {}, {}) :
     m \in AcyclicMains({"value"})}
  \cup {Table(EarlySparkCommands(last), m, NoBackup, {}, {}) :
     last \in {<<>>, <<b>>},
     m \in {n \in AcyclicMains({"value"}) : n[b].ops = <<>>}}
=============================================================================
