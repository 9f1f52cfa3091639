--------------------------- MODULE TCSolverProofs ---------------------------
(***************************************************************************)
(* Invariants of TCSolver for any number of processes, options and goals.  *)
(***************************************************************************)
EXTENDS TCSolver, SequenceTheorems, TLAPS

\* How many scopes are open after request r.
After(r) == Scopes(r, r.depth)

\* A rest of a conversation: each request is sent in the scopes that the one
\* before it leaves, and the last one leaves none.
Nested(s) ==
  /\ \A i \in 1..Len(s) : s[i].kind = "pop" => s[i].depth >= 1
  /\ \A i \in 1..Len(s) : i < Len(s) => s[i + 1].depth = After(s[i])
  /\ s # <<>> => After(s[Len(s)]) = 0

\* What the command in progress has left in its solver.
OpenScopes ==
  IF repl.todo = <<>> THEN 0
  ELSE IF repl.waiting THEN After(Head(repl.todo)) ELSE Head(repl.todo).depth

InStep(k, scopes, unread) ==
  /\ process[k].scopes = scopes
  /\ process[k].unread = unread
  /\ process[k].config = eTCConfig

Starting == repl.mode \in {"setup", "store"}

\* Where the REPL's thread is, and which solver it has.
ThreadOK ==
  /\ repl.mode \in {"setup", "store", "talk"} => repl.solver \in Process
  /\ repl.mode = "over" => eTCSolver = NoSolver
  /\ Starting => eTCSolver = NoSolver /\ process[repl.solver].gen = eTCSolverRestarts + 1
                   /\ process[repl.solver].state # "unused"
  /\ repl.mode = "talk" => eTCSolver \in {repl.solver, NoSolver}
  /\ repl.mode = "clear" /\ eTCSolver # NoSolver => Dead(eTCSolver)
  /\ repl.waiting => repl.todo # <<>>
  /\ repl.after = "over" => repl.masked
  /\ Nested(repl.todo)

\* The solver is where the command in progress has left it, and between
\* commands it is as new.
ConversationOK ==
  /\ repl.mode = "talk" /\ Live(repl.solver) =>
       InStep(repl.solver, OpenScopes, IF repl.waiting THEN 1 ELSE 0)
  /\ Starting /\ Live(repl.solver) => InStep(repl.solver, 0, 0)
  /\ repl.mode = "idle" /\ eTCSolver # NoSolver /\ Live(eTCSolver) =>
       InStep(eTCSolver, 0, 0)

Used(k) == process[k].state # "unused"

\* Processes have different numbers, unless the start of one of them was cut
\* short; the solver in the REPL's state was started in full and has the number
\* in eTCSolverRestarts; and of those whose start was not cut short only one that
\* is being started has a greater number (or was, when the session ends).
NumbersOK ==
  /\ \A j, k \in Process :
       Used(j) /\ Used(k) /\ process[j].gen = process[k].gen
         => j = k \/ j \in lost \/ k \in lost
  /\ eTCSolver # NoSolver => /\ Used(eTCSolver) /\ eTCSolver \notin lost
                             /\ process[eTCSolver].gen = eTCSolverRestarts
  /\ \A k \in Process :
       Used(k) /\ k \notin lost =>
         \/ process[k].gen <= eTCSolverRestarts
         \/ Starting /\ k = repl.solver
         \/ repl.mode \in {"stop", "clear"} /\ repl.after = "over"
         \/ repl.mode = "over"
  /\ \A k \in lost : Used(k)
  /\ Starting => repl.solver \notin lost

IInv == TypeOK /\ ThreadOK /\ ConversationOK /\ NumbersOK /\ NoOrphans

-----------------------------------------------------------------------------
\* What is left of a conversation after its first request.
LEMMA NestedTail ==
  ASSUME NEW s \in Seq(Request), s # <<>>, Nested(s)
  PROVE  /\ Tail(s) \in Seq(Request) /\ Nested(Tail(s))
         /\ IF Tail(s) = <<>> THEN After(Head(s)) = 0
                              ELSE Head(Tail(s)).depth = After(Head(s))
<1>1. /\ Tail(s) \in Seq(Request) /\ Len(Tail(s)) = Len(s) - 1
      /\ \A i \in 1..Len(Tail(s)) : Tail(s)[i] = s[i + 1]
      /\ Head(s) = s[1] /\ Len(s) \in Nat /\ Len(s) >= 1
  BY HeadTailProperties, EmptySeq, LenProperties
<1>2. Nested(Tail(s))
  <2>1. ASSUME NEW i \in 1..Len(Tail(s))
        PROVE  i + 1 \in 1..Len(s) /\ Tail(s)[i] = s[i + 1]
    BY <1>1
  <2>2. \A i \in 1..Len(Tail(s)) : Tail(s)[i].kind = "pop" => Tail(s)[i].depth >= 1
    BY <2>1 DEF Nested
  <2>3. ASSUME NEW i \in 1..Len(Tail(s)), i < Len(Tail(s))
        PROVE  Tail(s)[i + 1].depth = After(Tail(s)[i])
    <3>1. i + 1 \in 1..Len(Tail(s)) /\ i + 1 < Len(s)
      BY <1>1, <2>3
    <3>2. Tail(s)[i + 1] = s[(i + 1) + 1] /\ Tail(s)[i] = s[i + 1] /\ i + 1 \in 1..Len(s)
      BY <3>1, <2>1
    <3> QED BY <3>1, <3>2 DEF Nested
  <2>4. Tail(s) # <<>> => After(Tail(s)[Len(Tail(s))]) = 0
    <3> SUFFICES ASSUME Tail(s) # <<>>
                 PROVE  After(Tail(s)[Len(Tail(s))]) = 0
      OBVIOUS
    <3>1. Len(Tail(s)) \in 1..Len(Tail(s)) /\ Len(Tail(s)) + 1 = Len(s)
      BY <1>1, EmptySeq, LenProperties
    <3>2. Tail(s)[Len(Tail(s))] = s[Len(s)]
      BY <2>1, <3>1
    <3> QED BY <3>2 DEF Nested
  <2> QED BY <2>2, <2>3, <2>4 DEF Nested
<1>3. CASE Tail(s) = <<>>
  <2>1. Len(s) = 1
    BY <1>1, <1>3
  <2> QED BY <1>1, <1>2, <1>3, <2>1 DEF Nested
<1>4. CASE Tail(s) # <<>>
  <2>1. Len(Tail(s)) >= 1 /\ Len(s) > 1
    BY <1>1, <1>4, EmptySeq, LenProperties
  <2>2. Head(Tail(s)) = s[1 + 1]
    BY <1>1, <1>4, <2>1, HeadTailProperties
  <2>3. s[1 + 1].depth = After(s[1])
    BY <1>1, <2>1 DEF Nested
  <2> QED BY <1>1, <1>2, <1>4, <2>2, <2>3
<1> QED BY <1>3, <1>4

\* The functions of SMT.hs close the scopes that they open.
LEMMA ConversationsNested ==
  ASSUME NEW s \in Conversations
  PROVE  s \in Seq(Request) /\ Nested(s) /\ (s # <<>> => Head(s).depth = 0)
<1>1. ASSUME NEW n \in Nat
      PROVE  /\ proveImp(n) \in Seq(Request) /\ Nested(proveImp(n))
             /\ Head(proveImp(n)).depth = 0
  <2> DEFINE t == proveImp(n)
             m == 3 * n + 2
  <2>1. m \in Nat /\ m >= 2 /\ t = [i \in 1..m |-> t[i]]
    BY DEF proveImp
  <2>2. /\ t[1] = Req("push", 0) /\ t[m] = Req("pop", 1)
        /\ \A i \in 2..(m - 1) : t[i] = Question(1)[((i - 2) % 3) + 1]
    BY DEF proveImp
  <2>3. ASSUME NEW i \in 2..(m - 1)
        PROVE  \/ (i - 2) % 3 = 0 /\ t[i] = Req("push", 1)
               \/ (i - 2) % 3 = 1 /\ t[i] = Req("check", 2)
               \/ (i - 2) % 3 = 2 /\ t[i] = Req("pop", 2)
    BY <2>2, <2>3 DEF Question
  <2>4. \A i \in 1..m : t[i] \in Request
    <3>1. ASSUME NEW i \in 1..m
          PROVE  i = 1 \/ i = m \/ i \in 2..(m - 1)
      BY <2>1
    <3> QED BY <2>2, <2>3, <3>1 DEF Req, Request
  <2>5. t \in Seq(Request) /\ Len(t) = m
    BY <2>1, <2>4, SeqDef
  <2>6. ASSUME NEW i \in 1..m, i < m
        PROVE  t[i + 1].depth = After(t[i])
    <3>0. i + 1 \in 2..(m - 1) \/ i + 1 = m
      BY <2>1, <2>6
    <3>1. CASE i = 1
      <4>1. After(t[1]) = 1
        BY <2>2 DEF After, Scopes, Req
      <4>2. i + 1 = m => t[i + 1].depth = 1
        BY <2>2 DEF Req
      <4>3. i + 1 \in 2..(m - 1) => (i + 1 - 2) % 3 = 0
        BY <3>1
      <4>4. i + 1 \in 2..(m - 1) => t[i + 1].depth = 1
        BY <4>3, <2>3 DEF Req
      <4> QED BY <3>0, <3>1, <4>1, <4>2, <4>4
    <3>2. CASE i \in 2..(m - 1)
      <4>1. CASE (i - 2) % 3 = 0
        <5>1. t[i] = Req("push", 1)
          BY <2>3, <3>2, <4>1
        <5>2. (i + 1 - 2) % 3 = 1 /\ i + 1 # m
          BY <3>2, <4>1
        <5>3. t[i + 1] = Req("check", 2)
          BY <2>3, <3>0, <5>2
        <5> QED BY <5>1, <5>3 DEF After, Scopes, Req
      <4>2. CASE (i - 2) % 3 = 1
        <5>1. t[i] = Req("check", 2)
          BY <2>3, <3>2, <4>2
        <5>2. (i + 1 - 2) % 3 = 2 /\ i + 1 # m
          BY <3>2, <4>2
        <5>3. t[i + 1] = Req("pop", 2)
          BY <2>3, <3>0, <5>2
        <5> QED BY <5>1, <5>3 DEF After, Scopes, Req
      <4>3. CASE (i - 2) % 3 = 2
        <5>1. t[i] = Req("pop", 2)
          BY <2>3, <3>2, <4>3
        <5>2. (i + 1 - 2) % 3 = 0
          BY <3>2, <4>3
        <5>3. t[i + 1].depth = 1
          BY <2>2, <2>3, <3>0, <5>2 DEF Req
        <5> QED BY <5>1, <5>3 DEF After, Scopes, Req
      <4> QED BY <2>3, <3>2, <4>1, <4>2, <4>3
    <3> QED BY <3>1, <3>2, <2>6
  <2>7. \A i \in 1..m : t[i].kind = "pop" => t[i].depth >= 1
    <3>1. ASSUME NEW i \in 1..m
          PROVE  i = 1 \/ i = m \/ i \in 2..(m - 1)
      BY <2>1
    <3> QED BY <2>2, <2>3, <3>1 DEF Req
  <2>8. After(t[m]) = 0
    BY <2>2 DEF After, Scopes, Req
  <2>9. Head(t) = t[1] /\ t[1].depth = 0
    BY <2>2, <2>5, HeadTailProperties DEF Req
  <2> HIDE DEF m, t
  <2>10. Nested(t)
    BY <2>5, <2>6, <2>7, <2>8 DEF Nested
  <2> QED BY <2>5, <2>9, <2>10 DEF t
<1>2. /\ tryGetModel \in Seq(Request) /\ Nested(tryGetModel)
      /\ Head(tryGetModel).depth = 0
  <2>1. tryGetModel = <<Req("push", 0), Req("check", 1), Req("pop", 1)>>
    BY DEF tryGetModel, Question
  <2>2. Req("push", 0) \in Request /\ Req("check", 1) \in Request /\ Req("pop", 1) \in Request
    BY DEF Req, Request
  <2>3. tryGetModel \in Seq(Request) /\ Len(tryGetModel) = 3
    BY <2>1, <2>2
  <2> QED BY <2>1, <2>3 DEF Nested, After, Scopes, Req
<1> QED BY <1>1, <1>2, BoundsAssumption DEF Conversations, checkUnsolvable, BoundsAssumption

-----------------------------------------------------------------------------
\* A command between two conversations.
LEMMA NothingToSay == <<>> \in Seq(Request) /\ Nested(<<>>)
BY DEF Nested

\* IInv holds at the start.
LEMMA Init_IInv == Init => IInv
<1> SUFFICES ASSUME Init
             PROVE  IInv
  OBVIOUS
<1> USE DEF Init, Idle
<1>1. TypeOK
  BY NothingToSay DEF TypeOK, SolverProcess, ReplThread, Modes
<1>2. ThreadOK
  BY DEF ThreadOK, Nested, Starting
<1>3. ConversationOK
  BY DEF ConversationOK, Starting
<1>4. NumbersOK
  BY DEF NumbersOK, Used
<1>5. NoOrphans
  BY DEF NoOrphans, Live
<1> QED BY <1>1, <1>2, <1>3, <1>4, <1>5 DEF IInv

\* resetTCSolver begins: nothing is left of the command.
LEMMA ResettingOK ==
  ASSUME NEW after \in {"idle", "over"}, NEW masked \in BOOLEAN
  PROVE  /\ Resetting(after, masked) \in ReplThread
         /\ Resetting(after, masked).mode = "stop"
         /\ Resetting(after, masked).todo = <<>>
         /\ ~Resetting(after, masked).waiting
         /\ Resetting(after, masked).after = after
         /\ Resetting(after, masked).masked = masked
BY NothingToSay DEF Resetting, Idle, ReplThread, Modes

\* A command with a solver begins a conversation,
LEMMA TalkOK ==
  ASSUME NEW k \in Process, NEW s \in Seq(Request)
  PROVE  /\ Talk(k, s) \in ReplThread
         /\ Talk(k, s).mode = "talk"
         /\ Talk(k, s).solver = k
         /\ Talk(k, s).todo = s
         /\ ~Talk(k, s).waiting
         /\ Talk(k, s).after = "idle"
BY DEF Talk, Idle, ReplThread, Modes

\* A process with one field changed.
LEMMA WithScopes ==
  ASSUME NEW p \in SolverProcess, NEW n \in Nat, NEW q, q = [p EXCEPT !.scopes = n]
  PROVE  q \in SolverProcess /\ q.scopes = n /\ q.unread = p.unread
         /\ q.config = p.config /\ q.state = p.state /\ q.gen = p.gen
         /\ q.watched = p.watched
BY DEF SolverProcess

LEMMA WithUnread ==
  ASSUME NEW p \in SolverProcess, NEW n \in Nat, NEW q, q = [p EXCEPT !.unread = n]
  PROVE  q \in SolverProcess /\ q.unread = n /\ q.scopes = p.scopes
         /\ q.config = p.config /\ q.state = p.state /\ q.gen = p.gen
         /\ q.watched = p.watched
BY DEF SolverProcess

LEMMA WithDead ==
  ASSUME NEW p \in SolverProcess, NEW q, q = [p EXCEPT !.state = "dead"]
  PROVE  q \in SolverProcess /\ q.state = "dead" /\ q.gen = p.gen /\ q.watched = p.watched
BY DEF SolverProcess

\* or has none yet.
LEMMA TalkNothing ==
  ASSUME NEW k \in Process
  PROVE  /\ Talk(k, <<>>) \in ReplThread
         /\ Talk(k, <<>>).mode = "talk"
         /\ Talk(k, <<>>).solver = k
         /\ Talk(k, <<>>).todo = <<>>
         /\ ~Talk(k, <<>>).waiting
         /\ Talk(k, <<>>).after = "idle"
BY NothingToSay, TalkOK

\* Every action preserves IInv.
LEMMA Step_IInv == IInv /\ [Next]_vars => IInv'
<1> SUFFICES ASSUME IInv, [Next]_vars
             PROVE  IInv'
  OBVIOUS
<1>0. TypeOK /\ ThreadOK /\ ConversationOK /\ NumbersOK /\ NoOrphans
  BY DEF IInv
<1>e. Nested(<<>>) /\ <<>> \in Seq(Request)
  BY NothingToSay
\* A step after which the thread is about to reset the solver.
<1>r. ASSUME NEW after \in {"idle", "over"}, NEW masked \in BOOLEAN,
             repl' = Resetting(after, masked), after = "over" => masked,
             UNCHANGED <<eTCSolver, eTCSolverRestarts, process>>, eTCConfig' \in Config,
             lost' \in {lost, lost \cup {repl.solver}},
             repl.solver \in lost' => repl.solver \in lost \/ Starting,
             Starting /\ ~Dead(repl.solver) => repl.solver \in lost',
             Starting /\ repl.solver \notin lost' => after = "over",
             repl.mode \in {"stop", "clear"} => ~repl.masked, repl.mode # "over"
      PROVE  IInv'
  <2>0. /\ lost \subseteq lost' /\ lost' \subseteq lost \cup {repl.solver}
        /\ \A j \in lost' : j \in lost \/ (Starting /\ j = repl.solver)
    BY <1>r
  <2>1. TypeOK'
    <3>1. lost' \in SUBSET Process
      BY <1>0, <2>0 DEF TypeOK, ThreadOK, Starting
    <3> QED BY <1>0, <1>r, <3>1, ResettingOK DEF TypeOK
  <2>2. ThreadOK'
    BY <1>0, <1>r, <1>e, ResettingOK DEF ThreadOK, Starting
  <2>3. ConversationOK'
    BY <1>r, ResettingOK DEF ConversationOK, Starting
  <2>4. NumbersOK'
    <3>1. repl'.mode = "stop" /\ repl'.after = after
      BY <1>r, ResettingOK
    <3>3. \A j \in Process : Used(j) /\ j \notin lost' =>
            process[j].gen <= eTCSolverRestarts \/ after = "over"
      BY <1>0, <1>r, <2>0 DEF NumbersOK, ThreadOK
    <3>4. eTCSolver # NoSolver => eTCSolver \notin lost'
      BY <1>0, <2>0 DEF NumbersOK, ThreadOK
    <3>5. \A j \in lost' : Used(j)
      BY <1>0, <2>0 DEF NumbersOK, ThreadOK, Used
    <3>6. \A j, k \in Process :
            Used(j) /\ Used(k) /\ process[j].gen = process[k].gen
              => j = k \/ j \in lost' \/ k \in lost'
      BY <1>0, <2>0 DEF NumbersOK
    <3>7. ~Starting'
      BY <3>1 DEF Starting
    <3>9. eTCSolver # NoSolver => Used(eTCSolver) /\ process[eTCSolver].gen = eTCSolverRestarts
      BY <1>0 DEF NumbersOK
    <3>10. UNCHANGED <<eTCSolver, eTCSolverRestarts, process>>
      BY <1>r
    <3>11. \A j : Used(j)' <=> Used(j)
      BY <3>10 DEF Used
    <3> QED BY <3>1, <3>3, <3>4, <3>5, <3>6, <3>7, <3>9, <3>10, <3>11 DEF NumbersOK
  <2>5. NoOrphans'
    <3>1. \A j \in Process : Live(j) => ~Dead(j)
      BY DEF Live, Dead
    <3>2. \A j \in Process :
            Live(j) => j = eTCSolver \/ j \in lost' \/ \E i \in Process : TakenFor(i, j)
      BY <1>0, <1>r, <2>0, <3>1 DEF NoOrphans, Starting
    <3>3. \A i, j \in Process : TakenFor(i, j) => TakenFor(i, j)'
      BY <1>r, <2>0 DEF TakenFor, Dead
    <3>4. repl'.mode = "stop" /\ (\A j \in Process : Live(j)' => Live(j))
      BY <1>r, ResettingOK DEF Live
    <3> QED BY <1>r, <3>2, <3>3, <3>4 DEF NoOrphans
  <2> QED BY <2>1, <2>2, <2>3, <2>4, <2>5 DEF IInv
\* A step that starts no process and forgets no solver.
<1>k. ASSUME UNCHANGED <<eTCSolver, lost>>, repl.mode # "over", repl'.mode # "over",
             Starting /\ Live(repl.solver) => Starting' /\ repl'.solver = repl.solver,
             \A j \in Process : /\ Live(j)' => Live(j)
                                /\ Dead(j) => Dead(j)'
                                /\ process'[j].gen = process[j].gen
                                /\ process'[j].watched = process[j].watched
      PROVE  NoOrphans'
  <2>1. \A i, j \in Process : TakenFor(i, j) => TakenFor(i, j)'
    BY <1>k DEF TakenFor
  <2> QED BY <1>0, <1>k, <2>1 DEF NoOrphans, Starting
<1>1. CASE GetSolver
  <2>1. eTCSolver \in Process /\ repl' = Talk(eTCSolver, <<>>) /\ UNCHANGED <<rw, process, lost>>
        /\ repl.mode = "idle"
    BY <1>0, <1>1 DEF GetSolver, TypeOK
  <2>2. TypeOK'
    BY <1>0, <1>e, <2>1, TalkNothing DEF TypeOK, rw
  <2>3. ThreadOK'
    BY <1>0, <1>e, <2>1, TalkNothing DEF ThreadOK, Starting, rw
  <2>4. ConversationOK'
    <3>1. /\ repl'.mode = "talk" /\ repl'.solver = eTCSolver /\ repl'.todo = <<>> /\ ~repl'.waiting
          /\ eTCSolver # NoSolver
      BY <2>1, TalkNothing DEF NoSolver, Process
    <3>2. Live(eTCSolver) => InStep(eTCSolver, 0, 0)
      BY <1>0, <2>1, <3>1 DEF ConversationOK
    <3> QED BY <2>1, <3>1, <3>2 DEF ConversationOK, Starting, rw, OpenScopes, InStep, Live
  <2>5. NumbersOK'
    BY <1>0, <1>e, <2>1, TalkNothing DEF NumbersOK, Used, Starting, rw
  <2>6. NoOrphans'
    BY <2>1, <1>k, TalkNothing DEF Starting, Live, Dead, rw
  <2> QED BY <2>2, <2>3, <2>4, <2>5, <2>6 DEF IInv
<1>2. CASE StartSolver
  <2>1. PICK k \in Process : /\ NextProcess(k)
                             /\ process' = [process EXCEPT ![k] = Spawned(eTCSolverRestarts + 1)]
                             /\ repl' = [Idle EXCEPT !.mode = "setup", !.solver = k]
    BY <1>2 DEF StartSolver
  <2>2. /\ repl.mode = "idle" /\ eTCSolver = NoSolver /\ UNCHANGED <<rw, lost>>
        /\ process[k].state = "unused"
    BY <1>2, <2>1 DEF StartSolver, NextProcess
  <2>3. /\ repl' \in ReplThread /\ repl'.mode = "setup" /\ repl'.solver = k /\ repl'.todo = <<>>
        /\ ~repl'.waiting /\ repl'.after = "idle"
    BY <1>e, <2>1 DEF Idle, ReplThread, Modes
  <2>4. /\ process'[k] = Spawned(eTCSolverRestarts + 1)
        /\ Spawned(eTCSolverRestarts + 1) \in SolverProcess
        /\ \A j \in Process : j # k => process'[j] = process[j]
        /\ process' \in [Process -> SolverProcess]
    BY <1>0, <2>1 DEF TypeOK, Spawned, SolverProcess
  <2>5. TypeOK'
    BY <1>0, <2>2, <2>3, <2>4 DEF TypeOK, rw
  <2>6. ThreadOK'
    BY <1>0, <1>e, <2>2, <2>3, <2>4 DEF ThreadOK, Starting, rw, Spawned
  <2>7. ConversationOK'
    BY <2>2, <2>3, <2>4 DEF ConversationOK, Starting, rw, Spawned, InStep
  <2>8. NumbersOK'
    <3>1. \A j \in Process : Used(j) /\ j \notin lost => process[j].gen <= eTCSolverRestarts
      BY <1>0, <2>2 DEF NumbersOK, Starting
    <3>4. k \notin lost /\ lost' = lost /\ (\A j \in lost : j \in Process)
      BY <1>0, <2>2 DEF NumbersOK, Used, TypeOK
    <3>5. /\ \A j \in Process : j # k => (Used(j)' <=> Used(j))
          /\ process'[k].gen = eTCSolverRestarts + 1 /\ eTCSolverRestarts' = eTCSolverRestarts
      BY <2>2, <2>4 DEF Used, Spawned, rw
    <3>2. \A j \in Process : process[j].gen \in Nat
      BY <1>0 DEF TypeOK, SolverProcess
    <3>3. eTCSolverRestarts \in Nat
      BY <1>0 DEF TypeOK
    <3>6. \A i, j \in Process :
            Used(i)' /\ Used(j)' /\ process'[i].gen = process'[j].gen
              => i = j \/ i \in lost \/ j \in lost
      BY <1>0, <2>4, <3>1, <3>2, <3>3, <3>5 DEF NumbersOK
    <3>7. \A j \in Process :
            Used(j)' /\ j \notin lost => process'[j].gen <= eTCSolverRestarts \/ j = k
      BY <2>4, <3>1, <3>5
    <3>8. \A j \in lost : Used(j)'
      BY <1>0, <3>4, <3>5 DEF NumbersOK
    <3> QED BY <2>2, <2>3, <3>4, <3>5, <3>6, <3>7, <3>8 DEF NumbersOK, Starting, rw
  <2>9. NoOrphans'
    <3>1. lost' = lost /\ eTCSolver = NoSolver /\ k \notin lost
      BY <1>0, <2>2 DEF NumbersOK, Used
    <3>2. \A j \in Process : j # k => (Live(j)' <=> Live(j))
      BY <2>4 DEF Live
    <3>3. ASSUME NEW i \in Process, NEW j \in Process, j # k, TakenFor(i, j)
          PROVE  TakenFor(i, j)'
      <4>1. i # k
        BY <3>1, <3>3 DEF TakenFor
      <4> QED BY <2>4, <3>1, <3>3, <4>1 DEF TakenFor, Dead
    <3> QED BY <1>0, <2>2, <2>3, <3>1, <3>2, <3>3 DEF NoOrphans, NoSolver, Process
  <2> QED BY <2>5, <2>6, <2>7, <2>8, <2>9 DEF IInv
<1>3. CASE SetupSolver
  <2>1. /\ repl.mode = "setup" /\ repl' = [repl EXCEPT !.mode = "store"]
        /\ UNCHANGED <<rw, process, lost>>
    BY <1>3 DEF SetupSolver
  <2>2. /\ repl' \in ReplThread /\ repl'.mode = "store" /\ repl'.solver = repl.solver
        /\ repl'.todo = repl.todo /\ repl'.waiting = repl.waiting /\ repl'.after = repl.after
        /\ repl'.masked = repl.masked
    BY <1>0, <2>1 DEF TypeOK, ReplThread, Modes
  <2>3. TypeOK'
    BY <1>0, <2>1, <2>2 DEF TypeOK, rw
  <2>4. ThreadOK'
    BY <1>0, <2>1, <2>2 DEF ThreadOK, Starting, rw
  <2>5. ConversationOK'
    BY <1>0, <2>1, <2>2 DEF ConversationOK, Starting, rw, InStep, Live
  <2>6. NumbersOK'
    BY <1>0, <2>1, <2>2 DEF NumbersOK, Used, Starting, rw
  <2>7. NoOrphans'
    BY <2>1, <2>2, <1>k DEF Starting, Live, Dead, rw
  <2> QED BY <2>3, <2>4, <2>5, <2>6, <2>7 DEF IInv
<1>4. CASE StoreSolver
  <2>1. /\ repl.mode = "store" /\ repl.solver \in Process /\ repl' = Talk(repl.solver, <<>>)
        /\ eTCSolver' = repl.solver /\ eTCSolverRestarts' = process[repl.solver].gen
        /\ UNCHANGED <<eTCConfig, process, lost>>
        /\ process[repl.solver].gen = eTCSolverRestarts + 1 /\ Used(repl.solver)
    BY <1>0, <1>4 DEF StoreSolver, ThreadOK, Starting, Used
  <2>2. TypeOK'
    BY <1>0, <1>e, <2>1, TalkNothing DEF TypeOK, SolverProcess
  <2>3. ThreadOK'
    BY <1>0, <1>e, <2>1, TalkNothing DEF ThreadOK, Starting
  <2>4. ConversationOK'
    BY <1>0, <1>e, <2>1, TalkNothing DEF ConversationOK, Starting, OpenScopes, InStep, Live
  <2>5. NumbersOK'
    <3>1. \A j \in Process : process[j].gen \in Nat
      BY <1>0 DEF TypeOK, SolverProcess
    <3>2. eTCSolverRestarts \in Nat
      BY <1>0 DEF TypeOK
    <3>3. \A j \in Process : Used(j) /\ j \notin lost =>
            process[j].gen <= eTCSolverRestarts \/ j = repl.solver
      BY <1>0, <2>1 DEF NumbersOK
    <3>4. repl.solver \notin lost
      BY <1>0, <2>1 DEF NumbersOK, Starting
    <3> QED BY <1>0, <1>e, <2>1, <3>1, <3>2, <3>3, <3>4, TalkNothing DEF NumbersOK, Used, Starting
  <2>6. NoOrphans'
    <3>1. eTCSolver = NoSolver /\ repl'.mode = "talk"
      BY <1>0, <2>1, TalkNothing DEF ThreadOK, Starting
    <3>2. \A i, j \in Process : (TakenFor(i, j)' <=> TakenFor(i, j)) /\ (Live(j)' <=> Live(j))
      BY <2>1 DEF TakenFor, Live, Dead
    <3> QED BY <1>0, <2>1, <3>1, <3>2 DEF NoOrphans, NoSolver, Process
  <2> QED BY <2>2, <2>3, <2>4, <2>5, <2>6 DEF IInv
<1>5. CASE Converse
  <2>1. /\ repl.mode = "talk" /\ repl.todo = <<>> /\ UNCHANGED <<rw, process, lost>>
        /\ repl.solver \in Process /\ ~repl.waiting /\ eTCSolver \in {repl.solver, NoSolver}
    BY <1>0, <1>5 DEF Converse, ThreadOK
  <2>2. CASE \E s \in Conversations : repl' = Talk(repl.solver, s)
    <3>1. PICK s \in Conversations : repl' = Talk(repl.solver, s)
      BY <2>2
    <3>2. s \in Seq(Request) /\ Nested(s) /\ (s # <<>> => Head(s).depth = 0)
      BY ConversationsNested
    <3>3. TypeOK'
      BY <1>0, <2>1, <3>1, <3>2, TalkOK DEF TypeOK, rw
    <3>4. ThreadOK'
      BY <1>0, <2>1, <3>1, <3>2, TalkOK DEF ThreadOK, Starting, rw
    <3>5. ConversationOK'
      BY <1>0, <2>1, <3>1, <3>2, TalkOK DEF ConversationOK, Starting, rw, OpenScopes, InStep, Live
    <3>6. NumbersOK'
      BY <1>0, <2>1, <3>1, <3>2, TalkOK DEF NumbersOK, Used, Starting, rw
    <3>7. NoOrphans'
      BY <2>1, <3>1, <3>2, <1>k, TalkOK DEF Starting, Live, Dead, rw
    <3> QED BY <3>3, <3>4, <3>5, <3>6, <3>7 DEF IInv
  <2>3. CASE repl' = Idle
    <3>1. /\ Idle \in ReplThread /\ Idle.mode = "idle" /\ Idle.todo = <<>> /\ ~Idle.waiting
          /\ Idle.after = "idle"
      BY <1>e DEF Idle, ReplThread, Modes
    <3>2. TypeOK'
      BY <1>0, <2>1, <2>3, <3>1 DEF TypeOK, rw
    <3>3. ThreadOK'
      BY <1>e, <2>3, <3>1 DEF ThreadOK, Starting
    <3>4. ConversationOK'
      BY <1>0, <2>1, <2>3, <3>1 DEF ConversationOK, Starting, rw, OpenScopes, InStep, Live
    <3>5. NumbersOK'
      BY <1>0, <2>1, <2>3, <3>1 DEF NumbersOK, Used, Starting, rw
    <3>6. NoOrphans'
      BY <2>1, <2>3, <3>1, <1>k DEF Starting, Live, Dead, rw
    <3> QED BY <3>2, <3>3, <3>4, <3>5, <3>6 DEF IInv
  <2> QED BY <1>5, <2>2, <2>3 DEF Converse
<1>6. CASE Send
  <2> DEFINE k == repl.solver
  <2>1. /\ repl.mode = "talk" /\ repl.todo # <<>> /\ ~repl.waiting /\ Live(k) /\ k \in Process
        /\ repl' = [repl EXCEPT !.waiting = TRUE] /\ UNCHANGED <<rw, lost>>
        /\ process' = [process EXCEPT ![repl.solver].scopes = Scopes(Head(repl.todo), @),
                                      ![repl.solver].unread = @ + 1]
    BY <1>0, <1>6 DEF Send, ThreadOK
  <2>2. /\ repl' \in ReplThread /\ repl'.mode = "talk" /\ repl'.solver = k
        /\ repl'.todo = repl.todo /\ repl'.waiting /\ repl'.after = repl.after
        /\ repl'.masked = repl.masked
    BY <1>0, <2>1 DEF TypeOK, ReplThread, Modes
  <2>3. /\ process[k].scopes = Head(repl.todo).depth
        /\ process[k].unread = 0 /\ process[k].config = eTCConfig
    BY <1>0, <2>1 DEF ConversationOK, InStep, OpenScopes
  <2>4. /\ Head(repl.todo) \in Request /\ Head(repl.todo) = repl.todo[1]
        /\ 1 \in 1..Len(repl.todo)
    BY <1>0, <2>1, HeadTailProperties, EmptySeq, LenProperties DEF TypeOK, ReplThread
  <2>5. Head(repl.todo).kind = "pop" => Head(repl.todo).depth >= 1
    BY <1>0, <2>4 DEF ThreadOK, Nested
  <2>6. After(Head(repl.todo)) \in Nat
    BY <2>4, <2>5 DEF After, Scopes, Request
  <2>7. process[k] \in SolverProcess
    BY <1>0, <2>1 DEF TypeOK
  <2>8. /\ process' = [process EXCEPT ![k] = process'[k]]
        /\ process'[k] = [[process[k] EXCEPT !.scopes = Scopes(Head(repl.todo), @)]
                            EXCEPT !.unread = @ + 1]
    BY <1>0, <2>1 DEF TypeOK
  <2>9. /\ process'[k].scopes = After(Head(repl.todo)) /\ process'[k].unread = 1
        /\ process'[k].config = eTCConfig /\ process'[k].state = process[k].state
        /\ process'[k].gen = process[k].gen /\ process'[k].watched = process[k].watched
        /\ process'[k] \in SolverProcess
    <3>1. Scopes(Head(repl.todo), process[k].scopes) = After(Head(repl.todo))
      BY <2>3 DEF After
    <3>2. PICK q : q = [process[k] EXCEPT !.scopes = Scopes(Head(repl.todo), @)]
      OBVIOUS
    <3>3. /\ q \in SolverProcess /\ q.scopes = After(Head(repl.todo)) /\ q.unread = 0
          /\ q.config = eTCConfig /\ q.state = process[k].state /\ q.gen = process[k].gen
          /\ q.watched = process[k].watched
      BY <2>3, <2>6, <2>7, <3>1, <3>2, WithScopes
    <3>4. process'[k] = [q EXCEPT !.unread = q.unread + 1]
      BY <2>8, <3>2
    <3>5. q.unread + 1 = 1
      BY <3>3
    <3> QED BY <3>3, <3>4, <3>5, WithUnread
  <2>15. /\ \A j \in Process : j # k => process'[j] = process[j]
         /\ process' \in [Process -> SolverProcess]
    BY <1>0, <2>1, <2>8, <2>9 DEF TypeOK
  <2> HIDE DEF k
  <2>10. TypeOK'
    BY <1>0, <2>1, <2>2, <2>15 DEF TypeOK, rw
  <2>11. ThreadOK'
    BY <1>0, <2>1, <2>2, <2>9 DEF ThreadOK, Starting, rw, k
  <2>12. ConversationOK'
    BY <1>0, <2>1, <2>2, <2>9 DEF ConversationOK, Starting, rw, OpenScopes, InStep, After
  <2>13. NumbersOK'
    <3>1. \A j \in Process : process'[j].state = process[j].state /\ process'[j].gen = process[j].gen
      BY <2>9, <2>15
    <3> QED BY <1>0, <2>1, <2>2, <3>1 DEF NumbersOK, Used, Starting, rw, TypeOK
  <2>14. NoOrphans'
    <3>1. \A j \in Process : /\ process'[j].state = process[j].state
                             /\ process'[j].gen = process[j].gen
                             /\ process'[j].watched = process[j].watched
      BY <2>9, <2>15
    <3> QED BY <2>1, <2>2, <3>1, <1>k DEF Starting, Live, Dead, rw
  <2> QED BY <2>10, <2>11, <2>12, <2>13, <2>14 DEF IInv
<1>7. CASE Receive
  <2> DEFINE k == repl.solver
  <2>1. /\ repl.mode = "talk" /\ repl.todo # <<>> /\ repl.waiting /\ Live(k) /\ k \in Process
        /\ repl' = [repl EXCEPT !.waiting = FALSE, !.todo = Tail(@)] /\ UNCHANGED <<rw, lost>>
        /\ process' = [process EXCEPT ![repl.solver].unread = @ - 1]
        /\ repl.todo \in Seq(Request) /\ Nested(repl.todo)
    BY <1>0, <1>7 DEF Receive, ThreadOK, TypeOK, ReplThread
  <2>2. /\ Tail(repl.todo) \in Seq(Request) /\ Nested(Tail(repl.todo))
        /\ IF Tail(repl.todo) = <<>> THEN After(Head(repl.todo)) = 0
           ELSE Head(Tail(repl.todo)).depth = After(Head(repl.todo))
    BY <2>1, NestedTail
  <2>3. /\ repl' \in ReplThread /\ repl'.mode = "talk" /\ repl'.solver = k
        /\ repl'.todo = Tail(repl.todo) /\ ~repl'.waiting /\ repl'.after = repl.after
        /\ repl'.masked = repl.masked
    BY <1>0, <2>1, <2>2 DEF TypeOK, ReplThread, Modes
  <2>4. /\ process[k].scopes = After(Head(repl.todo))
        /\ process[k].unread = 1 /\ process[k].config = eTCConfig
    BY <1>0, <2>1 DEF ConversationOK, InStep, OpenScopes
  <2>5. process[k] \in SolverProcess
    BY <1>0, <2>1 DEF TypeOK
  <2>6. /\ process' = [process EXCEPT ![k] = process'[k]]
        /\ process'[k] = [process[k] EXCEPT !.unread = process[k].unread - 1]
    BY <1>0, <2>1 DEF TypeOK
  <2>14. process[k].unread - 1 = 0
    BY <2>4
  <2>7. /\ process'[k].scopes = After(Head(repl.todo)) /\ process'[k].unread = 0
        /\ process'[k].config = eTCConfig /\ process'[k].state = process[k].state
        /\ process'[k].gen = process[k].gen /\ process'[k].watched = process[k].watched
        /\ process'[k] \in SolverProcess
    BY <2>4, <2>5, <2>6, <2>14, WithUnread
  <2>13. /\ \A j \in Process : j # k => process'[j] = process[j]
         /\ process' \in [Process -> SolverProcess]
    BY <1>0, <2>1, <2>6, <2>7 DEF TypeOK
  <2> HIDE DEF k
  <2>8. TypeOK'
    BY <1>0, <2>1, <2>3, <2>13 DEF TypeOK, rw
  <2>9. ThreadOK'
    BY <1>0, <2>1, <2>2, <2>3, <2>7 DEF ThreadOK, Starting, rw, k
  <2>10. ConversationOK'
    BY <1>0, <2>1, <2>2, <2>3, <2>7 DEF ConversationOK, Starting, rw, OpenScopes, InStep
  <2>11. NumbersOK'
    <3>1. \A j \in Process : process'[j].state = process[j].state /\ process'[j].gen = process[j].gen
      BY <2>7, <2>13
    <3> QED BY <1>0, <2>1, <2>3, <3>1 DEF NumbersOK, Used, Starting, rw, TypeOK
  <2>12. NoOrphans'
    <3>1. \A j \in Process : /\ process'[j].state = process[j].state
                             /\ process'[j].gen = process[j].gen
                             /\ process'[j].watched = process[j].watched
      BY <2>7, <2>13
    <3> QED BY <2>1, <2>3, <3>1, <1>k DEF Starting, Live, Dead, rw
  <2> QED BY <2>8, <2>9, <2>10, <2>11, <2>12 DEF IInv
<1>8. CASE SolverGone
  BY <1>0, <1>8, <1>r DEF SolverGone, rw, TypeOK, Starting
<1>9. ASSUME NEW c \in Config, SetOption(c)
      PROVE  IInv'
  BY <1>0, <1>9, <1>r DEF SetOption, TypeOK, Starting
<1>10. CASE Quit
  BY <1>0, <1>10, <1>r DEF Quit, rw, TypeOK, Starting
<1>11. CASE handleCtrlC
  <2>1. /\ lost' = IF Starting THEN lost \cup {repl.solver} ELSE lost
        /\ repl.mode # "over" /\ (repl.mode \in {"stop", "clear"} => ~repl.masked)
    BY <1>11 DEF handleCtrlC, Interruptible, Unstored, Starting
  <2> QED BY <1>0, <1>11, <1>r, <2>1 DEF handleCtrlC, rw, TypeOK, Starting
<1>17. CASE SetupFails
  <2>1. repl.mode = "setup" /\ lost' = lost \cup {repl.solver} /\ repl' = Resetting("over", TRUE)
        /\ UNCHANGED <<rw, process>>
    BY <1>17 DEF SetupFails
  <2> QED BY <1>0, <1>r, <2>1 DEF rw, TypeOK, Starting
\* A process ends, or its end is reported: what others see of it but its state.
<1>s. ASSUME NEW k \in Process,
             process' = [process EXCEPT ![k].state = "dead", ![k].scopes = 0, ![k].unread = 0]
      PROVE  /\ process' \in [Process -> SolverProcess]
             /\ process'[k].state = "dead" /\ process'[k].gen = process[k].gen
             /\ \A j \in Process : j # k => process'[j] = process[j]
             /\ \A j \in Process : process'[j].gen = process[j].gen
             /\ \A j \in Process : process'[j].watched = process[j].watched
  <2>1. process[k] \in SolverProcess
    BY <1>0 DEF TypeOK
  <2>2. /\ process' = [process EXCEPT ![k] = process'[k]]
        /\ process'[k] = [[[process[k] EXCEPT !.state = "dead"] EXCEPT !.scopes = 0]
                                          EXCEPT !.unread = 0]
    BY <1>0, <1>s DEF TypeOK
  <2>3. PICK p : p = [process[k] EXCEPT !.state = "dead"]
    OBVIOUS
  <2>4. PICK q : q = [p EXCEPT !.scopes = 0]
    OBVIOUS
  <2>7. process'[k] = [q EXCEPT !.unread = 0]
    BY <2>2, <2>3, <2>4, Zenon
  <2>8. p \in SolverProcess /\ p.state = "dead" /\ p.gen = process[k].gen
        /\ p.watched = process[k].watched
    BY <2>1, <2>3, WithDead
  <2>5. q \in SolverProcess /\ q.state = "dead" /\ q.gen = process[k].gen
        /\ q.watched = process[k].watched
    BY <2>4, <2>8, WithScopes
  <2>6. /\ process'[k] \in SolverProcess /\ process'[k].state = "dead"
        /\ process'[k].gen = process[k].gen /\ process'[k].watched = process[k].watched
    BY <2>5, <2>7, WithUnread
  <2> QED BY <1>0, <1>s, <2>2, <2>6 DEF TypeOK
<1>12. CASE StopSolver
  <2>1. repl.mode = "stop" /\ UNCHANGED <<rw, lost>>
    BY <1>12 DEF StopSolver
  <2>2. CASE eTCSolver = NoSolver /\ repl' = [Idle EXCEPT !.mode = repl.after] /\ UNCHANGED process
    <3>1. repl.after \in {"idle", "over"}
      BY <1>0 DEF TypeOK, ReplThread
    <3>2. /\ repl' \in ReplThread /\ repl'.mode = repl.after /\ repl'.todo = <<>>
          /\ ~repl'.waiting /\ repl'.after = "idle"
      BY <1>e, <2>2, <3>1 DEF Idle, ReplThread, Modes
    <3>3. TypeOK'
      BY <1>0, <2>1, <2>2, <3>2 DEF TypeOK, rw
    <3>4. ThreadOK'
      BY <1>e, <2>1, <2>2, <3>1, <3>2 DEF ThreadOK, Starting, rw
    <3>5. ConversationOK'
      BY <2>1, <2>2, <3>1, <3>2 DEF ConversationOK, Starting, rw
    <3>6. NumbersOK'
      BY <1>0, <2>1, <2>2, <3>1, <3>2 DEF NumbersOK, Used, Starting, rw, TypeOK
    <3>7. NoOrphans'
      <4>1. \A i, j \in Process : (TakenFor(i, j)' <=> TakenFor(i, j)) /\ (Live(j)' <=> Live(j))
        BY <2>1, <2>2 DEF TakenFor, Live, Dead
      <4> QED BY <1>0, <2>1, <2>2, <4>1 DEF NoOrphans, rw, NoSolver, Process
    <3> QED BY <3>3, <3>4, <3>5, <3>6, <3>7 DEF IInv
  <2>3. CASE /\ eTCSolver # NoSolver /\ Ended(eTCSolver)
             /\ repl' = [repl EXCEPT !.mode = "clear"]
    <3>1. /\ repl' \in ReplThread /\ repl'.mode = "clear" /\ repl'.todo = repl.todo
          /\ repl'.waiting = repl.waiting /\ repl'.after = repl.after
          /\ repl'.masked = repl.masked /\ repl'.solver = repl.solver
      BY <1>0, <2>3 DEF TypeOK, ReplThread, Modes
    <3>2. eTCSolver \in Process
      BY <1>0, <2>3 DEF TypeOK
    <3>3. /\ process' \in [Process -> SolverProcess]
          /\ process'[eTCSolver].state = "dead"
          /\ \A j \in Process : j # eTCSolver => process'[j] = process[j]
          /\ \A j \in Process : process'[j].gen = process[j].gen
          /\ \A j \in Process : process'[j].watched = process[j].watched
      BY <1>s, <2>3, <3>2 DEF Ended
    <3>4. TypeOK'
      BY <1>0, <2>1, <3>1, <3>3 DEF TypeOK, rw
    <3>5. ThreadOK'
      BY <1>0, <2>1, <3>1, <3>3 DEF ThreadOK, Starting, rw, Dead
    <3>6. ConversationOK'
      BY <3>1 DEF ConversationOK, Starting
    <3>7. NumbersOK'
      <4>1. Used(eTCSolver)
        BY <1>0, <2>3 DEF NumbersOK
      <4>2. \A j \in Process : Used(j)' <=> Used(j)
        BY <3>3, <4>1 DEF Used
      <4>3. \A j \in lost : j \in Process
        BY <1>0 DEF TypeOK
      <4> QED BY <1>0, <2>1, <2>3, <3>1, <3>2, <3>3, <4>2, <4>3 DEF NumbersOK, Starting, rw
    <3>8. NoOrphans'
      <4>1. \A j \in Process : (Live(j)' => Live(j)) /\ (Dead(j) => Dead(j)')
        BY <3>3 DEF Live, Dead
      <4> QED BY <2>1, <3>1, <3>3, <4>1, <1>k DEF Starting, rw
    <3> QED BY <3>4, <3>5, <3>6, <3>7, <3>8 DEF IInv
  <2> QED BY <1>12, <2>2, <2>3 DEF StopSolver
<1>13. CASE ClearSolver
  <2>1. /\ repl.mode = "clear" /\ eTCSolver' = NoSolver
        /\ repl' = [Idle EXCEPT !.mode = repl.after]
        /\ UNCHANGED <<eTCSolverRestarts, eTCConfig, process, lost>>
        /\ repl.after \in {"idle", "over"}
    BY <1>0, <1>13 DEF ClearSolver, TypeOK, ReplThread
  <2>2. /\ repl' \in ReplThread /\ repl'.mode = repl.after /\ repl'.todo = <<>>
        /\ ~repl'.waiting /\ repl'.after = "idle"
    BY <1>e, <2>1 DEF Idle, ReplThread, Modes
  <2>3. TypeOK'
    BY <1>0, <2>1, <2>2 DEF TypeOK
  <2>4. ThreadOK'
    BY <1>e, <2>1, <2>2 DEF ThreadOK, Starting
  <2>5. ConversationOK'
    BY <2>1, <2>2 DEF ConversationOK, Starting
  <2>6. NumbersOK'
    BY <1>0, <2>1, <2>2 DEF NumbersOK, Used, Starting
  <2>7. NoOrphans'
    <3>1. \A i, j \in Process : (TakenFor(i, j)' <=> TakenFor(i, j)) /\ (Live(j)' <=> Live(j))
      BY <2>1 DEF TakenFor, Live, Dead
    <3>2. \A j \in Process : Live(j) => j # eTCSolver
      BY <1>0, <2>1 DEF ThreadOK, Live, Dead, NoSolver, Process
    <3> QED BY <1>0, <2>1, <3>1, <3>2 DEF NoOrphans
  <2> QED BY <2>3, <2>4, <2>5, <2>6, <2>7 DEF IInv
<1>14. ASSUME NEW k \in Process, Die(k)
       PROVE  IInv'
  <2>1. Live(k) /\ UNCHANGED <<rw, repl, lost>>
    BY <1>14 DEF Die
  <2>2. /\ process' \in [Process -> SolverProcess]
        /\ process'[k].state = "dead"
        /\ \A j \in Process : j # k => process'[j] = process[j]
        /\ \A j \in Process : process'[j].gen = process[j].gen
        /\ \A j \in Process : process'[j].watched = process[j].watched
    BY <1>s, <1>14 DEF Die, Ended
  <2>3. \A j \in Process : /\ Live(j)' => Live(j) /\ process'[j] = process[j]
                           /\ Dead(j) => Dead(j)'
                           /\ Used(j)' <=> Used(j)
    BY <2>1, <2>2 DEF Live, Dead, Used
  <2>4. eTCSolver \in Process \cup {NoSolver} /\ repl.solver \in Process \cup {NoSolver}
    BY <1>0 DEF TypeOK, ReplThread
  <2>5. TypeOK'
    BY <1>0, <2>1, <2>2 DEF TypeOK, rw
  <2>6. ThreadOK'
    BY <1>0, <2>1, <2>2, <2>3, <2>4 DEF ThreadOK, Starting, rw, Used
  <2>7. ConversationOK'
    BY <1>0, <2>1, <2>3, <2>4 DEF ConversationOK, ThreadOK, Starting, rw, OpenScopes, InStep
  <2>8. NumbersOK'
    <3>1. \A j \in lost : j \in Process
      BY <1>0 DEF TypeOK
    <3> QED BY <1>0, <2>1, <2>2, <2>3, <2>4, <3>1 DEF NumbersOK, Starting, rw
  <2>9. NoOrphans'
    <3>1. \A i, j \in Process : (TakenFor(i, j) => TakenFor(i, j)') /\ (Live(j)' => Live(j))
      BY <2>1, <2>2, <2>3 DEF TakenFor
    <3> QED BY <1>0, <2>1, <3>1 DEF NoOrphans, rw
  <2> QED BY <2>5, <2>6, <2>7, <2>8, <2>9 DEF IInv
<1>15. ASSUME NEW k \in Process, OnExit(k)
       PROVE  IInv'
  <2>1. /\ Dead(k) /\ process' = [process EXCEPT ![k].watched = FALSE]
        /\ eTCSolver' = IF eTCSolverRestarts = process[k].gen THEN NoSolver ELSE eTCSolver
        /\ UNCHANGED <<eTCSolverRestarts, eTCConfig, repl, lost>>
    BY <1>15 DEF OnExit
  <2>2. process[k] \in SolverProcess
    BY <1>0 DEF TypeOK
  <2>3. /\ process'[k] = [process[k] EXCEPT !.watched = FALSE]
        /\ \A j \in Process : j # k => process'[j] = process[j]
        /\ process' \in [Process -> SolverProcess]
    BY <1>0, <2>1, <2>2 DEF TypeOK, SolverProcess
  <2>4. \A j \in Process :
          /\ process'[j].state = process[j].state /\ process'[j].gen = process[j].gen
          /\ process'[j].scopes = process[j].scopes /\ process'[j].unread = process[j].unread
          /\ process'[j].config = process[j].config
          /\ process[j].watched = process'[j].watched \/ j = k
    BY <2>2, <2>3 DEF SolverProcess
  <2>5. eTCSolver' \in {eTCSolver, NoSolver} /\ eTCSolver \in Process \cup {NoSolver}
    BY <1>0, <2>1 DEF TypeOK
  <2>6. TypeOK'
    BY <1>0, <2>1, <2>3, <2>5 DEF TypeOK
  <2>7. ThreadOK'
    BY <1>0, <2>1, <2>4, <2>5 DEF ThreadOK, Starting, Dead
  <2>8. ConversationOK'
    BY <1>0, <2>1, <2>4, <2>5 DEF ConversationOK, ThreadOK, Starting, OpenScopes, InStep, Live
  <2>9. NumbersOK'
    <3>1. \A j \in lost : j \in Process
      BY <1>0 DEF TypeOK
    <3> QED BY <1>0, <2>1, <2>4, <2>5, <3>1 DEF NumbersOK, Used, Starting
  <2>10. eTCSolver # NoSolver /\ eTCSolver' = NoSolver =>
           eTCSolver = k \/ (k \in lost /\ process[k].gen = process[eTCSolver].gen)
    BY <1>0, <2>1, <2>5 DEF NumbersOK, Used, Dead
  <2>11. NoOrphans'
    <3>1. \A j \in Process : (Live(j)' <=> Live(j)) /\ (Dead(j)' <=> Dead(j))
      BY <2>4 DEF Live, Dead
    <3>2. ~process'[k].watched
      BY <2>2, <2>3 DEF SolverProcess
    <3>3. \A i, j \in Process : TakenFor(i, j) => TakenFor(i, j)'
      BY <2>1, <2>4, <3>1, <3>2 DEF TakenFor
    <3>4. k \in lost => \A j \in Process : process[k].gen = process[j].gen => TakenFor(k, j)'
      BY <2>1, <2>4, <3>1, <3>2 DEF TakenFor
    <3>5. Live(eTCSolver) => eTCSolver # k
      BY <2>1 DEF Live, Dead
    <3> QED BY <1>0, <2>1, <2>5, <2>10, <3>1, <3>3, <3>4, <3>5 DEF NoOrphans, NoSolver, Process
  <2> QED BY <2>6, <2>7, <2>8, <2>9, <2>11 DEF IInv
<1>16. CASE UNCHANGED vars
  BY <1>0, <1>16 DEF vars, rw, IInv, TypeOK, ThreadOK, ConversationOK, NumbersOK, NoOrphans,
     Starting, Live, Dead, Used, OpenScopes, InStep, TakenFor
<1> QED
  BY <1>1, <1>2, <1>3, <1>4, <1>5, <1>6, <1>7, <1>8, <1>9, <1>10, <1>11, <1>12, <1>13,
     <1>14, <1>15, <1>16, <1>17 DEF Next, Over

-----------------------------------------------------------------------------
\* IInv is an invariant.
THEOREM Invariance == Spec => []IInv
BY Init_IInv, Step_IInv, PTL DEF Spec

\* Every variable has its type; in particular no request closes a scope that is
\* not open, as a pop that SMT.hs sends once too often would.
THEOREM SolverTypes == Spec => []TypeOK
BY Invariance, PTL DEF IInv

\* Whatever was interrupted before it, a request of proveImp, checkUnsolvable or
\* tryGetModel is sent in the scopes that this function has opened, to a solver
\* with no unread answer that runs with the options in force.
THEOREM FreshConversations == Spec => []FreshConversation
<1>1. IInv => FreshConversation
  BY DEF IInv, ConversationOK, InStep, OpenScopes, FreshConversation
<1> QED BY <1>1, Invariance, PTL

\* Every living solver process is the one in the REPL's state or the one that
\* getTCSolver is about to store, and none lives after the session, but for those
\* whose start CTRL^C or a failing prelude cut short and those that the REPL has
\* forgotten because they had the number of such a process.
THEOREM NoOrphanProcesses == Spec => []NoOrphans
BY Invariance, PTL DEF IInv

\* Neither onExit of another process nor resetTCSolver forgets a solver that has
\* not ended, unless that process had its start cut short and the same number.
THEOREM ForgotAreDead == Spec => ForgetsOnlyTheDead
<1> DEFINE Excused == \/ Dead(eTCSolver)
                      \/ \E j \in lost : Dead(j) /\ process[j].gen = process[eTCSolver].gen
<1>1. IInv /\ [Next]_vars => [eTCSolver # NoSolver /\ eTCSolver' = NoSolver => Excused]_vars
  <2> SUFFICES ASSUME IInv, Next, eTCSolver # NoSolver, eTCSolver' = NoSolver
               PROVE  Excused
    BY DEF vars
  <2>1. ThreadOK /\ NumbersOK /\ TypeOK
    BY DEF IInv
  <2>2. CASE ClearSolver
    BY <2>1, <2>2 DEF ClearSolver, ThreadOK
  <2>3. ASSUME NEW k \in Process, OnExit(k)
        PROVE  Excused
    <3>1. Dead(k) /\ eTCSolverRestarts = process[k].gen
      BY <2>3 DEF OnExit
    <3>2. /\ Used(k) /\ Used(eTCSolver) /\ process[eTCSolver].gen = process[k].gen
          /\ eTCSolver \in Process /\ eTCSolver \notin lost
      BY <2>1, <3>1 DEF NumbersOK, Used, Dead, TypeOK
    <3>3. eTCSolver = k \/ k \in lost
      BY <2>1, <3>2 DEF NumbersOK
    <3> QED BY <3>1, <3>2, <3>3
  <2>4. CASE StoreSolver
    BY <2>1, <2>4 DEF StoreSolver, ThreadOK, NoSolver, Process
  <2> HIDE DEF Excused
  <2> QED BY <2>2, <2>3, <2>4 DEF Next, GetSolver, StartSolver, SetupSolver, SetupFails, Converse,
      Send, Receive, SolverGone, SetOption, Quit, StopSolver, handleCtrlC, Die, Over, rw, vars
<1> QED BY <1>1, Invariance, PTL DEF Spec, ForgetsOnlyTheDead

-----------------------------------------------------------------------------
\* The thread that waits for a process is there as long as the process is, and
\* onExit of the stored solver finds its own number.
Attended ==
  /\ \A k \in Process : Live(k) => process[k].watched
  /\ eTCSolver # NoSolver => Used(eTCSolver) /\ process[eTCSolver].gen = eTCSolverRestarts

\* It holds at the start, when there is no process.
LEMMA Init_Attended == Init => Attended
BY DEF Init, Attended, Live

\* A process is started with its thread, only onExit ends the thread, and a
\* solver is stored together with its number.
LEMMA Step_Attended == TypeOK /\ ThreadOK /\ Attended /\ [Next]_vars => Attended'
<1> SUFFICES ASSUME TypeOK, ThreadOK, Attended, [Next]_vars
             PROVE  Attended'
  OBVIOUS
<1>0. process \in [Process -> SolverProcess] /\ eTCSolver \in Process \cup {NoSolver}
  BY DEF TypeOK
<1>1. CASE UNCHANGED <<rw, process>>
  BY <1>1 DEF Attended, Live, Used, rw
<1>2. CASE StartSolver
  <2>1. PICK k \in Process : process' = [process EXCEPT ![k] = Spawned(eTCSolverRestarts + 1)]
    BY <1>2 DEF StartSolver
  <2> QED BY <1>0, <1>2, <2>1 DEF StartSolver, Attended, Live, Used, Spawned, rw
<1>3. CASE StoreSolver
  BY <1>3 DEF StoreSolver, Attended, Live, Used, ThreadOK, Starting
<1>4. CASE Send
  BY <1>0, <1>4 DEF Send, Attended, Live, Used, rw, SolverProcess
<1>5. CASE Receive
  BY <1>0, <1>5 DEF Receive, Attended, Live, Used, rw, SolverProcess
<1>6. ASSUME NEW c \in Config, SetOption(c)
      PROVE  Attended'
  BY <1>6 DEF SetOption, Attended, Live, Used
<1>7. CASE StopSolver
  BY <1>0, <1>7 DEF StopSolver, Ended, Attended, Live, Used, rw, SolverProcess
<1>8. CASE ClearSolver
  BY <1>8 DEF ClearSolver, Attended, Live, Used
<1>9. ASSUME NEW k \in Process, Die(k)
      PROVE  Attended'
  BY <1>0, <1>9 DEF Die, Ended, Attended, Live, Used, rw, SolverProcess
<1>10. ASSUME NEW k \in Process, OnExit(k)
       PROVE  Attended'
  BY <1>0, <1>10 DEF OnExit, Attended, Live, Dead, Used, SolverProcess
<1> QED
  BY <1>1, <1>2, <1>3, <1>4, <1>5, <1>6, <1>7, <1>8, <1>9, <1>10
  DEF Next, GetSolver, SetupSolver, SetupFails, Converse, SolverGone, Quit, handleCtrlC, Over, vars, rw

\* A step that leaves the REPL with a dead solver of whose end it will not be
\* told is getTCSolver storing it: whoever lets a stored solver die has a thread
\* waiting for that process, and onExit forgets the solver it was started for.
THEOREM EndsAreNoticed == Spec => NoticesTheEnd
<1>1. TypeOK /\ ThreadOK /\ Attended /\ [Next]_vars =>
        [~Zombie /\ Zombie' => repl.mode = "store"]_vars
  <2> SUFFICES ASSUME TypeOK, ThreadOK, Attended, Next, ~Zombie, Zombie'
               PROVE  repl.mode = "store"
    BY DEF vars
  <2>0. process \in [Process -> SolverProcess] /\ eTCSolver \in Process \cup {NoSolver}
    BY DEF TypeOK
  <2>1. CASE UNCHANGED <<rw, process>>
    BY <2>1 DEF Zombie, Dead, rw
  <2>2. CASE StartSolver
    BY <2>2 DEF StartSolver, Zombie, rw
  <2>3. CASE StoreSolver
    BY <2>3 DEF StoreSolver
  <2>4. CASE Send
    BY <2>0, <2>4 DEF Send, Zombie, Dead, rw, SolverProcess
  <2>5. CASE Receive
    BY <2>0, <2>5 DEF Receive, Zombie, Dead, rw, SolverProcess
  <2>6. ASSUME NEW c \in Config, SetOption(c)
        PROVE  FALSE
    BY <2>6 DEF SetOption, Zombie, Dead
  <2>7. ASSUME NEW k \in Process, Live(k), Ended(k), UNCHANGED rw
        PROVE  FALSE
    BY <2>0, <2>7 DEF Ended, Attended, Zombie, Used, Live, Dead, rw, SolverProcess
  <2>8. CASE StopSolver
    BY <2>0, <2>1, <2>8 DEF StopSolver, Ended, Attended, Zombie, Used, Live, Dead, rw, SolverProcess
  <2>9. CASE ClearSolver
    BY <2>9 DEF ClearSolver, Zombie
  <2>10. ASSUME NEW k \in Process, OnExit(k)
         PROVE  FALSE
    BY <2>0, <2>10 DEF OnExit, Attended, Zombie, Dead, SolverProcess
  <2> QED
    BY <2>1, <2>2, <2>3, <2>4, <2>5, <2>6, <2>7, <2>8, <2>9, <2>10
    DEF Next, GetSolver, SetupSolver, SetupFails, Converse, SolverGone, Quit, handleCtrlC, Die, Over,
        vars, rw
<1>2. Spec => [](TypeOK /\ ThreadOK)
  BY Invariance, PTL DEF IInv
<1>3. Spec => []Attended
  BY Init_Attended, Step_Attended, <1>2, PTL DEF Spec
<1> QED BY <1>1, <1>2, <1>3, PTL DEF Spec, NoticesTheEnd
=============================================================================
