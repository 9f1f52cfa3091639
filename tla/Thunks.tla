------------------------------- MODULE Thunks -------------------------------
(***************************************************************************)
(* The shared, delayed computations of Cryptol's evaluator                 *)
(* (src/Cryptol/Backend/Monad.hs).                                         *)
(*                                                                         *)
(* A thunk is a TVar that several threads read and write: the thread that  *)
(* runs a command, and one thread per evalSpark.  What a computation does  *)
(* is abstracted to the operations it performs on thunks, in order, and    *)
(* how it ends; every such table of computations is an element of Code.    *)
(*                                                                         *)
(* Operators named after an action with a suffix (SparkThunk_TakesClaimed)  *)
(* are mistaken versions of it.  They are not part of Next: the properties *)
(* are tried on them to see that they would notice the mistake.            *)
(*                                                                         *)
(* Each STM transaction is one action.  The readTVarIO that unDelay and    *)
(* evalSpark do first is merged with the transaction (or the fork) after   *)
(* it: the transaction reads the cell again, and a thread forked for a     *)
(* thunk that was evaluated in between finds nothing to do.                *)
(***************************************************************************)
EXTENDS Naturals, Sequences

CONSTANTS
  Thunk,          \* the TVars that hold a ThunkState
  Thread,         \* thread ids; the runtime never uses one twice
  Main,           \* the thread that runs the commands
  NoThread,       \* the owner of a thunk nobody has claimed
  Command,        \* the top-level evaluations Main is asked for
  Code,           \* tables of computations (see CodeAssumption)
  MaxInterrupts   \* bound: how often a user interrupts Main

Ops == {"delay", "hole", "fill", "fillReady", "spark", "sparkNew", "force"}

\* How a computation ends: with a value, with an EvalErrorEx, or with another
\* exception (Unsupported, WordTooWide, a panic), which X.try does not catch.
Ends == {"value", "user", "foreign"}

Body == [ops : Seq([op : Ops, on : Thunk]), end : Ends]

(***************************************************************************)
(* A table: what each command and each thunk's main and backup computation *)
(* does, which thunks have a backup, and which already exist, unforced, in *)
(* the evaluation environment when the first command starts.               *)
(***************************************************************************)
CodeTable == [command   : [Command -> Body],
              main      : [Thunk -> Body],
              backup    : [Thunk -> Body],
              hasBackup : SUBSET Thunk,
              existing  : SUBSET Thunk]

CodeAssumption == Code \subseteq CodeTable

ThreadAssumption == Main \in Thread /\ NoThread \notin Thread

BoundAssumption == MaxInterrupts \in Nat

\* A frame names the computation it runs, so the two kinds of name differ.
NameAssumption == Thunk \cap Command = {}

ASSUME CodeAssumption
ASSUME ThreadAssumption
ASSUME BoundAssumption
ASSUME NameAssumption

VARIABLES
  code,        \* the table in use; never changes
  tv,          \* tv[t]: the contents of the TVar of thunk t
  thread,      \* thread[p]: what thread p is doing
  pending,     \* commands not yet asked for
  interrupts   \* how often Main was interrupted

vars == <<code, tv, thread, pending, interrupts>>

-----------------------------------------------------------------------------
(***************************************************************************)
(* Data: thunk states, frames, threads.                                    *)
(***************************************************************************)

Tags == {"none", "void", "unforced", "under", "forcedErr", "forced"}

\* What an evaluation comes to: a value from the main or from the backup
\* computation, an EvalErrorEx raised by a computation or by the loop check of
\* a thunk, or an exception of another type.
Outcome == [kind : {"none", "main", "backup", "user", "loop", "foreign"},
            of   : Thunk \cup Command \cup {NoThread}]

Result(k, c) == [kind |-> k, of |-> c]
NoResult == Result("none", NoThread)

ThunkState == [tag : Tags, owner : Thread \cup {NoThread},
               backup : BOOLEAN, result : Outcome]

None == [tag |-> "none", owner |-> NoThread, backup |-> FALSE, result |-> NoResult]
Void == [None EXCEPT !.tag = "void"]
Unforced(b) == [None EXCEPT !.tag = "unforced", !.backup = b]
UnderEvaluation(p, b) ==
  [None EXCEPT !.tag = "under", !.owner = p, !.backup = b]
ForcedErr(e) == [None EXCEPT !.tag = "forcedErr", !.result = e]
Forced(v) == [None EXCEPT !.tag = "forced", !.result = v]

Evaluated(t) == tv[t].tag \in {"forced", "forcedErr"}

Frame == [kind : {"command"}, name : Command, pc : Nat \ {0}]
         \cup [kind : {"main", "backup"}, name : Thunk, pc : Nat \ {0}]

NewFrame(k, c) == [kind |-> k, name |-> c, pc |-> 1]

\* idle: Main between commands.  unborn: not forked yet.  claim: a spark about
\* to claim its target.  run: the top frame of the stack runs.  raise: an
\* exception unwinds the stack.  done: the thread has ended.
Modes == {"idle", "unborn", "claim", "run", "raise", "done"}

ThreadState == [mode : Modes, stack : Seq(Frame),
                target : Thunk \cup {NoThread}, exc : Outcome]

Push(s, f) == Append(s, f)
Top(s) == s[Len(s)]
Pop(s) == SubSeq(s, 1, Len(s) - 1)

\* The stack after the operation the top frame was at.
Advance(s) == [s EXCEPT ![Len(s)].pc = @ + 1]

BodyOf(f) ==
  IF f.kind = "command" THEN code.command[f.name]
  ELSE IF f.kind = "main" THEN code.main[f.name]
  ELSE code.backup[f.name]

Running(p) == thread[p].mode = "run"
TopFrame(p) == Top(thread[p].stack)
AtEnd(p) == TopFrame(p).pc > Len(BodyOf(TopFrame(p)).ops)

\* Thread p is about to do operation o on thunk t.
At(p, o, t) ==
  /\ Running(p)
  /\ ~AtEnd(p)
  /\ BodyOf(TopFrame(p)).ops[TopFrame(p).pc] = [op |-> o, on |-> t]

SetThread(p, s) == thread' = [thread EXCEPT ![p] = s]
SetThunk(t, s) == tv' = [tv EXCEPT ![t] = s]
Continue(p) == [thread[p] EXCEPT !.stack = Advance(@)]
Raise(p, e) == [thread[p] EXCEPT !.mode = "raise", !.exc = e]

-----------------------------------------------------------------------------
Init ==
  /\ code \in Code
  /\ tv = [t \in Thunk |-> IF t \in code.existing
                           THEN Unforced(t \in code.hasBackup)
                           ELSE None]
  /\ thread = [p \in Thread |->
                 [mode |-> IF p = Main THEN "idle" ELSE "unborn",
                  stack |-> <<>>, target |-> NoThread, exc |-> NoResult]]
  /\ pending = Command
  /\ interrupts = 0

-----------------------------------------------------------------------------
(***************************************************************************)
(* Creating thunks.                                                        *)
(***************************************************************************)

\* The REPL or the server asks Main to evaluate something: runEval.
RunCommand(c) ==
  /\ thread[Main].mode = "idle"
  /\ c \in pending
  /\ pending' = pending \ {c}
  /\ SetThread(Main, [thread[Main] EXCEPT !.mode = "run",
                                          !.stack = <<NewFrame("command", c)>>])
  /\ UNCHANGED <<code, tv, interrupts>>

\* delayFill of an Eval: a new TVar, not forced.
Delay(p, t) ==
  /\ At(p, "delay", t)
  /\ tv[t] = None
  /\ SetThunk(t, Unforced(t \in code.hasBackup))
  /\ SetThread(p, Continue(p))
  /\ UNCHANGED <<code, pending, interrupts>>

\* blackhole: a new TVar in the Void state ...
Blackhole(p, t) ==
  /\ At(p, "hole", t)
  /\ tv[t] = None
  /\ SetThunk(t, Void)
  /\ SetThread(p, Continue(p))
  /\ UNCHANGED <<code, pending, interrupts>>

\* ... and the operation it returns to fill it, which overwrites whatever is
\* there: with a value when the definition is Ready, else with a computation
\* that has no backup.
Fill(p, t) ==
  /\ tv[t].tag # "none"
  /\ \/ /\ At(p, "fillReady", t)
        /\ SetThunk(t, Forced(Result("main", t)))
     \/ /\ At(p, "fill", t)
        /\ SetThunk(t, Unforced(FALSE))
  /\ SetThread(p, Continue(p))
  /\ UNCHANGED <<code, pending, interrupts>>

-----------------------------------------------------------------------------
(***************************************************************************)
(* Sparks.                                                                 *)
(***************************************************************************)

Fork(p, q, t) ==
  /\ thread[q].mode = "unborn"
  /\ thread' = [thread EXCEPT ![p] = Continue(p),
                              ![q].mode = "claim",
                              ![q].target = t]

\* evalSpark of a Thunk: nothing to do for one that is evaluated, else a
\* thread is forked to force it.
Spark(p, t) ==
  /\ At(p, "spark", t)
  /\ tv[t].tag # "none"
  /\ IF Evaluated(t)
     THEN SetThread(p, Continue(p))
     ELSE \E q \in Thread : Fork(p, q, t)
  /\ UNCHANGED <<code, tv, pending, interrupts>>

\* evalSpark of an Eval: a new thunk without a backup, and a thread for it.
SparkNew(p, t) ==
  /\ At(p, "sparkNew", t)
  /\ tv[t] = None
  /\ SetThunk(t, Unforced(FALSE))
  /\ \E q \in Thread : Fork(p, q, t)
  /\ UNCHANGED <<code, pending, interrupts>>

\* What sparkThunk does when its transaction claims a thunk in one of the
\* states "claimed" and retries in those of "waiting".
SparkThunkIn(q, claimed, waiting) ==
  /\ thread[q].mode = "claim"
  /\ LET t == thread[q].target IN
     /\ tv[t].tag \notin waiting
     /\ IF tv[t].tag \in claimed
        THEN /\ SetThunk(t, UnderEvaluation(q, tv[t].backup))
             /\ SetThread(q, [thread[q] EXCEPT !.mode = "run",
                                               !.stack = <<NewFrame("main", t)>>])
        ELSE /\ SetThread(q, [thread[q] EXCEPT !.mode = "done"])
             /\ UNCHANGED tv
  /\ UNCHANGED <<code, pending, interrupts>>

SparkThunk_TakesClaimed(q) == SparkThunkIn(q, {"unforced", "under"}, {"void"})
SparkThunk_SkipsVoid(q) == SparkThunkIn(q, {"unforced"}, {})

\* sparkThunk's transaction.  It retries while the thunk is Void; it claims an
\* Unforced thunk; in any other state there is nothing to do.
SparkThunk(q) == SparkThunkIn(q, {"unforced"}, {"void"})

-----------------------------------------------------------------------------
(***************************************************************************)
(* unDelay: forcing a thunk.                                               *)
(***************************************************************************)

\* The thunk has been evaluated: return its value or throw its error.
ForceEvaluated(p, t) ==
  /\ At(p, "force", t)
  /\ Evaluated(t)
  /\ SetThread(p, IF tv[t].tag = "forced" THEN Continue(p)
                                          ELSE Raise(p, tv[t].result))
  /\ UNCHANGED <<code, tv, pending, interrupts>>

\* Claim the thunk and start its main computation.
ForceClaim(p, t) ==
  /\ At(p, "force", t)
  /\ tv[t].tag = "unforced"
  /\ SetThunk(t, UnderEvaluation(p, tv[t].backup))
  /\ SetThread(p, [thread[p] EXCEPT !.stack = Push(@, NewFrame("main", t))])
  /\ UNCHANGED <<code, pending, interrupts>>

ForceBackup_KeepsBackup(p, t) ==
  /\ At(p, "force", t)
  /\ tv[t].tag = "under" /\ tv[t].owner = p /\ tv[t].backup
  /\ SetThread(p, [thread[p] EXCEPT !.stack = Push(@, NewFrame("backup", t))])
  /\ UNCHANGED <<code, tv, pending, interrupts>>

\* This thread is evaluating the thunk: consume the backup and run it.
ForceBackup(p, t) ==
  /\ At(p, "force", t)
  /\ tv[t].tag = "under" /\ tv[t].owner = p /\ tv[t].backup
  /\ SetThunk(t, UnderEvaluation(p, FALSE))
  /\ SetThread(p, [thread[p] EXCEPT !.stack = Push(@, NewFrame("backup", t))])
  /\ UNCHANGED <<code, pending, interrupts>>

ForceLoop_AnyOwner(p, t) ==
  /\ At(p, "force", t)
  /\ tv[t].tag = "under" /\ ~tv[t].backup
  /\ SetThunk(t, ForcedErr(Result("loop", t)))
  /\ SetThread(p, Raise(p, Result("loop", t)))
  /\ UNCHANGED <<code, pending, interrupts>>

ForceLoop_OnStackOnly(p, t) ==
  /\ At(p, "force", t)
  /\ tv[t].tag = "under" /\ tv[t].owner = p /\ ~tv[t].backup
  /\ \E i \in 1..Len(thread[p].stack) : thread[p].stack[i].name = t
  /\ SetThunk(t, ForcedErr(Result("loop", t)))
  /\ SetThread(p, Raise(p, Result("loop", t)))
  /\ UNCHANGED <<code, pending, interrupts>>

\* This thread is evaluating the thunk and no backup is left: LoopError.
ForceLoop(p, t) ==
  /\ At(p, "force", t)
  /\ tv[t].tag = "under" /\ tv[t].owner = p /\ ~tv[t].backup
  /\ SetThunk(t, ForcedErr(Result("loop", t)))
  /\ SetThread(p, Raise(p, Result("loop", t)))
  /\ UNCHANGED <<code, pending, interrupts>>

\* The thunk was never filled: a panic, which is not an EvalErrorEx.
ForceVoid(p, t) ==
  /\ At(p, "force", t)
  /\ tv[t].tag = "void"
  /\ SetThread(p, Raise(p, Result("foreign", t)))
  /\ UNCHANGED <<code, tv, pending, interrupts>>

\* A thunk that another thread is evaluating has no action here: the
\* transaction retries until the thunk changes.

-----------------------------------------------------------------------------
(***************************************************************************)
(* Finishing a computation: doWork, and the end of sparkThunk.             *)
(***************************************************************************)

\* What becomes of thread p when frame f is removed from its stack and there
\* is a value: the frame below continues after its force.
Resume(p) ==
  LET rest == Pop(thread[p].stack) IN
  IF rest # <<>>
  THEN [thread[p] EXCEPT !.stack = Advance(rest)]
  ELSE [thread[p] EXCEPT !.stack = <<>>,
                         !.mode = IF p = Main THEN "idle" ELSE "done"]

\* The value reaches the thunk only at the bottom of a spark.
Return_BottomOnly(p) ==
  /\ Running(p)
  /\ AtEnd(p)
  /\ LET f == TopFrame(p) IN
     /\ BodyOf(f).end = "value"
     /\ IF f.kind = "command" \/ Len(thread[p].stack) > 1
        THEN UNCHANGED tv
        ELSE SetThunk(f.name, Forced(Result(f.kind, f.name)))
  /\ SetThread(p, Resume(p))
  /\ UNCHANGED <<code, pending, interrupts>>

\* The computation of the top frame returned a value: write it.
Return(p) ==
  /\ Running(p)
  /\ AtEnd(p)
  /\ LET f == TopFrame(p) IN
     /\ BodyOf(f).end = "value"
     /\ IF f.kind = "command"
        THEN UNCHANGED tv
        ELSE SetThunk(f.name, Forced(Result(f.kind, f.name)))
  /\ SetThread(p, Resume(p))
  /\ UNCHANGED <<code, pending, interrupts>>

\* The computation of the top frame throws.
Throw(p) ==
  /\ Running(p)
  /\ AtEnd(p)
  /\ LET f == TopFrame(p) IN
     /\ BodyOf(f).end # "value"
     /\ SetThread(p, Raise(p, Result(BodyOf(f).end, f.name)))
  /\ UNCHANGED <<code, tv, pending, interrupts>>

\* Thread p loses its top frame to the exception that unwinds its stack, and
\* the thunk, if it is one, is changed as "write" says.
UnwindWith(p, write) ==
  /\ thread[p].mode = "raise"
  /\ write
  /\ LET rest == Pop(thread[p].stack) IN
     SetThread(p, IF rest # <<>>
                  THEN [thread[p] EXCEPT !.stack = rest]
                  ELSE [thread[p] EXCEPT
                          !.stack = <<>>, !.exc = NoResult,
                          !.mode = IF p = Main THEN "idle" ELSE "done"])
  /\ UNCHANGED <<code, pending, interrupts>>

Stores(p) == TopFrame(p).kind # "command" /\ thread[p].exc.kind # "foreign"

Unwind_SparkForgets(p) ==
  UnwindWith(p, IF Stores(p) /\ Len(thread[p].stack) > 1
                THEN SetThunk(TopFrame(p).name, ForcedErr(thread[p].exc))
                ELSE UNCHANGED tv)

Unwind_ResetsThunk(p) ==
  UnwindWith(p, IF TopFrame(p).kind # "command"
                THEN SetThunk(TopFrame(p).name, Unforced(FALSE))
                ELSE UNCHANGED tv)

Unwind_CatchesAll(p) ==
  UnwindWith(p, IF TopFrame(p).kind # "command"
                THEN SetThunk(TopFrame(p).name, ForcedErr(thread[p].exc))
                ELSE UNCHANGED tv)

\* The exception reaches the X.try of the top frame.  An EvalErrorEx is
\* written to the thunk and thrown on; any other exception passes by, and the
\* thunk is left as it is.  At the bottom, Main goes back to its caller and a
\* spark's thread ends.
Unwind(p) ==
  UnwindWith(p, IF Stores(p)
                THEN SetThunk(TopFrame(p).name, ForcedErr(thread[p].exc))
                ELSE UNCHANGED tv)

\* CTRL^C: an asynchronous exception in Main, wherever it is.
Interrupt ==
  /\ interrupts < MaxInterrupts
  /\ thread[Main].mode \in {"run", "raise"}
  /\ SetThread(Main, Raise(Main, Result("foreign", NoThread)))
  /\ interrupts' = interrupts + 1
  /\ UNCHANGED <<code, tv, pending>>

-----------------------------------------------------------------------------
\* One step of the computation thread p is running.
Step(p) ==
  \/ \E t \in Thunk :
       \/ Delay(p, t) \/ Blackhole(p, t) \/ Fill(p, t)
       \/ Spark(p, t) \/ SparkNew(p, t)
       \/ ForceEvaluated(p, t) \/ ForceClaim(p, t) \/ ForceBackup(p, t)
       \/ ForceLoop(p, t) \/ ForceVoid(p, t)
  \/ SparkThunk(p)
  \/ Return(p)
  \/ Throw(p)
  \/ Unwind(p)

\* Nothing left to do: the last command has ended and so has every thread.
Quiescent ==
  /\ pending = {}
  /\ thread[Main].mode = "idle"
  /\ \A p \in Thread \ {Main} : thread[p].mode \in {"unborn", "done"}
  /\ UNCHANGED vars

Next ==
  \/ \E c \in Command : RunCommand(c)
  \/ \E p \in Thread : Step(p)
  \/ Interrupt
  \/ Quiescent

Spec == Init /\ [][Next]_vars

\* The scheduler of the runtime runs every thread that can run.
FairSpec == Spec /\ \A p \in Thread : WF_vars(Step(p))

-----------------------------------------------------------------------------
(***************************************************************************)
(* Properties.                                                             *)
(***************************************************************************)

VarTypes ==
  /\ code \in CodeTable
  /\ tv \in [Thunk -> ThunkState]
  /\ thread \in [Thread -> ThreadState]
  /\ pending \in SUBSET Command
  /\ interrupts \in 0..MaxInterrupts

\* What the constructors of ThunkState carry.
CellFits(t) ==
  /\ tv[t].tag = "under" => tv[t].owner \in Thread
  /\ tv[t].tag = "forced" => tv[t].result \in {Result("main", t), Result("backup", t)}
  /\ tv[t].tag = "forcedErr" => tv[t].result.kind \in {"user", "loop"}
  /\ ~Evaluated(t) => tv[t].result = NoResult

\* Every variable has its type.  A claimed thunk names its claimant; a thunk with
\* a value has that of one of its own computations; one that failed holds an
\* EvalErrorEx, of its own or of a thunk it forced, and never CTRL^C or another
\* exception, which belongs to whoever was cut short and not to the thunk; and
\* there is no outcome before the evaluation.
TypeOK == VarTypes /\ (\A t \in Thunk : CellFits(t))

\* Thread p has, at position i of its stack, a frame that runs the computation
\* of kind k of thunk t.
Runs(p, i, k, t) ==
  /\ i \in 1..Len(thread[p].stack)
  /\ thread[p].stack[i].kind = k
  /\ thread[p].stack[i].name = t

\* Sharing: a computation of a thunk is never in progress twice, neither in
\* two threads nor twice in one.  Two threads that reach an unforced thunk
\* together, a spark and a force that race for it, and a force from within its
\* own evaluation all have to be told apart by the transaction that claims it.
OneEvaluator ==
  \A t \in Thunk, k \in {"main", "backup"}, p, q \in Thread :
    \A i \in 1..Len(thread[p].stack), j \in 1..Len(thread[q].stack) :
      Runs(p, i, k, t) /\ Runs(q, j, k, t) => p = q /\ i = j

\* "This thunk is currently being evaluated by the thread with the given thread
\* ID": a claimed thunk has a claimant that is working on it, so a thread that
\* waits for the thunk waits for something.
OwnerWorks ==
  \A t \in Thunk :
    tv[t].tag = "under" =>
      \E i \in 1..Len(thread[tv[t].owner].stack) :
        Runs(tv[t].owner, i, "main", t)

\* The operation that fills a hole is applied once, to a hole nobody filled.
FillsHole ==
  \A p \in Thread, t \in Thunk :
    At(p, "fill", t) \/ At(p, "fillReady", t) => tv[t].tag = "void"

\* The holes of a recursive group are filled once, and no thunk of it is forced
\* before the group is complete, which would be a panic.
HolesFilledInTime ==
  /\ FillsHole
  /\ \A p \in Thread, t \in Thunk : At(p, "force", t) => tv[t].tag # "void"

\* Before its k-th operation a body has done o on thunk t; has made thunks; has
\* made t as a hole and not filled it.
Did(body, k, o, t) ==
  \E i \in 1..Len(body.ops) : i < k /\ body.ops[i] = [op |-> o, on |-> t]
MadeBy(body, k) == {t \in Thunk : \E o \in {"delay", "sparkNew", "hole"} : Did(body, k, o, t)}
OpenHole(body, k, t) ==
  /\ Did(body, k, "hole", t)
  /\ ~Did(body, k, "fill", t) /\ ~Did(body, k, "fillReady", t)

\* What a computation can get hold of, lexically: env.scope[t] are the thunks
\* that the computation of t is given, env.gives[t] those that its value holds.
\* A body knows what it was given (known) and what the values that it has forced
\* hold.  What it has made is in its reach when no hole is open.
Knows(body, k, known, env) ==
  known \cup UNION {env.gives[t] : t \in {u \in Thunk : Did(body, k, "force", u)}}
InReach(body, k, known, env) ==
  Knows(body, k, known, env)
    \cup (IF \E t \in Thunk : OpenHole(body, k, t) THEN {} ELSE MadeBy(body, k))

\* A body forces what is in its reach, fills its own holes once, and gives away
\* what it knows and has made; a spark that starts at once gets what is in reach.
KeepsScope(body, known, env) ==
  \A k \in 1..Len(body.ops), t \in Thunk :
    LET here(o) == body.ops[k] = [op |-> o, on |-> t]
        reach == InReach(body, k, known, env)
        holds == Knows(body, k, known, env) \cup MadeBy(body, k)
    IN  /\ here("force") => t \in reach
        /\ here("spark") => t \in reach \/ env.scope[t] \subseteq reach
        /\ here("sparkNew") => env.scope[t] \subseteq reach
        /\ here("delay") \/ here("fill") => env.scope[t] \subseteq holds
        /\ here("fillReady") => env.scope[t] \cup env.gives[t] \subseteq holds
        /\ here("fill") \/ here("fillReady") => OpenHole(body, k, t)

Scoped(table, env) ==
  /\ \A t \in table.existing : env.scope[t] \subseteq table.existing
  /\ \A c \in Command : KeepsScope(table.command[c], table.existing, env)
  /\ \A t \in Thunk :
     \A body \in {table.main[t]} \cup (IF t \in table.hasBackup THEN {table.backup[t]} ELSE {}) :
       /\ KeepsScope(body, env.scope[t], env)
       /\ body.end = "value" =>
            env.gives[t] \subseteq InReach(body, Len(body.ops) + 1, env.scope[t], env)

\* The computations of a table get hold of thunks as those of the evaluator do:
\* from their environment, from values, and from evalDeclGroup, which gives out
\* a recursive group when all of its holes are filled (Eval.hs:313-339).
LexicallyScoped(table) ==
  \E scope, gives \in [Thunk -> SUBSET Thunk] :
    Scoped(table, [scope |-> scope, gives |-> gives])

\* Thread p waits, in unDelay, for the thunk that thread q has claimed.
WaitsFor(p, q) ==
  \E t \in Thunk : /\ At(p, "force", t)
                   /\ tv[t].tag = "under"
                   /\ tv[t].owner = q
                   /\ p # q

\* No computation of the table is cut short: none throws an exception that
\* X.try lets pass, and nobody has interrupted Main.
NothingCutShort ==
  /\ interrupts = 0
  /\ \A t \in Thunk : code.main[t].end # "foreign" /\ code.backup[t].end # "foreign"

\* The thunks that a computation of thunk t may force.
Forces(t) ==
  {u \in Thunk :
     \E k \in {"main", "backup"} :
       LET body == BodyOf(NewFrame(k, t))
       IN \E i \in 1..Len(body.ops) : body.ops[i] = [op |-> "force", on |-> u]}

\* Thunk t depends on itself: it is in every set that holds what it forces and
\* all that these force.
DependsOnItself(t) ==
  \A S \in SUBSET Thunk :
    Forces(t) \subseteq S /\ (\A u \in S : Forces(u) \subseteq S) => t \in S

\* The threads of S wait for each other in a circle (or for one that does): each
\* waits for another of them.
WaitCycle(S) ==
  /\ S # {}
  /\ \A p \in S : \E q \in S : WaitsFor(p, q)

\* Threads wait for each other in a circle only in a loop: as long as nothing is
\* cut short, one of them forces a thunk that really depends on itself.  Several
\* threads that share thunks, each working on one that another needs, never come
\* to a standstill over thunks that one thread alone could have evaluated.  (A
\* loop that runs through several threads is not found by "is this thunk being
\* evaluated by me?", and they do wait.)
WaitCycleIsLoop ==
  NothingCutShort =>
    \A S \in SUBSET Thread :
      WaitCycle(S) => \E p \in S, t \in Thunk : At(p, "force", t) /\ DependsOnItself(t)

\* How far a thunk has got in its life.
Order == [none |-> 0, void |-> 1, unforced |-> 2, under |-> 3,
          forced |-> 4, forcedErr |-> 4]

Rank(s) == Order[s.tag]

\* A thunk goes through its states in one direction.  In particular a thunk
\* that has been claimed is never unforced again, so its main computation
\* starts at most once, whoever is interrupted or dies.
LifecycleOrder == [][\A t \in Thunk : Rank(tv[t]) <= Rank(tv'[t])]_vars

\* The outcome of a thunk is final: whoever forces it later gets the value or
\* the error that the first one got.  A LoopError is written where the loop is
\* found and again where the exception passes the claimant's frame, and both
\* have to be the same.  (A thunk with a backup is excepted: the main
\* computation may finish after the backup and overwrite its result.)
ResultFinal ==
  [][\A t \in Thunk : Evaluated(t) /\ t \notin code.hasBackup
                        => tv'[t] = tv[t]]_vars

\* A backup runs inside the main computation of its thunk, in the same thread,
\* and is used up by then: a second loop finds no backup and ends in LoopError.
\* (A thunk that was left claimed runs its backup when it is forced again.)
BackupInsideMain ==
  \A t \in Thunk, p \in Thread :
    \A i \in 1..Len(thread[p].stack) :
      Runs(p, i, "backup", t) =>
        /\ ~tv[t].backup
        /\ NothingCutShort => \E j \in 1..(i - 1) : Runs(p, j, "main", t)

\* "Detectable nontermination": as long as no computation has been cut short,
\* a LoopError is thrown only for a thunk that really depends on itself, and
\* never because two threads meet at one.
LoopIsReal ==
  NothingCutShort =>
    \A t \in Thunk :
      tv[t].result.kind = "loop" => DependsOnItself(tv[t].result.of)

\* Every command ends, with an answer or with an error, whatever the sparks do
\* in the meantime.
CommandsEnd == (thread[Main].mode # "idle") ~> (thread[Main].mode = "idle")

\* The thread that runs the commands is the only one.
Sparkless ==
  \A c \in Command : \A i \in 1..Len(code.command[c].ops) :
    code.command[c].ops[i].op \notin {"spark", "sparkNew"}

\* Without sparks every command ends however often it, and those before it,
\* were cut short: a thunk that was left claimed is taken for a loop, not
\* waited for.
LoneCommandsEnd ==
  (Sparkless /\ thread[Main].mode # "idle") ~> (thread[Main].mode = "idle")

\* Every spark ends, and its thunk gets evaluated, by the spark itself or by
\* whoever claimed it first: also a spark of a hole that has yet to be filled,
\* and one whose computation fails, so that nobody waits for the thunk in vain.
SparksEnd ==
  \A p \in Thread \ {Main} :
    (thread[p].mode = "claim")
      ~> (thread[p].mode = "done" /\ Evaluated(thread[p].target))

=============================================================================
