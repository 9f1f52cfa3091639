------------------------------ MODULE TCSolver ------------------------------
(***************************************************************************)
(* The SMT solver of the type checker, as the REPL keeps it                *)
(* (src/Cryptol/TypeCheck/Solver/SMT.hs, src/Cryptol/REPL/Monad.hs).       *)
(*                                                                         *)
(* The REPL starts a solver process when a command needs one and keeps it  *)
(* for the commands after it, which talk to it in balanced push and pop    *)
(* scopes.  The process can die at any moment; a thread of the SMT library *)
(* then calls onExit, which forgets the solver in the REPL's state.  CTRL^C *)
(* can reach the REPL's thread anywhere, except in a handler.              *)
(*                                                                         *)
(* What is asserted in a scope and what the solver answers is left out.    *)
(* An exception that is not a REPLException ends the session.  Operators   *)
(* with a suffix after the name of another are mistaken versions of it.    *)
(***************************************************************************)
EXTENDS Naturals, Sequences

CONSTANTS
  Config,         \* values of eTCConfig
  MaxProcesses,   \* bound: how many solver processes are started
  MaxGoals        \* bound: how many goals a call of proveImp is given

BoundsAssumption == MaxProcesses \in Nat /\ MaxGoals \in Nat

ASSUME BoundsAssumption

\* Solver processes in the order in which they are started.
Process == 1..MaxProcesses
NoSolver == 0

VARIABLES
  eTCSolver, eTCSolverRestarts, eTCConfig,   \* fields of the REPL's RW
  process,   \* process[k]: a solver process and the pipe to it
  repl,      \* what the REPL's thread is doing
  lost       \* the processes whose start was not finished

rw == <<eTCSolver, eTCSolverRestarts, eTCConfig>>
vars == <<rw, process, repl, lost>>

-----------------------------------------------------------------------------
(***************************************************************************)
(* What SMT.hs says to the solver: requests, each with the number of       *)
(* scopes that the function that sends it has opened by then.              *)
(***************************************************************************)
Request == [kind : {"push", "check", "pop"}, depth : 0..2]
Req(k, d) == [kind |-> k, depth |-> d]

\* prove, unsolvable, tryGetModel: a question in a scope of its own.
Question(d) == <<Req("push", d), Req("check", d + 1), Req("pop", d + 1)>>

\* A scope for the variables and assumptions, and a question for each of n
\* goals.
proveImp(n) ==
  [i \in 1..(3 * n + 2) |->
     IF i = 1 THEN Req("push", 0)
     ELSE IF i = 3 * n + 2 THEN Req("pop", 1)
     ELSE Question(1)[((i - 2) % 3) + 1]]

checkUnsolvable == proveImp(1)

\* Closes its scope early when there is nothing to ask the model for.
tryGetModel_PopsTwice == Append(Question(0), Req("pop", 1))

tryGetModel == Question(0)

Conversations == {proveImp(n) : n \in 0..MaxGoals} \cup {checkUnsolvable, tryGetModel}

-----------------------------------------------------------------------------
(***************************************************************************)
(* State.                                                                  *)
(***************************************************************************)

\* gen: the value of "now" in the closure onExit.  scopes: how many are open.
\* unread: answers in the pipe.  watched: the library's thread has yet to call
\* onExit.
SolverProcess == [state : {"unused", "live", "dead"}, gen : Nat,
                  config : Config, scopes : Nat, unread : Nat, watched : BOOLEAN]

\* idle: at the prompt.  setup, store: in startSolver, and back from it.
\* talk: in a command that has its solver.  stop, clear: in resetTCSolver.
Modes == {"idle", "setup", "store", "talk", "stop", "clear", "over"}

\* solver: the one in the command's hands.  todo: the rest of a conversation.
\* waiting: the first request was sent.  after: the mode after resetTCSolver.
\* masked: in a handler, which CTRL^C does not interrupt.
ReplThread == [mode : Modes, solver : Process \cup {NoSolver}, todo : Seq(Request),
               waiting : BOOLEAN, after : {"idle", "over"}, masked : BOOLEAN]

Idle == [mode |-> "idle", solver |-> NoSolver, todo |-> <<>>,
         waiting |-> FALSE, after |-> "idle", masked |-> FALSE]
Resetting(after, masked) ==
  [Idle EXCEPT !.mode = "stop", !.after = after, !.masked = masked]

\* A process that has ended: nobody reads what is left in its pipe.
Ended(k) ==
  process' = [process EXCEPT ![k].state = "dead", ![k].scopes = 0, ![k].unread = 0]

Live(k) == process[k].state = "live"
Dead(k) == process[k].state = "dead"

Init ==
  /\ eTCSolver = NoSolver /\ eTCSolverRestarts = 0 /\ eTCConfig \in Config
  /\ process = [k \in Process |->
                  [state |-> "unused", gen |-> 0, config |-> eTCConfig,
                   scopes |-> 0, unread |-> 0, watched |-> FALSE]]
  /\ repl = Idle
  /\ lost = {}

-----------------------------------------------------------------------------
(***************************************************************************)
(* Commands: getTCSolver, then any number of conversations.                *)
(***************************************************************************)
Talk(k, s) == [Idle EXCEPT !.mode = "talk", !.solver = k, !.todo = s]

\* getTCSolver when there is one.
GetSolver ==
  /\ repl.mode = "idle" /\ eTCSolver # NoSolver
  /\ repl' = Talk(eTCSolver, <<>>)
  /\ UNCHANGED <<rw, process, lost>>

NextProcess(k) ==
  process[k].state = "unused" /\ \A j \in Process : j < k => process[j].state # "unused"

Spawned(gen) == [state |-> "live", gen |-> gen, config |-> eTCConfig,
                 scopes |-> 0, unread |-> 0, watched |-> TRUE]

\* The closure compares with the present count.
StartSolver_SameCount ==
  /\ repl.mode = "idle" /\ eTCSolver = NoSolver
  /\ \E k \in Process :
       /\ NextProcess(k)
       /\ process' = [process EXCEPT ![k] = Spawned(eTCSolverRestarts)]
       /\ repl' = [Idle EXCEPT !.mode = "setup", !.solver = k]
  /\ UNCHANGED <<rw, lost>>

\* getTCSolver when there is none: startSolver creates the process ...
StartSolver ==
  /\ repl.mode = "idle" /\ eTCSolver = NoSolver
  /\ \E k \in Process :
       /\ NextProcess(k)
       /\ process' = [process EXCEPT ![k] = Spawned(eTCSolverRestarts + 1)]
       /\ repl' = [Idle EXCEPT !.mode = "setup", !.solver = k]
  /\ UNCHANGED <<rw, lost>>

\* ... setupSolver loads the definitions of the type checker ...
SetupSolver ==
  /\ repl.mode = "setup" /\ Live(repl.solver)
  /\ repl' = [repl EXCEPT !.mode = "store"]
  /\ UNCHANGED <<rw, process, lost>>

\* ... or does not: the file with the definitions cannot be read or parsed.  Of
\* this exception, too, only the bracket of runREPL takes notice, and that does
\* not know of the process.
SetupFails ==
  /\ repl.mode = "setup" /\ Live(repl.solver)
  /\ repl' = Resetting("over", TRUE)
  /\ lost' = lost \cup {repl.solver}
  /\ UNCHANGED <<rw, process>>

\* Without the number of the solver.
StoreSolver_KeepsCount ==
  /\ repl.mode = "store"
  /\ eTCSolver' = repl.solver
  /\ repl' = Talk(repl.solver, <<>>)
  /\ UNCHANGED <<eTCSolverRestarts, eTCConfig, process, lost>>

\* ... and getTCSolver stores the solver, dead or alive.
StoreSolver ==
  /\ repl.mode = "store"
  /\ eTCSolver' = repl.solver
  /\ eTCSolverRestarts' = process[repl.solver].gen
  /\ repl' = Talk(repl.solver, <<>>)
  /\ UNCHANGED <<eTCConfig, process, lost>>

\* The command checks something else, or ends.
Converse ==
  /\ repl.mode = "talk" /\ repl.todo = <<>>
  /\ \/ \E s \in Conversations : repl' = Talk(repl.solver, s)
     \/ repl' = Idle
  /\ UNCHANGED <<rw, process, lost>>

Scopes(r, n) ==
  IF r.kind = "push" THEN n + 1 ELSE IF r.kind = "pop" THEN n - 1 ELSE n

\* The next request reaches the solver, which answers it.
Send ==
  /\ repl.mode = "talk" /\ repl.todo # <<>> /\ ~repl.waiting
  /\ Live(repl.solver)
  /\ process' = [process EXCEPT
                   ![repl.solver].scopes = Scopes(Head(repl.todo), @),
                   ![repl.solver].unread = @ + 1]
  /\ repl' = [repl EXCEPT !.waiting = TRUE]
  /\ UNCHANGED <<rw, lost>>

\* The answer is read.
Receive ==
  /\ repl.mode = "talk" /\ repl.waiting
  /\ Live(repl.solver)
  /\ process' = [process EXCEPT ![repl.solver].unread = @ - 1]
  /\ repl' = [repl EXCEPT !.waiting = FALSE, !.todo = Tail(@)]
  /\ UNCHANGED <<rw, lost>>

\* The solver does not answer any more: an exception that only the bracket of
\* runREPL handles.
SolverGone ==
  /\ repl.mode = "setup" \/ (repl.mode = "talk" /\ repl.todo # <<>>)
  /\ Dead(repl.solver)
  /\ repl' = Resetting("over", TRUE)
  /\ UNCHANGED <<rw, process, lost>>

\* :set tc-solver, :set tc-debug with a new value.
SetOption(c) ==
  /\ repl.mode = "idle"
  /\ eTCConfig' = c
  /\ repl' = Resetting("idle", FALSE)
  /\ UNCHANGED <<eTCSolver, eTCSolverRestarts, process, lost>>

Quit ==
  /\ repl.mode = "idle"
  /\ repl' = Resetting("over", TRUE)
  /\ UNCHANGED <<rw, process, lost>>

-----------------------------------------------------------------------------
(***************************************************************************)
(* resetTCSolver.                                                          *)
(***************************************************************************)

\* Without waiting for the process.
StopSolver_NoWait ==
  /\ repl.mode = "stop"
  /\ repl' = IF eTCSolver = NoSolver THEN [Idle EXCEPT !.mode = repl.after]
                                     ELSE [repl EXCEPT !.mode = "clear"]
  /\ UNCHANGED <<rw, process, lost>>

\* stopSolver, which returns when the process has ended.
StopSolver ==
  /\ repl.mode = "stop"
  /\ IF eTCSolver = NoSolver
     THEN repl' = [Idle EXCEPT !.mode = repl.after] /\ UNCHANGED process
     ELSE /\ Ended(eTCSolver)
          /\ repl' = [repl EXCEPT !.mode = "clear"]
  /\ UNCHANGED <<rw, lost>>

ClearSolver ==
  /\ repl.mode = "clear"
  /\ eTCSolver' = NoSolver
  /\ repl' = [Idle EXCEPT !.mode = repl.after]
  /\ UNCHANGED <<eTCSolverRestarts, eTCConfig, process, lost>>

-----------------------------------------------------------------------------
(***************************************************************************)
(* What comes from outside.                                                *)
(***************************************************************************)
Interruptible ==
  \/ repl.mode \in {"idle", "setup", "store", "talk"}
  \/ repl.mode \in {"stop", "clear"} /\ ~repl.masked

\* The process of a start that is not finished.
Unstored == IF repl.mode \in {"setup", "store"} THEN {repl.solver} ELSE {}

\* A handler that leaves the solver as it is.
handleCtrlC_KeepsSolver ==
  /\ Interruptible
  /\ repl' = Idle
  /\ lost' = lost \cup Unstored
  /\ UNCHANGED <<rw, process>>

\* CTRL^C: the command is given up and handleCtrlC resets the solver.
handleCtrlC ==
  /\ Interruptible
  /\ repl' = Resetting("idle", TRUE)
  /\ lost' = lost \cup Unstored
  /\ UNCHANGED <<rw, process>>

\* A solver process dies.
Die(k) ==
  /\ Live(k)
  /\ Ended(k)
  /\ UNCHANGED <<rw, repl, lost>>

\* onExit: forget the solver, unless another one was stored after it.
OnExit(k) ==
  /\ Dead(k) /\ process[k].watched
  /\ process' = [process EXCEPT ![k].watched = FALSE]
  /\ eTCSolver' = IF eTCSolverRestarts = process[k].gen THEN NoSolver ELSE eTCSolver
  /\ UNCHANGED <<eTCSolverRestarts, eTCConfig, repl, lost>>

\* The session has ended and there is no thread left.
Over == repl.mode = "over" /\ (\A k \in Process : ~process[k].watched) /\ UNCHANGED vars

Next ==
  \/ GetSolver \/ StartSolver \/ SetupSolver \/ SetupFails \/ StoreSolver
  \/ Converse \/ Send \/ Receive \/ SolverGone
  \/ (\E c \in Config : SetOption(c)) \/ Quit
  \/ StopSolver \/ ClearSolver \/ handleCtrlC
  \/ (\E k \in Process : Die(k) \/ OnExit(k))
  \/ Over

Spec == Init /\ [][Next]_vars

\* The runtime runs the thread that waits for a process.
FairSpec == Spec /\ \A k \in Process : WF_vars(OnExit(k))

-----------------------------------------------------------------------------
(***************************************************************************)
(* Properties.                                                             *)
(***************************************************************************)

\* Every variable has its type.
TypeOK ==
  /\ eTCSolver \in Process \cup {NoSolver}
  /\ eTCSolverRestarts \in Nat
  /\ eTCConfig \in Config
  /\ process \in [Process -> SolverProcess]
  /\ repl \in ReplThread
  /\ lost \in SUBSET Process

\* A request finds the solver as the function that sends it has left it: in the
\* scopes that this function opened and no other, with no answer to an earlier
\* request in the pipe, and running with the options in force.  Commands before
\* it that were interrupted between a push and its pop, or between a request and
\* its answer, must not show.
FreshConversation ==
  repl.mode = "talk" /\ ~repl.waiting /\ repl.todo # <<>> /\ Live(repl.solver) =>
    /\ process[repl.solver].scopes = Head(repl.todo).depth
    /\ process[repl.solver].unread = 0
    /\ process[repl.solver].config = eTCConfig

\* Process j, whose start was not finished, has ended and has called back, and
\* process k had been given the same number.
TakenFor(j, k) ==
  j \in lost /\ Dead(j) /\ ~process[j].watched /\ process[j].gen = process[k].gen

\* No process is left over: one that lives is the solver that the REPL knows, or
\* the one it is about to store, and after the session, however it ended, none
\* does.  Not so for a process whose start was cut short, by CTRL^C or because
\* the definitions could not be loaded, which nobody has; and for a solver that
\* the REPL has forgotten because such a process had the same number.
NoOrphans ==
  \A k \in Process :
    Live(k) => \/ repl.mode # "over" /\ k = eTCSolver
               \/ repl.mode \in {"setup", "store"} /\ k = repl.solver
               \/ k \in lost
               \/ \E j \in Process : TakenFor(j, k)

\* eTCSolverRestarts is "a kind of id for the current solver, which helps avoid a
\* race condition where the callback of a dead solver runs after a new one has
\* been started": a solver is forgotten only when its own process has ended.
OnlyOwnCallback ==
  [][eTCSolver # NoSolver /\ eTCSolver' = NoSolver => Dead(eTCSolver)]_vars

\* The same, except for the solver that has the number of a process whose start
\* was cut short and that has ended now.  (Such a start does not count as a
\* restart, so that the next one gets its number.)
ForgetsOnlyTheDead ==
  [][eTCSolver # NoSolver /\ eTCSolver' = NoSolver =>
       \/ Dead(eTCSolver)
       \/ \E j \in lost : Dead(j) /\ process[j].gen = process[eTCSolver].gen]_vars

\* A solver that the REPL holds, that has died, and whose end nobody will report.
Zombie == eTCSolver # NoSolver /\ Dead(eTCSolver) /\ ~process[eTCSolver].watched

\* The end of the solver goes unnoticed only if it comes before the solver is
\* stored, between startSolver and modifyRW_.
NoticesTheEnd == [][~Zombie /\ Zombie' => repl.mode = "store"]_vars

\* A stored solver that dies is forgotten, so that the next command starts
\* another one.
DeadSolverForgotten ==
  \A k \in Process :
    (eTCSolver = k /\ Dead(k) /\ ~Zombie) ~> (eTCSolver # k)
=============================================================================
