# Cryptol in TLA+

Formal models of parts of Cryptol (this repository) whose correctness depends on
the order of things (threads, calls, failures) or on arithmetic at its
boundaries. The modules are written in TLA+, checked with TLC on small
instances, and proved about with TLAPS where a result should hold for every
instance. Paths below are relative to the root of the repository.

1. [The system](#1-the-system)
2. [What is modelled, and how](#2-what-is-modelled-and-how)
3. [Runs](#3-runs)
4. [Fairness](#4-fairness)
5. [Proofs](#5-proofs)
6. [Disagreements between the code and what it says](#6-disagreements-between-the-code-and-what-it-says)
7. [Not modelled](#7-not-modelled)
8. [Plan](#8-plan)

To check a run: `tlc -workers 2 -config MCHardThunks_hard.cfg MCHardThunks.tla`. To
check a proof: `tlapm ThunksProofs.tla`.

## 1. The system

Cryptol is a language for cryptographic algorithms, with a type checker that
does arithmetic on sizes, an interpreter, a symbolic prover front end, a REPL
and a JSON-RPC server with a Python client.

### 1.1 Components

| Component | State it keeps | Operations | Correct when | What makes it hard |
|---|---|---|---|---|
| **Evaluator thunks**, `src/Cryptol/Backend/Monad.hs` | a `TVar (ThunkState a)` per delayed computation | `delayFill`, `blackhole` and its fill, `evalSpark`, `unDelay`, `runEval` | each computation runs at most once; a result never changes; loops are found, and only loops; waiting ends | threads race for a thunk; a computation forces itself; exceptions and CTRL^C cut it short |
| **Sequence maps**, `src/Cryptol/Backend/SeqMap.hs` | memo table and evaluation closure, two `IORef`s | `memoMap`, `lookupSeqMap` | a lookup answers with the element; the closure is dropped only when nobody needs it | both cells are read and written, without a lock, by several sparks |
| **Module loader**, `src/Cryptol/ModuleSystem.hs`, `ModuleSystem/Base.hs`, `Monad.hs`, `Env.hs` | loaded modules and functors, focus, evaluation environment, search path, loading stack | `loadModuleByPath`, `loadModuleByName`, and below them find, parse, dependencies, check, record | modules are recorded after what they import, once; only success changes the session | recursion over dependencies; cycles; failure half way; files that change during a load |
| **Solver of the type checker**, `src/Cryptol/TypeCheck/Solver/SMT.hs`, `REPL/Monad.hs` | a solver process with a stack of scopes; a counter of starts | `getTCSolver`, `resetTCSolver`, `proveImp`, `checkUnsolvable`, `tryGetModel`, `onExit` | a request never meets what another left behind; no process leaks; a dead one is noticed | scopes left open by CTRL^C; a process that dies; the late callback of an old process |
| **Numeric constraints**, `src/Cryptol/TypeCheck/Solver/Numeric*.hs`, `InfNat.hs`, `SimpType.hs`, `SimpleSolver.hs`, `Solve.hs` | intervals of type variables; the goals still to solve | `computePropIntervals`, `simplifyStep`, `quickSolver` | a goal called solved holds, one called unsolvable does not; rewriting ends | infinity, partial operations, rules whose first match wins |
| **REPL session**, `src/Cryptol/REPL/Command.hs`, `REPL/Monad.hs`, `cryptol/REPL/Haskeline.hs` | module environment, loaded and edited file, declarations of the prompt, `it`, options | `:load`, `:reload`, `:module`, `:edit`, declarations, expressions | the fields agree with each other after any command, however it ends | a command is a sequence of updates; errors and CTRL^C between them |
| **Values, types and questions of the Python client**, `cryptol-remote-api/python/cryptol`: `bitvector.py`, `cryptoltypes.py`, `commands.py`, `solver.py`; on the server `Data/Expression.hs`, `Data/Type.hs`, `Check.hs`, `Sat.hs` | none; the vectors, values and types of a script | methods of `BV`; `to_cryptol`, `from_cryptol_arg`, `to_type`, `to_schema`; `check`, `prove`, `sat`, `safe` | a vector is a sequence of bits and an integer modulo 2 ^^ size; a value or type means the same on both sides; an answer is not taken for another | sizes of zero and no multiple of 8; negative integers; one vocabulary spelled three times |
| **Connections and server sessions**, `connection.py`; on the server `CryptolServer.hs`, `Main.hs`, `LoadModule.hs`, `EvalExpr.hs`, `ClearState.hs` | per connection its latest command; on the server the states, by id, each with the module environment and the names of opaque values; one solver process for all | `connect`, commands, `reset`, `reset_server`; `clear state`, `clear all states` | each connection has a session of its own, which only a reset or a restart takes away | old states stay; resets that nobody waits for; answers to forgotten commands; commands that fail half way |
| **Prover front end**, `src/Cryptol/Symbolic/SBV.hs`, `What4.hs` | a portfolio of solver processes; scopes of one process | `:prove`, `:sat`, `:safe` | the first conclusive answer wins, the losers are stopped, models differ | a race; failures of some solvers; enumeration by push and pop |
| **Testing**, `src/Cryptol/Testing/Random.hs` | generator, counts | `:check`, `:exhaust` | exhaustive exactly when every value is tried | the sizes of types |
| **Layout**, `src/Cryptol/Parser/Layout.hs` | a stack of blocks, a cached column | `layout` | the virtual tokens balance | explicit blocks in implicit ones |
| **Type inference, unification, substitution**, `src/Cryptol/TypeCheck` | substitution, goals, scopes | `inferE`, `mgu`, `apSubst`, ... | the invariants of a substitution | recursion over syntax |
| **Renamer, evaluator primitives, symbolic backends, transformations, algorithms** | none, or a name supply | functions of syntax trees and values | the function's meaning | data, not control |

### 1.2 How they interact

- The REPL and the server call the **module loader** for `:load`; the loader
  calls parser, renamer and **type checker**, then the evaluator
  (`evalDecls`), and returns a new module environment or an error. The REPL
  replaces its environment only on success.
- The type checker first runs the **numeric** rules (`quickSolver`), and gives
  what they leave to the **solver process**. The REPL keeps that process in its
  state for the next command; the SMT library calls the REPL back (`onExit`)
  when the process ends; the reset on CTRL^C starts over.
- The **client** sends a command with the id of the state it starts from, and
  the answer has the id of the state it led to. The server hands it to the
  module loader or the evaluator and keeps every state that it does not clear.
  Values cross the wire as JSON, which each side writes and reads for itself;
  one that JSON cannot hold stays on the server under a name in the state.
- An expression is evaluated by `runEval` in the REPL's thread. Delayed values
  are **thunks**; `parmap` starts a **spark** (a thread) for each element, and
  sparks share thunks and **memoised sequence maps** with the thread that
  forces them.
- CTRL^C is an exception thrown to the REPL's thread only. Sparks never see it
  and outlive the command. A claimed thunk that is interrupted stays claimed,
  and so does the state that the next command starts from.

### 1.3 Hard behaviours

`PROJECT.json` lists them at their lines, under `hazards`. The main ones:
races for a thunk and for the two cells of a sequence map; waiting in a circle;
a computation cut short between claim and result; files that change between
`findModule` and `parseModule`; a load that fails half way; a solver process
with scopes of an earlier command; a callback of a process that was replaced;
intervals that lose solutions; rewriting rules that undo each other; vectors
whose size is zero or no multiple of 8; a reset or a late answer that meets the
next command of a connection, or a command of another.

## 2. What is modelled, and how

| Module | Models | |
|---|---|---|
| `Thunks` | `Backend/Monad.hs` | threads, thunks, exceptions, CTRL^C |
| `MemoSeqMap`, `PureSeq` | `Backend/SeqMap.hs` | the detailed and the abstract sequence |
| `ModuleText`, `ModuleLoader`, `AtomicLoad` | `ModuleSystem*` | what a load reads; how it works; what it promises |
| `TCSolver` | `Solver/SMT.hs`, `REPL/Monad.hs`, `REPL/Command.hs` | the solver's life and conversations |
| `InfNat`, `Intervals`, `SimpType`, `NumericRules`, `QuickSolver`, `NumericSolver` | `TypeCheck/Solver`, `Solve.hs`, `SimpType.hs` | numeric constraints |
| `BitVec` | `bitvector.py` | the methods of `BV` |
| `VectorJSON`, `CryptolJSON`, `CryptolTypes`, `Commands` | `cryptoltypes.py`, `commands.py`, `solver.py`, and the server's conversions | values, types and questions on the wire |
| `VectorScript` | a script that calls the methods of `BV` | one call after another on a vector |
| `ClientScript` | a script that calls the rest as well | the calls that reach the server |
| `CryptolSession` | what the server's commands do to a state | module in focus, search path, names of opaque values |
| `RemoteSession`, `AbstractSession` | `connection.py`, `CryptolServer.hs`, `Main.hs`, `ClearState.hs` | how sessions are kept; what the client promises |
| `MC<X>` | – | constants for TLC: tables of computations, disks, goals |
| `<X>Proofs` | – | theorems about module X |

`NumericSolver` composes the loop of `QuickSolver`, the rules that read `Intervals`
(`NumericRules`) and those that build types (by `SimpType`) into a solver;
`ModuleLoader` and `AtomicLoad` share `ModuleText`; `ClientScript` extends
`VectorScript`, which calls `BitVec`, by the calls that go through the modules of
values, types and questions, and `RemoteSession` runs the
commands of `CryptolSession`. The other components meet only at calls that
return, so each has a specification of its own. In every
module an operator whose name is the name of another with a suffix
(`Insert_OneShort`) is a plausible mistake in that definition. Nothing uses
it; each property is known to fail when its mistake replaces the original.

### 2.1 Thunks

`tv[t]` is the `ThunkState` of thunk `t`, with the same constructors (`Void`,
`Unforced`, `UnderEvaluation`, `ForcedErr`, `Forced`; `none` before the thunk
is allocated). `thread[p]` is a stack of computations, each with the place it
has reached. What a computation does is a sequence of operations on thunks
(delay, hole, fill, spark, force) and an end: a value, an `EvalErrorEx`, or
another exception. Each `atomically` block is one action, and what happens
between two of them can interleave with the other threads:

| Action | Code |
|---|---|
| `Delay`, `Blackhole`, `Fill` | `delayFill`, `blackhole` and the operation it returns |
| `Spark`, `SparkNew`, `SparkThunk` | `evalSpark`, and the transaction of `sparkThunk` |
| `ForceEvaluated`, `ForceClaim`, `ForceBackup`, `ForceLoop`, `ForceVoid` | the branches of `unDelay` (a force that `retry`s is not enabled) |
| `Return`, `Throw`, `Unwind` | `doWork`: storing the result, and what its handler does as an exception passes |
| `RunCommand` | the REPL runs the next command with `runEval` |
| `Interrupt` | CTRL^C, at any point of the main thread |

The hazards are where the thread that finds a thunk claimed decides between
"loop" and "wait", and where exceptions cross `doWork`.

### 2.2 Memoised sequence maps

`cache` and `eval` are the two `IORef`s of a `MemoSeqMap`; a thread's stack
holds its nested lookups, each with the closure it has read. A lookup reads the
table (`ReadCache`), reads the closure (`ReadEval`), computes the element
(`Need` looks up the elements it depends on; `Value` and `Fail` end it), writes
the table (`Insert`) and, when the table is full, replaces the closure by the
panic (`Overwrite`): five steps that other threads can come between.
`PureSeq` promises what `SeqMap` says, a mapping from indices to values;
`ImplementsPure` is the refinement. It cannot hold of a finite map that two
threads share (see 6), so it is stated for threads that take turns (`alone`)
and for infinite maps.

### 2.3 Module loader

A text is what the passes make of it: its module name, imports, functor,
parameters, and the pass that rejects it, if any. `env` is the environment of
the session and `work` the one that a load builds; `stack` is `roLoading` with,
per module, what of its dependencies is still to load.

| Action | Code |
|---|---|
| `loadModuleByName`, `loadModuleByPath` | the entry points, with `resetModuleEnv` and the extended search path |
| `parseModule` | reading and parsing a file, `addPrelude`, the backtick modules, the checks that follow |
| `loadModuleFrom` | the next dependency: already loaded, cyclic, found on the path, built in, or missing |
| `loadDeps`, `doLoadModule` | to the next dependency; check, evaluate, record, focus |
| `GiveUp` (in each) | an error: `runModuleT` drops the working environment |
| `Edit` | the file system changes |
| `Interrupt` | CTRL^C |

Requests are marked `quiet` when the files stay put during the load.
`AtomicLoad` answers a quiet request in one step, from the modules that it needs
(the least set that has the requested one and, with a module, its dependencies):
it says *when* a load succeeds (no cycle, every module
`Good`) and with what session, without saying how. That is the specification
the recursion with its two lists, its cycle check and its rollback has to meet.

### 2.4 Solver of the type checker

`eTCSolver`, `eTCSolverRestarts`, `eTCConfig` are the fields of `RW`;
`process[k]` is the k-th process that was started, with its scopes, the unread
answers in its pipe, and the number that its callback closed over. `repl` is
what the REPL's thread is doing. The functions of `SMT.hs` are the lists of
requests that they send, each with the number of scopes its author relies on.
`GetSolver`, `StartSolver`, `SetupSolver`, `StoreSolver` split `getTCSolver` at
the points where CTRL^C or the callback can come between, and `SetupFails` is the
exception that `loadTcPrelude` throws when the prelude cannot be read or parsed;
`lost` remembers, for the properties only, the processes whose start was cut short
by either; `StopSolver` and
`ClearSolver` split `resetTCSolver`, which CTRL^C leads to as well
(`handleCtrlC`). `Die` and `OnExit` are the process and the library's thread.

### 2.5 Numeric constraints

`InfNat` has the arithmetic of `Nat'` (infinity is -1, `Nothing` is -2).
`Intervals` has the interval functions, each translated clause by clause, and
`computePropIntervals` as a state machine: `Learn` looks at one proposition,
`updateInterval` puts one entry into the map (the second of an equation after
the first has changed the map, as in the code), `NextRound` and `Settle` end a
round. `SimpType` has the constructors that keep types in normal form, which
the rules depend on (`tAdd` and the others go through `tCon`; `addRule` is what
`tAdd` does with arguments that are not all numbers). `NumericRules` has the rules
for `fin`, `>=` and `==` that take a goal to pieces, evaluate it or look at
intervals; nothing in it is recursive, so it can be proved about. `QuickSolver` has
`quickSolver` as actions: drop a goal that is assumed, follow what a rule says of
the first one, conclude. `NumericSolver`
adds the rules that build types and the order of all of them as the code has it,
`FirstMatch` being `matchDefault` (a rule that answers *Unsolved* does stop the
search). What is true is not translated from
these files: `Holds` evaluates a proposition under values of the variables with
`evalTF`, the meaning that the evaluator gives to types.

`QuickSolver` states what the loop promises as a specification, `RightSpec`: it may
rewrite a goal in any way, as long as the goal follows from what takes its place,
wherever the goal that was asked has a meaning. To call a goal unsolvable more is
needed, for the sub-goals may be stronger than the goal: `a + ?b = 1 + a` becomes
`?b = 1` (`tryLinearSolution`), although every `?b` would do when `a` is `inf`. That is
right for inference, which wants one choice, but after it a contradiction would say
nothing of the goal; so `RightSpec` has `Lossless`, no solution lost so far, as the
condition of the answer *Unsolvable*. `StepsAreRight` says that `NumericSolver`
implements it. `PlainSpec` is the loop with the rules of `NumericRules` only, tried
in any order.

### 2.6 Values, types and questions of the client

`BitVec` has the methods of `BV` in the arithmetic of the code (masks, shifts,
signed differences). `CryptolJSON` has the four conversions that a value passes:
Python to JSON (`to_cryptol`, `Bitvector.convert`), JSON to Cryptol
(`getCryptolExpr`), Cryptol to JSON (`readBack`), JSON to Python
(`from_cryptol_arg`); `VectorJSON` has the part of each that is about vectors,
bytes and integers at the type of a vector, with hex digits and base 64 as sequences
of digits and no recursive operator, so that it can be proved about.
`CryptolTypes` has the type as the server writes it (`JSONType`), as the
server reads it (`getType`), and as the client reads it (`to_type`). `Commands`
has what `check`, `prove`, `sat` and `safe` ask, how the server reads that,
and how the answer is read. In `VectorScript` a script holds one vector, `reg`;
each call leaves its outcome in `last`, and `GoOn` puts a vector that came out
into `reg`, so that calls are made on the results of calls. `ClientScript` adds
the calls that reach the server, whose outcomes are no vectors and stay in
`last`. Powers of two are a recursive function, `Pow2`, because the provers do
not know `^`; an `ASSUME` of `MCClientScript` compares the two.

What is right is not translated from these files: `VectorsAsBits` computes on
sequences of bits, `ArithmeticModular` on integers modulo 2 ^^ size,
`ValuesArrive` and `TypesArrive` compare the meanings of the two ends, and
`AnswersTold` what the names in the script say with what the server does, and what
the server found with what the script is told.

### 2.7 Connections and sessions

| Action | Code |
|---|---|
| `connect` | `connect`, `connect_stdio`: which server (`Resolve`), and `reset_server` |
| `Send` | every method of `CryptolConnection` that makes a command |
| `reset`, `reset_server` | notifications: nobody waits for them |
| `HandleCommand`, `HandleError` | `liftModuleCmd`, `runModuleCmd` and the method behind the command: all of it, or nothing |
| `HandleClearState`, `HandleClearAllStates` | `clearState`, `clearAllStates` |
| `Restart` | the shared server is started again |

`states[s]` are the states of server `s`; the server behind a URL is `Shared`,
and a connection that is made with a command has a process of its own.
`recent[c]` is `most_recent_result`. The library under both sides (argo) is not
in the repository; it is modelled after what `docs/Cryptol.rst:35-54` says of
states and what both sides rely on. Where that leaves a choice the model makes
all of them: messages are handled in any order, a state that a command leads on
from may be dropped or kept, and a command that changes nothing may answer with
the same id. Ids of states are those of the messages that made them. A command
may always fail.

`AbstractSession` knows no ids, messages or states: every connection has one
session, a command acts on it as a whole or fails and leaves it, a reset makes it
fresh, and only a reset of its server or a restart can lose it.

## 3. Runs

Each property of a passing run fails when some plausible mistake (listed under
`mutants`) replaces a definition; the state counts are those of the
configurations here.

| Run | Instance | Distinct states | Shows |
|---|---|---|---|
| `thunks_acyclic` | 3 thunks, main thread and 2 sparks, 2 commands, every table of forces of length ≤ 2 among thunks that do not depend on themselves, ending in a value or an error | 29 000 | no computation twice, holes filled once and before they are forced, no false `LoopError`; every command ends, and every spark with its thunk evaluated |
| `thunks_hard` | the same threads; every table of forces among 2 thunks that may depend on themselves, with and without backups, forced by one thread or by two sparks and the main thread; foreign exceptions; 2 × CTRL^C | 256 000 | what thunks hold is what their computations gave, and no foreign exception; threads wait in a circle only in a loop; one-way life, final results, backups inside the main computation; without sparks every command ends |
| `memo_shared` | 2 threads, 3 elements, each computed from the two before, finite or infinite, with or without a failing element, interrupts anywhere | 13 000 | the closure goes only when the table is full; it is not run then, unless a finite map is shared; pure for turns and for infinite maps |
| `loader_loads` | names A, B, F, Cryptol; 2 directories, one on the path; 6 disks (layers, shadowing, cycles, misuse of functors, a user's prelude, broken texts), 2 of which can change into each other | 74 000 | the invariants that `Env.hs` states; nothing twice; no panic for a missing interface; atomic loads, so only success changes the session; every load ends |
| `tc_session` | 3 processes, 2 configurations, `proveImp` with ≤ 2 goals | 59 000 | fresh conversations; no orphans, in the session or after it, but for starts that were cut short (CTRL^C, prelude not loaded); only the dead are forgotten and they are forgotten |
| `numeric_solver` | 2 variables (one free), 12 lists of assumptions, 502 goals each, values 0, 1, 2, 5, inf | 20 000 | intervals lose no solution, decisions are sound, each rewriting step is right, rewriting ends |
| `client_values` | vectors of up to 4 bits in calls, integers from -9 to 20, vectors of up to 17 bits and nested values on the wire, a type of each constructor, tests and proofs of each outcome | 29 000 | vectors are bits and integers modulo 2 ^^ size; values and types arrive, or are refused; the server is asked what the script says, and its answers are told |
| `session` | 2 connections (symmetric), 3 messages, 1 restart; a module with a file in two directories, two opaque values of one type | 404 000 | states are private; opaque values stay; each connection has a session of its own |
| `thunks_sparkdies`, `memo_race`, `tc_sameid`, `numeric_quotient` | small | – | the disagreements of section 6 |

Why these bounds are enough for the cases that matter:

- *Thunks.* A wait in a circle needs two threads (two sparks, or a spark and the
  main thread, are sent into loops of two thunks), a thread that comes late a
  third. A loop needs one thunk, a loop through another two, a shared dependency
  three. Two commands make the second meet what the first left. Two interrupts
  allow the retry to be interrupted. The tables are all the tables of that size,
  not chosen ones.
- *Memo.* The race needs two threads; elements that depend on the two before
  them make nested lookups of depth three and hits in the middle of a miss.
- *Loader.* Every error of `loadDeps` and `checkModule` occurs on some disk, and
  every disk with every session that another load has left on it; changes of
  files between any two steps are explored on the pair of disks that has a
  functor, a shadowed module and a backtick module.
- *Solver.* Three processes are a current one, its predecessor with a late
  callback, and a successor. Two goals make a second question in one scope.
- *Numeric.* 0, 1, inf are where the operations are partial or change their law,
  2 and 5 lie on both sides of the constants 1 and 3 of the goals. Each kind of
  type meets the simple ones and its own kind on both sides of `>=` and `==`.
  `Rounds = 3`, the limit of the code, is passed by the assumptions that do not settle,
  such as `a >= b + 1, b >= a + 1`.
  Division, rounded-up division and powers are left out of the passing run
  because their intervals are wrong (section 6).

- *Client.* 4 bits are a hex digit, and every size below it lacks bits of one;
  every operand of every operation at these sizes is tried, with integers on
  both sides of every range. On the wire the sizes lie around a digit, a byte
  and two bytes. The outcomes of questions are all their constructors, with a
  value that the client cannot receive among each.
- *Sessions.* Two connections on one server are enough for one to take the
  state of the other. Three messages are a command, a reset or forgotten command,
  and the one that it could harm; loading, extending the path and loading again
  (by name) shows whether the path of a state survived. A restart at any moment
  meets a command on its way, or none.

Deadlock is checked in the runs except where the system may stop: when a
command waits for a thunk that a dead spark claimed or that is part of a loop
through several threads (`thunks_hard`, `thunks_sparkdies`), and when the numeric solver has its verdict. `Quiescent`
and `Over` are the ends of the other systems.

## 4. Fairness

- `Thunks`: weak fairness of each thread's `Step`. GHC's scheduler
  runs every runnable thread, and a transaction that `retry`s is run again when
  the `TVar` it has read changes. No fairness for CTRL^C, nor for new commands.
- `ModuleLoader`: weak fairness of `Load`. One thread runs a load and waits for
  nobody. No fairness for edits, which can go on forever.
- `TCSolver`: weak fairness of `OnExit(k)`: the library has a thread that waits
  for the process. No fairness for anything the user or the process does: a
  process may never die, and a request may never be answered.
- `NumericSolver`: weak fairness of the next step, for a pure function is
  evaluated to its end.
- `MemoSeqMap`, `ClientScript`, `RemoteSession`: none. Their properties are of safety
  (no lookup waits for another, and that it ends is up to the elements); a
  server owes nobody an answer, and the client waits without a timeout.

## 5. Proofs

Every theorem is proved by TLAPS for all values of the constants, from the
`ASSUME`s of the modules (which TLC checks in the runs).

| Theorem | States | Argument |
|---|---|---|
| `ThunksProofs!TypeCorrect` | `Spec => []TypeOK`: a claimed thunk names its claimant, an evaluated one holds what one of its own computations gave, and never an exception that is not an `EvalErrorEx` | one lemma per operation on stacks, then one step per action |
| `Sharing` | `Spec /\ []FillsHole => []OneEvaluator` | the invariant counts who runs a thunk's computations and ties it to the thunk's state: none unless it was claimed, exactly the claimant; each action pushes, pops or moves one frame |
| `Lifecycle` | `Spec /\ []FillsHole => LifecycleOrder` | each write raises the rank of the state |
| `Outcomes` | `Spec /\ []FillsHole => ResultFinal` | while an evaluated thunk without a backup still has a frame, the thread of the frame is raising the very error that the thunk holds |
| `ThunkLoopsProofs!LoopsAreReal` | `Spec /\ []HolesFilledInTime => []LoopIsReal` | each frame was forced by the one below it: from a claimed thunk up its claimant's stack runs a chain of dependencies, which the loop closes |
| `BackupsInside` | `... => []BackupInsideMain` | a backup is pushed onto the main computation of its own thunk, and stacks change only at the top |
| `ClaimantsWork` | `... => [](NothingCutShort => OwnerWorks)` | a claim is given up where the frame is popped, unless an interrupt or an exception that is not stored pops it |
| `CirclesAreLoops` | `... => []WaitCycleIsLoop`: unless something is cut short, threads wait in a circle only if one of them forces a thunk that depends on itself | only finitely many threads have frames; each thread of a circle waits, on top of its stack, for a thunk that the next one's stack leads up from, so such a thunk depends on itself |
| `HolesAreFilled` | `Spec /\ LexicallyScoped(code) => []HolesFilledInTime` | the greatest set of *ready* thunks (no hole, and what they are given and what their values hold is ready as well) only grows; every frame knows ready thunks only, besides those it has made itself and keeps until its holes are filled; no thunk was made by two frames |
| `ScopedEvaluation` | the results above for lexically scoped tables, with no proviso on the execution | from the theorems above |
| `MemoSeqMapProofs!ReapedOnlyWhenFull` | `Spec => []ReapedWhenFull` | the invariant `FramesInv` says what each frame of each thread has seen; a full table is counted by `FiniteSetTheorems` |
| `NeverPanicsUnlessShared` | `Spec => []NoPanicUnlessShared` | adds `AloneInv`: a thread alone has no stale closure on its stack |
| `PureImplemented` | `Spec => ImplementsPure` | the table holds elements, a lookup has the results of the lookups it needed, in order, and the answer a thread was given is that of the lookup it made; the elements are a recursive function, whose existence is an induction |
| `ModuleLoaderProofs!LoadedModulesOrder`, `NothingTwice`, `NoMissingInterface`, `SessionsConsistent`, `LoaderTypes`, `FailuresLeaveNoTrace` | the five invariants (`TypeOK` is proved only), and `OnlySuccessCommits` (which no run checks by itself: `ImplementsAtomicLoad` covers it) | one inductive invariant: types, focus, both environments in order, and for each frame of the stack that the dependencies before its mark are loaded and not loading |
| `LoadsAreAtomic` | `Spec => ImplementsAtomicLoad` | the refinement: with files that stay put, what is loaded is needed, good and leads to itself nowhere, and each module on the stack leads to those above it; so the loader gives up exactly for a module that is missing, bad, or met again, and ends with what is needed |
| `TCSolverProofs!FreshConversations`, `NoOrphanProcesses`, `ForgotAreDead`, `SolverTypes` | the invariants, and `ForgetsOnlyTheDead`, with starts that fail or are interrupted at any point and whatever way the session ends | `IInv` ties the requests still to send to the scopes of the process (they are *nested*), and the numbers of the callbacks to the counter |
| `EndsAreNoticed` | `Spec => NoticesTheEnd` | every stored solver that lives has a thread that waits for its end (`Attended`), and all steps but `getTCSolver`'s store keep the REPL from being left with a dead one |
| `IntervalsProofs!SolutionsKept`, `IntervalsTyped` | `Spec => []KeepsSolutions` for the operators `+ - * min max % %^ width ...` | one soundness lemma per interval function, composed along the three levels of a type; `width` is monotone, and `2 ^^ k - 1` bounds what has at most `k` bits; the entries that were learned but not yet put in the map keep the solutions too |
| `RemoteSessionProofs!TypeCorrect`, `NeverShared` | `Spec => []TypeOK`, `Spec => []StatesPrivate` | a new id is the id of the message that made it; `IInv` adds that every message matches what its connection remembers, that ids to come are named nowhere, and that connections are on a server of theirs |
| `SessionsImplemented` | `Spec => ImplementsSessions` | the refinement, one abstract step per action, from that invariant, `OwnProcess` (a process of a connection serves no other) and `NoAnswerYet` (a command on its way is not answered) |
| `OpaqueValuesStay` | `Spec => []OpaqueAlive` | the counter of names is above every name in the session, a name is given to one value only, and nothing but a load or a reset takes names away; carried along from state to state by the ids that messages and connections remember |
| `FinDecided`, `GeqDecided`, `EqualDecided` | `Spec => []FinRulesAreRight` and so on, for the same operators: what a rule of `NumericRules` says of a goal is exact in every solution of the assumptions: true, and with no sub-goal that is false when the goal is true | the intervals keep the solutions, so the value of a type lies in its interval; one lemma per rule; what `<\|>` and `matchDefault` pick is one of the rules, whatever their order |
| `RightDecides` | `RightSpec => []DecisionsSound`, for any rules, goals, assumptions and values | the goal follows from what is left of it: the goals in the list and those put aside |
| `PlainRulesAreRight`, `PlainDecides` | `PlainSpec => RightSpec`, hence `PlainSpec => []DecisionsSound`, over the same operators | `PlainInv`: the goals of the list are about types of one set `T`, have a meaning where the goal has one (the types with a value are such a set too), and are `Lossless`, since no rule of `NumericRules` loses a solution |
| `VectorScriptProofs!VectorsInRange` | `VectorSpec => []InRange`: no method returns a vector whose value has more bits than its size | one lemma per method, on the bounds that its masks and shifts keep |
| `VectorArithmetic` | `VectorSpec => []ArithmeticModular`, at every size | that powers of two and sums over places exist is an induction over sets of numbers; the rest is arithmetic: the remainder is unique, a signed value differs from the value by `0` or `2 ^^ size`, bits of a value and of its remainder agree |
| `VectorBits` | `VectorSpec => []VectorsAsBits`, at every size | the bits of a number determine it; a sequence of bits is the `Word` of a number, and concatenation, parts, complement, single bits, bytes and sums of bytes are followed from numbers to words, one lemma per method |
| `VectorsArrive`, `BytesArrive` | the literal that the client makes of a vector of any size, or of a string of bytes at the type of a vector of any width, is read by the server as the same word (or refused, exactly when the bytes are a number too large for the width), and the literal of a word by the client as the same vector | the partial sums of a number written in digits of `w` bits are its quotients (`NumberOfDigits`); there is a least number of digits; the sextets of base 64 are the bits of the bytes and of the padding; two hexadecimal digits are a byte, with a zero before an odd number of them |
| `IntegersArrive` | an integer sent at the type `[w]` is refused exactly when it does not fit, signed, into the whole bytes of `w`, and arrives modulo two to the bits of these bytes: modulo `2 ^^ w` when `w` is of whole bytes or it is not negative | the same lemmas, from the bytes of its two's complement |
| `SubIsUnique`, `CeilDivIsLeast`, `WidthIsLeast` | what the comments on `nSub`, `nCeilDiv` and `nWidth` say | arithmetic; for widths, induction over a set of numbers, and powers of two as numbers of subsets |

Why the invariants need strengthening: `OneEvaluator` speaks of two stacks, but
a step that claims a thunk must know that *no* stack runs it, which follows only
from the state of the thunk; `LoadedModulesInvariant` speaks of lists, but a
module is appended when its own recursion has ended, and that its imports are
there follows from what the frames on the stack have passed; `FreshConversation`
speaks of the next request, but it follows from the shape of all that are left;
`LoopIsReal` speaks of the moment a loop is found, but the chain that proves it
real was laid one force at a time; `StatesPrivate` speaks of the states that are named
now, but a message in flight names one too, and its answer will;
`ImplementsAtomicLoad` compares the end of a load with the files, and what is on
the stack half way is all that connects the two; that a thunk is no hole when it
is forced was settled when somebody got hold of it.

The provisos are properties of the *client*, `evalDeclGroup`. `FillsHole` (a hole
is filled once) is the hypothesis of `Sharing`, `Lifecycle` and `Outcomes`: for
tables that fill a hole twice, the second fill resets a thunk that may be claimed.
`HolesFilledInTime`, of which `FillsHole` is a part, also says that no hole is
forced before it is filled, and is the hypothesis of the theorems about loops.
`thunks_acyclic` checks both. `HolesAreFilled` proves both from a property of the
table alone, `LexicallyScoped`: there is an assignment of scopes (what the
computation of a thunk is given) and of contents (the thunks that a value holds)
under which every computation forces and sparks what it was given, what the values
that it forced hold, and what it made while it had no hole open; fills the holes
that it made, once; and passes on only what it has. That is how `evalDeclGroup`
works: the environment with the holes goes to the definitions when they are
delayed, and to everybody else when all of them are filled. Whoever can hold a
hole before that is a computation that cannot run before that, because it was
delayed in the same group. The order of filling and forcing is thus a matter of
who can *name* a thunk, which no test of one execution shows. An `ASSUME` in
`MCHardThunks` checks that the tables of the runs are lexically scoped, with the one
exception that was written to force a hole.

`SolutionsKept` is for lists of propositions over `ProvedOps`: `Div`, `CeilDiv` and
`Exp` are excluded because the result is false for them. It assumes that widths are
bounded by numbers (`WidthBounds`): of `k >= width x` for a variable `k` the code
concludes that `x` is finite, and loses the solution where both are `inf`. The
theorems about the rules have the same bound (a goal `fin t` may be about a
quotient of such types). `EqualDecided` is about types in the form that `tAdd` and
`tMul` give them, `Simplified`: the equation `inf + t = inf` would be called
unsolvable by `tryEqK`, which subtracts the constant, and only the normal form
keeps it from being asked. `PlainRulesAreRight` is about goals over any set `T` of
such types that has the numbers and the arguments of its members (`ClosedTypes`),
the numbers and variables for instance, with or without their differences; a goal
that a rule puts in the place of another stays within `T`.

The theorems of `VectorScriptProofs` are about `VectorSpec`, the methods of `BV` in
any order; the other calls of `ClientScript` leave `reg` alone, and the two
properties say nothing of their outcomes. `VectorsArrive`, `BytesArrive` and
`IntegersArrive` are about the operators of `VectorJSON` with which `to_cryptol`,
`getCryptolExpr`, `readBack` and `from_cryptol_arg` treat vectors. A negative integer
at a width that is not of whole bytes arrives without the bits above its bytes, which
`ValuesArrive` says as well; the comment at `cryptoltypes.py:200` leaves these widths
open. (`int.to_bytes` is modelled after CPython 3.11, which writes -1 in zero bytes as
well as 0; sent at a width below 8 it arrives as 0.)

Only model-checked: every liveness property (`CommandsEnd`, `SparksEnd`,
`LoneCommandsEnd` and their like need fairness and `ENABLED`, which
the prover does not treat), of `ClientScript` what passes through the server
(`TypesArrive`, `AnswersTold`, and of `ValuesArrive` all but the vectors, bytes and
integers it is built from), and of `NumericSolver` that the steps of the rules that
build types are right (`StepsAreRight`): values and types are recursive, the
operators that build them are declared `RECURSIVE`, and the prover cannot use
modules that have such an operator. `RightDecides` needs nothing of these rules but
`StepsAreRight`, so of `DecisionsSound` only this one step at a time rests on a
small instance.

## 6. Disagreements between the code and what it says

| Run | What happens |
|---|---|
| `thunks_sparkdies` | `sparkThunk` catches `EvalErrorEx` only. A spark that throws anything else (`WordTooWide`, `Unsupported`, a panic) leaves its thunk claimed by a thread that is gone, and the next force waits forever. |
| `memo_race` | Two threads share a finite memoised map. One misses an element, the other fills the table and overwrites the closure, the first runs the closure: `panic "Messed up size accounting"`. |
| `tc_sameid` | A start that CTRL^C cuts short is not counted. The next process has the same number, and is forgotten, alive, when the first one ends. |
| `numeric_quotient` | The upper bound of `i / j` (and `/^`) divides by the lower bound of `i` in place of `j`: `1 >= 5 / z` is solved for finite positive `z`. |

Read in the code while modelling, and not given a run:

*Interpreter.* The comment on `loadedModules` promises modules after what they
depend on, "this includes parameterized modules", and functors come first; `tExp`
rewrites `x ^^ (a ^^ b)` to `x ^^ (a * b)`, where the law is `(x ^^ a) ^^ b = x ^^
(a * b)`; a loop of thunks that runs through two threads is not found, since only a
thread that finds its *own* id takes it for a loop: two sparks whose thunks force
each other wait for each other, and for good, unless GHC's runtime notices that both
are blocked (`thunks_hard` has such circles, and `WaitCycleIsLoop` says that there
are no others); `iExp` takes `0 ^^ 0` as a lower bound of 1 for any power whose base
and exponent have a lower bound of 0; `propInterval` makes `x` finite from `k >=
width x` when `k` is not exact; `1 == 1 ^^ t` and `0 == 0 ^^ t` are called
unsolvable (`tryEqK`); `tCeilMod` tests its first argument for zero, not the
divisor; `tryEqMins` answers *Unsolved* where it does not apply and so cuts off the
rules after it; a start of the type checker's solver whose prelude cannot be read or
parsed (`SMT.hs:122`, `SMT.hs:132`) throws after the process was created and before
it is stored, so that the session ends and does not stop it (`SetupFails`).

*Client and server.* `W4_ABC` is `Solver("w4-any")` (`solver.py:57`). The server
knows this name (`What4.hs:170`): it is the portfolio of all provers, and a script
that asks for ABC gets it without a word, although "w4-abc" exists (`What4.hs:167`,
`docs/Cryptol.rst:560`). `connection.py:207` says that 100 tests are run "if
`num_tests` is omitted", and a number of 0 or `False` is taken for omitted
(`commands.py:117`). `AnswersTold` leaves out these two requests, by name, and no
other. A satisfiable predicate without arguments answers `[]`, which Python takes
for false; the values of several models come as one flat list. A value of type `Z n`
raises `ValueError` when it is received. The client raises `NotImplementedError` for
types with a unit, a newtype, an array or `lengthFromThenTo`, and turns the
constraints it does not know (`Ring`, `Field`, `Literal`, ...) into `None`. An
integer at the type of a vector is written as the signed bytes of `int(w / 8)`
(`cryptoltypes.py:204`): at `[8]` 128 is refused, at `[12]` every integer of more
than seven bits and a sign, and a negative one arrives there without its topmost
bits (`cryptoltypes.py:200` leaves widths that are no multiple of 8 open, marked
XXX). The help text of `Data/Expression.hs:277` says of JSON integers that they "can
be used at a variety of types"; `getCryptolExpr` gives each the type `Integer` (an
`ETyped`), and that is what the model and `ValuesArrive` say. `opaque.py:7-8` says
that opaque values are "only equal to themselves", and `__eq__` compares
identifiers, which a load or a reset starts over and which other connections have as
well. `bitvector.py:11` says `0 <= size <= value`; the second guard of a slice
(`bitvector.py:82`) can never hold.

## 7. Not modelled

- The values that computations, elements and solver answers have, except where
  a property tells them apart (a value, an error, a failure).
- Call stacks of the evaluator, which only label errors.
- In the loader: name supplies and unique seeds, warnings, includes, nested
  modules, declarations of the prompt, the text of errors. `DuplicateModuleName`
  (`ModuleSystem/Base.hs:173`) cannot be reached from any entry point and is
  left out.
- In the solver session: what is asserted; the server, which resets one process.
- In the client: `repr`, `str`, `hash` and the kinds of types as text, `names` and
  `check_type` beyond the conversion of their answers, the wording of errors;
  `docs/conf.py` and `docs/RefMan/conf.py` configure the builder of the documents.
- In the sessions: the solver process that all states of a server share;
  fingerprints of files (`validateServerState` has no caller in the repository);
  a process of a connection that dies; the protocols below the messages. A
  session is the module in focus, the search path and the names of opaque values;
  what a command does to the names that `prove` and `check` bind is what
  `evalExpression` does.
- In the numeric part: `nLg2`, roots, `/=`, `prime` and literals (the saturation
  of the assumptions adds nothing to the four forms that are left), the
  substitutions of
  `Solver/Improve.hs`, defaulting; types with more than three operators nested.
- The components that section 1.1 lists and section 2 does not: section 8, and
  `PROJECT.json` for the reasons.

## 8. Plan

Models, in this order:

1. `ReplSession`: the fields of `RW` that name the loaded and the edited file,
   the declarations of the prompt and `it`, with `loadHelper`, `:reload`,
   `:module`, `:edit`, `replCheckDecls`, `replEvalCheckedExpr`,
   `bindItVariable`, errors and CTRL^C between the updates of each. Properties:
   the environment of names and of values agree; `:reload` reloads what is
   loaded; a failed command leaves a session in which every later command
   works. It uses `ModuleLoader` through `AtomicLoad`.
2. `Portfolio` (the race of `SBV.hs`) and `MultiSat` (`What4.hs`): no answer
   that is an error wins, no process survives, models differ, scopes balance.
3. `Unify` and `Subst`: the invariants that `Subst.hs:48-73` states, and
   `Improve`, with `NumericSolver` for the goals.
4. `Layout`: blocks and the cached column. `Testing`: sizes against lists of
   values.

The runs of 1 and 2 have the shape of `tc_session`: one user, errors and
interrupts anywhere, two files or solvers.

Theorems: that the rules of `NumericSolver` which build types are right, one
constructor of `SimpType` after the other, once these are functions; the same for the
conversions of `CryptolJSON`, whose leaves `VectorsArrive` treats; the invariant of
`ReplSession`.
