---------------------------- MODULE ThunksProofs ----------------------------
(***************************************************************************)
(* Proofs about Thunks, for every set of threads, thunks and tables.       *)
(***************************************************************************)
EXTENDS Thunks, TLAPS

-----------------------------------------------------------------------------
(***************************************************************************)
(* Stacks.                                                                 *)
(***************************************************************************)

LEMMA NewFrameType ==
  /\ \A c \in Command : NewFrame("command", c) \in Frame
  /\ \A t \in Thunk : NewFrame("main", t) \in Frame /\ NewFrame("backup", t) \in Frame
BY DEF NewFrame, Frame

\* Advancing a stack changes only the program counter of its top frame.
LEMMA AdvanceStack ==
  ASSUME NEW s \in Seq(Frame), s # <<>>
  PROVE  /\ Advance(s) \in Seq(Frame)
         /\ Advance(s) # <<>>
         /\ Len(Advance(s)) = Len(s)
         /\ \A i \in 1..Len(s) : /\ Advance(s)[i].kind = s[i].kind
                                 /\ Advance(s)[i].name = s[i].name
<1>1. Len(s) \in 1..Len(s)
  OBVIOUS
<1>2. /\ DOMAIN Advance(s) = DOMAIN s
      /\ \A i \in 1..Len(s) : i # Len(s) => Advance(s)[i] = s[i]
      /\ Advance(s)[Len(s)] = [s[Len(s)] EXCEPT !.pc = @ + 1]
  BY <1>1 DEF Advance
<1>3. s[Len(s)] \in Frame
  BY <1>1
<1>4. /\ Advance(s)[Len(s)] \in Frame
      /\ Advance(s)[Len(s)].kind = s[Len(s)].kind
      /\ Advance(s)[Len(s)].name = s[Len(s)].name
  <2>1. CASE s[Len(s)] \in [kind : {"command"}, name : Command, pc : Nat \ {0}]
    BY <1>2, <2>1 DEF Frame
  <2>2. CASE s[Len(s)] \in [kind : {"main", "backup"}, name : Thunk, pc : Nat \ {0}]
    BY <1>2, <2>2 DEF Frame
  <2> QED BY <1>3, <2>1, <2>2 DEF Frame
<1>5. \A i \in 1..Len(s) : Advance(s)[i] \in Frame
  BY <1>2, <1>4
<1>6. Advance(s) \in Seq(Frame) /\ Len(Advance(s)) = Len(s)
  BY <1>2, <1>5 DEF Advance
<1>7. Advance(s) # <<>>
  BY <1>1, <1>6
<1>8. ASSUME NEW i \in 1..Len(s)
      PROVE  /\ Advance(s)[i].kind = s[i].kind
             /\ Advance(s)[i].name = s[i].name
  <2>1. CASE i = Len(s)
    BY <1>4, <2>1
  <2>2. CASE i # Len(s)
    BY <1>2, <2>2
  <2> QED BY <2>1, <2>2
<1> QED BY <1>6, <1>7, <1>8

\* Popping a stack keeps the frames below the top.
LEMMA PopStack ==
  ASSUME NEW s \in Seq(Frame), s # <<>>
  PROVE  /\ Pop(s) \in Seq(Frame)
         /\ Len(Pop(s)) = Len(s) - 1
         /\ \A i \in 1..(Len(s) - 1) : Pop(s)[i] = s[i]
<1>1. Len(s) \in Nat /\ Len(s) # 0
  OBVIOUS
<1>2. \A i \in 1..Len(s) : s[i] \in Frame
  OBVIOUS
<1>3. Pop(s) = [i \in 1..(Len(s) - 1) |-> s[i]]
  BY <1>1 DEF Pop
<1>4. Pop(s) \in Seq(Frame)
  BY <1>1, <1>2, <1>3
<1>5. Len(Pop(s)) = Len(s) - 1
  BY <1>1, <1>3, <1>4
<1> QED BY <1>3, <1>4, <1>5

LEMMA PushStack ==
  ASSUME NEW s \in Seq(Frame), NEW f \in Frame
  PROVE  /\ Push(s, f) \in Seq(Frame)
         /\ Push(s, f) # <<>>
         /\ Len(Push(s, f)) = Len(s) + 1
         /\ \A i \in 1..Len(s) : Push(s, f)[i] = s[i]
         /\ Push(s, f)[Len(s) + 1] = f
BY DEF Push

LEMMA TopStack ==
  ASSUME NEW s \in Seq(Frame), s # <<>>
  PROVE  Top(s) \in Frame
BY DEF Top

-----------------------------------------------------------------------------
(***************************************************************************)
(* Type correctness.  It needs one fact about control: a thread that runs  *)
(* or raises has a frame, and a spark that has yet to claim has a target.  *)
(***************************************************************************)

WellFormed(s) ==
  /\ s.mode \in {"run", "raise"} => s.stack # <<>>
  /\ s.mode = "claim" => s.target \in Thunk

StackInv == \A p \in Thread : WellFormed(thread[p])

TypeInv == VarTypes /\ StackInv

LEMMA OutcomeType ==
  /\ NoResult \in Outcome
  /\ \A k \in {"main", "backup", "user", "loop", "foreign"} :
       \A c \in Thunk \cup Command \cup {NoThread} : Result(k, c) \in Outcome
BY DEF NoResult, Result, Outcome

LEMMA CellType ==
  /\ None \in ThunkState
  /\ Void \in ThunkState
  /\ \A u \in BOOLEAN : Unforced(u) \in ThunkState
  /\ \A p \in Thread, u \in BOOLEAN : UnderEvaluation(p, u) \in ThunkState
  /\ \A e \in Outcome : ForcedErr(e) \in ThunkState
  /\ \A e \in Outcome : Forced(e) \in ThunkState
<1>1. None \in ThunkState
  BY OutcomeType DEF None, ThunkState, Tags
<1> QED BY <1>1 DEF ThunkState, Tags, Void, Unforced, UnderEvaluation, ForcedErr, Forced

LEMMA SetThreadType ==
  ASSUME TypeInv, NEW p \in Thread, NEW s \in ThreadState,
         WellFormed(s), SetThread(p, s)
  PROVE  thread' \in [Thread -> ThreadState] /\ StackInv'
BY DEF TypeInv, VarTypes, StackInv, SetThread, WellFormed

LEMMA SetThunkType ==
  ASSUME TypeInv, NEW t, NEW s \in ThunkState, SetThunk(t, s)
  PROVE  tv' \in [Thunk -> ThunkState]
BY DEF TypeInv, VarTypes, SetThunk

LEMMA BodyType ==
  ASSUME TypeInv, NEW f \in Frame
  PROVE  BodyOf(f) \in Body
<1>1. code \in CodeTable
  BY DEF TypeInv, VarTypes
<1> QED BY <1>1 DEF BodyOf, Frame, CodeTable

\* What is known of a thread that runs or raises.
LEMMA BusyThread ==
  ASSUME TypeInv, NEW p \in Thread, thread[p].mode \in {"run", "raise"}
  PROVE  /\ thread[p] \in ThreadState
         /\ thread[p].stack \in Seq(Frame)
         /\ thread[p].stack # <<>>
         /\ TopFrame(p) \in Frame
<1>1. thread[p] \in ThreadState /\ thread[p].stack # <<>>
  BY DEF TypeInv, VarTypes, StackInv, WellFormed
<1>2. thread[p].stack \in Seq(Frame)
  BY <1>1 DEF ThreadState
<1> QED BY <1>1, <1>2, TopStack DEF TopFrame

LEMMA ContinueType ==
  ASSUME TypeInv, NEW p \in Thread, Running(p)
  PROVE  Continue(p) \in ThreadState /\ WellFormed(Continue(p))
<1>1. /\ thread[p] \in ThreadState
      /\ Advance(thread[p].stack) \in Seq(Frame)
      /\ Advance(thread[p].stack) # <<>>
  BY BusyThread, AdvanceStack DEF Running
<1>2. /\ Continue(p) \in ThreadState
      /\ Continue(p).mode = thread[p].mode
      /\ Continue(p).stack = Advance(thread[p].stack)
  BY <1>1 DEF Continue, ThreadState
<1> QED BY <1>1, <1>2 DEF WellFormed, Running

LEMMA RaiseType ==
  ASSUME TypeInv, NEW p \in Thread, thread[p].mode \in {"run", "raise"},
         NEW e \in Outcome
  PROVE  Raise(p, e) \in ThreadState /\ WellFormed(Raise(p, e))
BY BusyThread DEF Raise, ThreadState, Modes, WellFormed

LEMMA PushType ==
  ASSUME TypeInv, NEW p \in Thread, Running(p), NEW f \in Frame
  PROVE  LET s == [thread[p] EXCEPT !.stack = Push(@, f)]
         IN s \in ThreadState /\ WellFormed(s)
<1>1. /\ thread[p] \in ThreadState
      /\ Push(thread[p].stack, f) \in Seq(Frame)
      /\ Push(thread[p].stack, f) # <<>>
  BY BusyThread, PushStack DEF Running
<1> QED BY <1>1 DEF ThreadState, WellFormed, Running

LEMMA PopType ==
  ASSUME TypeInv, NEW p \in Thread, thread[p].mode = "raise"
  PROVE  LET rest == Pop(thread[p].stack)
             s == IF rest # <<>>
                  THEN [thread[p] EXCEPT !.stack = rest]
                  ELSE [thread[p] EXCEPT
                          !.stack = <<>>, !.exc = NoResult,
                          !.mode = IF p = Main THEN "idle" ELSE "done"]
         IN s \in ThreadState /\ WellFormed(s)
<1> DEFINE rest == Pop(thread[p].stack)
<1>1. thread[p] \in ThreadState /\ rest \in Seq(Frame) /\ <<>> \in Seq(Frame)
  BY BusyThread, PopStack
<1>2. CASE rest # <<>>
  BY <1>1, <1>2 DEF ThreadState, Modes, WellFormed
<1>3. CASE rest = <<>>
  BY <1>1, <1>3, OutcomeType DEF ThreadState, Modes, WellFormed
<1> QED BY <1>2, <1>3

LEMMA ResumeType ==
  ASSUME TypeInv, NEW p \in Thread, Running(p)
  PROVE  Resume(p) \in ThreadState /\ WellFormed(Resume(p))
<1> DEFINE rest == Pop(thread[p].stack)
<1>1. thread[p] \in ThreadState /\ rest \in Seq(Frame) /\ <<>> \in Seq(Frame)
  BY BusyThread, PopStack DEF Running
<1>2. CASE rest # <<>>
  <2>1. Advance(rest) \in Seq(Frame) /\ Advance(rest) # <<>>
    BY <1>1, <1>2, AdvanceStack
  <2>2. Resume(p) = [thread[p] EXCEPT !.stack = Advance(rest)]
    BY <1>2 DEF Resume
  <2> QED BY <1>1, <2>1, <2>2 DEF ThreadState, WellFormed, Running
<1>3. CASE rest = <<>>
  BY <1>1, <1>3 DEF Resume, ThreadState, Modes, WellFormed
<1> QED BY <1>2, <1>3

\* Forking leaves two well-formed threads.
LEMMA ForkType ==
  ASSUME TypeInv, NEW p \in Thread, NEW q \in Thread, NEW t \in Thunk,
         Running(p), Fork(p, q, t)
  PROVE  thread' \in [Thread -> ThreadState] /\ StackInv'
<1>1. p # q
  BY DEF Fork, Running
<1>2. /\ thread \in [Thread -> ThreadState]
      /\ thread'[p] = Continue(p)
      /\ thread'[q] = [thread[q] EXCEPT !.mode = "claim", !.target = t]
      /\ \A r \in Thread \ {p, q} : thread'[r] = thread[r]
      /\ DOMAIN thread' = Thread
      /\ thread' = [r \in Thread |-> thread'[r]]
  BY <1>1 DEF TypeInv, VarTypes, Fork
<1>3. thread'[q] \in ThreadState /\ WellFormed(thread'[q])
  BY <1>2 DEF ThreadState, Modes, WellFormed
<1>4. \A r \in Thread : thread'[r] \in ThreadState /\ WellFormed(thread'[r])
  BY <1>2, <1>3, ContinueType DEF TypeInv, StackInv
<1> QED BY <1>2, <1>4 DEF StackInv, WellFormed

LEMMA TypeStep == TypeInv /\ [Next]_vars => TypeInv'
<1> SUFFICES ASSUME TypeInv, [Next]_vars
             PROVE  TypeInv'
  OBVIOUS
<1>0. VarTypes /\ code \in CodeTable /\ tv \in [Thunk -> ThunkState]
      /\ pending \in SUBSET Command /\ interrupts \in 0..MaxInterrupts
  BY DEF TypeInv, VarTypes
<1> USE DEF TypeInv
<1>1. ASSUME NEW c \in Command, RunCommand(c)
      PROVE  TypeInv'
  <2> DEFINE s == [thread[Main] EXCEPT !.mode = "run",
                                       !.stack = <<NewFrame("command", c)>>]
  <2>0. thread[Main] \in ThreadState
        /\ <<NewFrame("command", c)>> \in Seq(Frame)
        /\ <<NewFrame("command", c)>> # <<>>
    BY ThreadAssumption, NewFrameType DEF ThreadAssumption, VarTypes
  <2>1. s \in ThreadState /\ WellFormed(s)
    BY <2>0 DEF ThreadState, Modes, WellFormed
  <2>2. thread' \in [Thread -> ThreadState] /\ StackInv'
    BY <1>1, <2>1, SetThreadType, ThreadAssumption DEF ThreadAssumption, RunCommand
  <2> QED BY <1>0, <1>1, <2>2 DEF RunCommand, VarTypes
<1>2. ASSUME NEW p \in Thread, NEW t \in Thunk,
             Delay(p, t) \/ Blackhole(p, t) \/ Fill(p, t)
      PROVE  TypeInv'
  <2>1. Running(p) /\ SetThread(p, Continue(p))
    BY <1>2 DEF Delay, Blackhole, Fill, At
  <2>2. thread' \in [Thread -> ThreadState] /\ StackInv'
    BY <2>1, ContinueType, SetThreadType
  <2>3. /\ Unforced(t \in code.hasBackup) \in ThunkState
        /\ Unforced(FALSE) \in ThunkState
        /\ Void \in ThunkState
        /\ Forced(Result("main", t)) \in ThunkState
    <3>1. (t \in code.hasBackup) \in BOOLEAN /\ FALSE \in BOOLEAN
      OBVIOUS
    <3>2. Result("main", t) \in Outcome
      BY OutcomeType
    <3> QED BY <3>1, <3>2, CellType
  <2>4. \/ SetThunk(t, Unforced(t \in code.hasBackup))
        \/ SetThunk(t, Unforced(FALSE))
        \/ SetThunk(t, Void)
        \/ SetThunk(t, Forced(Result("main", t)))
    BY <1>2 DEF Delay, Blackhole, Fill
  <2>5. tv' \in [Thunk -> ThunkState]
    BY <2>3, <2>4, SetThunkType
  <2> QED BY <1>0, <1>2, <2>2, <2>5 DEF Delay, Blackhole, Fill, VarTypes
<1>3. ASSUME NEW p \in Thread, NEW t \in Thunk, Spark(p, t) \/ SparkNew(p, t)
      PROVE  TypeInv'
  <2>1. Running(p)
    BY <1>3 DEF Spark, SparkNew, At
  <2>2. \/ SetThread(p, Continue(p))
        \/ \E q \in Thread : Fork(p, q, t)
    BY <1>3 DEF Spark, SparkNew
  <2>3. thread' \in [Thread -> ThreadState] /\ StackInv'
    BY <2>1, <2>2, ContinueType, SetThreadType, ForkType
  <2>4. tv' \in [Thunk -> ThunkState]
    BY <1>0, <1>3, CellType, SetThunkType DEF Spark, SparkNew
  <2> QED BY <1>0, <1>3, <2>3, <2>4 DEF Spark, SparkNew, VarTypes
<1>4. ASSUME NEW p \in Thread, SparkThunk(p)
      PROVE  TypeInv'
  <2> DEFINE t == thread[p].target
             claim == [thread[p] EXCEPT !.mode = "run",
                                        !.stack = <<NewFrame("main", t)>>]
             done == [thread[p] EXCEPT !.mode = "done"]
  <2>1. t \in Thunk /\ thread[p] \in ThreadState
    BY <1>4 DEF SparkThunk, SparkThunkIn, StackInv, WellFormed, VarTypes
  <2>0. <<NewFrame("main", t)>> \in Seq(Frame) /\ <<NewFrame("main", t)>> # <<>>
    BY <2>1, NewFrameType
  <2>2. claim \in ThreadState /\ WellFormed(claim)
    BY <2>0, <2>1 DEF ThreadState, Modes, WellFormed
  <2>3. done \in ThreadState /\ WellFormed(done)
    BY <2>1 DEF ThreadState, Modes, WellFormed
  <2>4. \/ SetThunk(t, UnderEvaluation(p, tv[t].backup)) /\ SetThread(p, claim)
        \/ tv' = tv /\ SetThread(p, done)
    BY <1>4 DEF SparkThunk, SparkThunkIn
  <2>5. thread' \in [Thread -> ThreadState] /\ StackInv'
    BY <2>2, <2>3, <2>4, SetThreadType
  <2>6. UnderEvaluation(p, tv[t].backup) \in ThunkState
    BY <1>0, <2>1, CellType DEF ThunkState
  <2>7. tv' \in [Thunk -> ThunkState]
    BY <1>0, <2>1, <2>4, <2>6, SetThunkType
  <2> QED BY <1>0, <1>4, <2>5, <2>7 DEF SparkThunk, SparkThunkIn, VarTypes
<1>5. ASSUME NEW p \in Thread, NEW t \in Thunk,
             ForceEvaluated(p, t) \/ ForceVoid(p, t)
      PROVE  TypeInv'
  <2>1. Running(p) /\ tv[t].result \in Outcome
    BY <1>0, <1>5 DEF ForceEvaluated, ForceVoid, At, ThunkState
  <2>2. \/ SetThread(p, Continue(p))
        \/ \E e \in Outcome : SetThread(p, Raise(p, e))
    BY <1>5, <2>1, OutcomeType DEF ForceEvaluated, ForceVoid
  <2>3. thread' \in [Thread -> ThreadState] /\ StackInv'
    BY <2>1, <2>2, ContinueType, RaiseType, SetThreadType DEF Running
  <2> QED BY <1>0, <1>5, <2>3 DEF ForceEvaluated, ForceVoid, VarTypes
<1>6. ASSUME NEW p \in Thread, NEW t \in Thunk,
             ForceClaim(p, t) \/ ForceBackup(p, t)
      PROVE  TypeInv'
  <2>1. Running(p) /\ tv[t].backup \in BOOLEAN
    BY <1>0, <1>6 DEF ForceClaim, ForceBackup, At, ThunkState
  <2>2. \E f \in Frame : SetThread(p, [thread[p] EXCEPT !.stack = Push(@, f)])
    BY <1>6, NewFrameType DEF ForceClaim, ForceBackup
  <2>3. thread' \in [Thread -> ThreadState] /\ StackInv'
    BY <2>1, <2>2, PushType, SetThreadType
  <2>4. tv' \in [Thunk -> ThunkState]
    BY <1>6, <2>1, CellType, SetThunkType DEF ForceClaim, ForceBackup
  <2> QED BY <1>0, <1>6, <2>3, <2>4 DEF ForceClaim, ForceBackup, VarTypes
<1>7. ASSUME NEW p \in Thread, NEW t \in Thunk, ForceLoop(p, t)
      PROVE  TypeInv'
  <2>1. Running(p) /\ Result("loop", t) \in Outcome
    BY <1>7, OutcomeType DEF ForceLoop, At
  <2>2. thread' \in [Thread -> ThreadState] /\ StackInv'
    BY <1>7, <2>1, RaiseType, SetThreadType DEF ForceLoop, Running
  <2>3. tv' \in [Thunk -> ThunkState]
    BY <1>7, <2>1, CellType, SetThunkType DEF ForceLoop
  <2> QED BY <1>0, <1>7, <2>2, <2>3 DEF ForceLoop, VarTypes
<1>8. ASSUME NEW p \in Thread, Return(p)
      PROVE  TypeInv'
  <2>1. Running(p) /\ TopFrame(p) \in Frame
    BY <1>8, BusyThread DEF Return, Running
  <2>2. thread' \in [Thread -> ThreadState] /\ StackInv'
    BY <1>8, <2>1, ResumeType, SetThreadType DEF Return
  <2>3. TopFrame(p).kind # "command" =>
          Forced(Result(TopFrame(p).kind, TopFrame(p).name)) \in ThunkState
    BY <2>1, OutcomeType, CellType DEF Frame
  <2>4. tv' \in [Thunk -> ThunkState]
    BY <1>0, <1>8, <2>3, SetThunkType DEF Return
  <2> QED BY <1>0, <1>8, <2>2, <2>4 DEF Return, VarTypes
<1>9. ASSUME NEW p \in Thread, Throw(p)
      PROVE  TypeInv'
  <2> DEFINE f == TopFrame(p)
  <2>1. Running(p) /\ f \in Frame
    BY <1>9, BusyThread DEF Throw, Running
  <2>2. BodyOf(f).end \in {"user", "foreign"}
    BY <1>9, <2>1, BodyType DEF Throw, Body, Ends
  <2>3. Result(BodyOf(f).end, f.name) \in Outcome
    BY <2>1, <2>2, OutcomeType DEF Frame
  <2>4. thread' \in [Thread -> ThreadState] /\ StackInv'
    BY <1>9, <2>1, <2>3, RaiseType, SetThreadType DEF Throw, Running
  <2> QED BY <1>0, <1>9, <2>4 DEF Throw, VarTypes
<1>10. ASSUME NEW p \in Thread, Unwind(p)
       PROVE  TypeInv'
  <2>1. thread[p].mode = "raise" /\ thread[p].exc \in Outcome
    BY <1>10, BusyThread DEF Unwind, UnwindWith, ThreadState
  <2>2. thread' \in [Thread -> ThreadState] /\ StackInv'
    BY <1>10, <2>1, PopType, SetThreadType DEF Unwind, UnwindWith
  <2>3. tv' \in [Thunk -> ThunkState]
    BY <1>0, <1>10, <2>1, CellType, SetThunkType DEF Unwind, UnwindWith
  <2> QED BY <1>0, <1>10, <2>2, <2>3 DEF Unwind, UnwindWith, VarTypes
<1>11. CASE Interrupt
  <2>1. thread[Main].mode \in {"run", "raise"} /\ Main \in Thread
    BY <1>11, ThreadAssumption DEF ThreadAssumption, Interrupt
  <2>2. thread' \in [Thread -> ThreadState] /\ StackInv'
    BY <1>11, <2>1, OutcomeType, RaiseType, SetThreadType DEF Interrupt
  <2> QED BY <1>0, <1>11, <2>2, BoundAssumption DEF BoundAssumption, Interrupt, VarTypes
<1>12. CASE UNCHANGED vars
  BY <1>12 DEF vars, VarTypes, StackInv, WellFormed
<1> QED
  BY <1>1, <1>2, <1>3, <1>4, <1>5, <1>6, <1>7, <1>8, <1>9, <1>10, <1>11, <1>12
  DEF Next, Step, Quiescent

LEMMA TypeInit == Init => TypeInv
<1> SUFFICES ASSUME Init
             PROVE  TypeInv
  OBVIOUS
<1>1. tv \in [Thunk -> ThunkState]
  <2>1. ASSUME NEW t \in Thunk
        PROVE  tv[t] \in ThunkState
    <3>1. tv[t] = Unforced(t \in code.hasBackup) \/ tv[t] = None
      BY DEF Init
    <3>2. (t \in code.hasBackup) \in BOOLEAN
      OBVIOUS
    <3> QED BY <3>1, <3>2, CellType
  <2> QED BY <2>1 DEF Init
<1>2. thread \in [Thread -> ThreadState]
  BY OutcomeType DEF Init, ThreadState, Modes
<1>3. code \in CodeTable
  BY CodeAssumption DEF Init, CodeAssumption
<1> QED BY <1>1, <1>2, <1>3, BoundAssumption DEF BoundAssumption, Init, TypeInv, VarTypes, StackInv, WellFormed

-----------------------------------------------------------------------------
(***************************************************************************)
(* What cells hold and what is thrown.                                     *)
(***************************************************************************)

\* CellFits, of a cell s.
Fits(t, s) ==
  /\ s.tag = "under" => s.owner \in Thread
  /\ s.tag = "forced" => s.result \in {Result("main", t), Result("backup", t)}
  /\ s.tag = "forcedErr" => s.result.kind \in {"user", "loop"}
  /\ s.tag \notin {"forced", "forcedErr"} => s.result = NoResult

ThrowsError(s) == s.mode = "raise" => s.exc.kind \in {"user", "loop", "foreign"}

AllFit == \A t \in Thunk : Fits(t, tv[t])
AllThrow == \A p \in Thread : ThrowsError(thread[p])
FitInv == AllFit /\ AllThrow

LEMMA FittingCells ==
  ASSUME NEW t \in Thunk
  PROVE  /\ Fits(t, None) /\ Fits(t, Void)
         /\ \A u \in BOOLEAN : Fits(t, Unforced(u))
         /\ \A p \in Thread, u \in BOOLEAN : Fits(t, UnderEvaluation(p, u))
         /\ \A k \in {"main", "backup"} : Fits(t, Forced(Result(k, t)))
         /\ \A e \in Outcome : e.kind \in {"user", "loop"} => Fits(t, ForcedErr(e))
BY DEF Fits, None, Void, Unforced, UnderEvaluation, Forced, ForcedErr

LEMMA WriteFits ==
  ASSUME TypeInv, AllFit, NEW t \in Thunk, NEW s, Fits(t, s), SetThunk(t, s)
  PROVE  AllFit'
<1> SUFFICES ASSUME NEW u \in Thunk PROVE Fits(u, tv'[u])
  BY DEF AllFit, Fits
<1>1. tv'[u] = IF u = t THEN s ELSE tv[u]
  BY DEF TypeInv, VarTypes, SetThunk
<1> QED BY <1>1 DEF AllFit

LEMMA SameFits == ASSUME AllFit, tv' = tv PROVE AllFit'
BY DEF AllFit, Fits

LEMMA ThreadThrows ==
  ASSUME TypeInv, AllThrow, NEW p \in Thread, NEW s, ThrowsError(s), SetThread(p, s)
  PROVE  AllThrow'
<1> SUFFICES ASSUME NEW q \in Thread PROVE ThrowsError(thread'[q])
  BY DEF AllThrow, ThrowsError
<1>1. thread'[q] = IF q = p THEN s ELSE thread[q]
  BY DEF TypeInv, VarTypes, SetThread
<1> QED BY <1>1 DEF AllThrow

\* A thread that continues throws nothing; one that raises throws what it is given.
LEMMA ThrownBy ==
  ASSUME TypeInv, NEW p \in Thread, thread[p].mode \in {"run", "raise"}
  PROVE  /\ Running(p) => ThrowsError(Continue(p))
         /\ Running(p) => \A f : ThrowsError([thread[p] EXCEPT !.stack = Push(@, f)])
         /\ Running(p) => ThrowsError(Resume(p))
         /\ \A e : e.kind \in {"user", "loop", "foreign"} => ThrowsError(Raise(p, e))
<1>1. thread[p] \in ThreadState
  BY DEF TypeInv, VarTypes
<1>2. Running(p) => ThrowsError(Resume(p))
  BY <1>1 DEF Resume, Running, ThrowsError, ThreadState
<1> QED BY <1>1, <1>2 DEF Running, Continue, Raise, ThrowsError, ThreadState

LEMMA ResultKind == \A k, c : Result(k, c).kind = k
BY DEF Result

LEMMA FitStep == TypeInv /\ FitInv /\ [Next]_vars => FitInv'
<1> SUFFICES ASSUME TypeInv, AllFit, AllThrow, [Next]_vars
             PROVE  FitInv'
  BY DEF FitInv
<1>0. /\ tv \in [Thunk -> ThunkState] /\ thread \in [Thread -> ThreadState]
      /\ Main \in Thread
  BY ThreadAssumption DEF TypeInv, VarTypes, ThreadAssumption
<1>1. ASSUME NEW c \in Command, RunCommand(c)
      PROVE  FitInv'
  <2>1. ThrowsError([thread[Main] EXCEPT !.mode = "run",
                                         !.stack = <<NewFrame("command", c)>>])
    BY <1>0 DEF ThrowsError, ThreadState
  <2> QED BY <1>0, <1>1, <2>1, SameFits, ThreadThrows DEF RunCommand, FitInv
<1>2. ASSUME NEW p \in Thread, NEW t \in Thunk,
             Delay(p, t) \/ Blackhole(p, t) \/ Fill(p, t)
      PROVE  FitInv'
  <2>1. Running(p) /\ SetThread(p, Continue(p))
    BY <1>2 DEF Delay, Blackhole, Fill, At
  <2>2. AllThrow'
    BY <2>1, ThrownBy, ThreadThrows DEF Running
  <2>3. \E s : SetThunk(t, s) /\ Fits(t, s)
    <3>1. \/ SetThunk(t, Unforced(t \in code.hasBackup))
          \/ SetThunk(t, Unforced(FALSE))
          \/ SetThunk(t, Void)
          \/ SetThunk(t, Forced(Result("main", t)))
      BY <1>2 DEF Delay, Blackhole, Fill
    <3>2. (t \in code.hasBackup) \in BOOLEAN /\ FALSE \in BOOLEAN
      OBVIOUS
    <3>3. /\ Fits(t, Unforced(t \in code.hasBackup)) /\ Fits(t, Unforced(FALSE))
          /\ Fits(t, Void) /\ Fits(t, Forced(Result("main", t)))
      BY <3>2, FittingCells
    <3> QED BY <3>1, <3>3
  <2> QED BY <2>2, <2>3, WriteFits DEF FitInv
<1>3. ASSUME NEW p \in Thread, NEW t \in Thunk, Spark(p, t) \/ SparkNew(p, t)
      PROVE  FitInv'
  <2>1. Running(p)
    BY <1>3 DEF Spark, SparkNew, At
  <2>2. AllThrow'
    <3>1. CASE SetThread(p, Continue(p))
      BY <2>1, <3>1, ThrownBy, ThreadThrows DEF Running
    <3>2. ASSUME NEW q \in Thread, Fork(p, q, t)
          PROVE  AllThrow'
      <4> SUFFICES ASSUME NEW r \in Thread PROVE ThrowsError(thread'[r])
        BY DEF AllThrow, ThrowsError
      <4>1. p # q
        BY <2>1, <3>2 DEF Fork, Running
      <4>2. /\ thread'[p] = Continue(p)
            /\ thread'[q] = [thread[q] EXCEPT !.mode = "claim", !.target = t]
            /\ r \notin {p, q} => thread'[r] = thread[r]
        BY <1>0, <3>2, <4>1 DEF Fork
      <4>3. ThrowsError(thread'[q])
        BY <1>0, <4>2 DEF ThrowsError, ThreadState
      <4> QED BY <2>1, <4>2, <4>3, ThrownBy DEF AllThrow, Running
    <3> QED BY <1>3, <3>1, <3>2 DEF Spark, SparkNew
  <2>3. AllFit'
    BY <1>3, FittingCells, WriteFits, SameFits DEF Spark, SparkNew
  <2> QED BY <2>2, <2>3 DEF FitInv
<1>4. ASSUME NEW p \in Thread, SparkThunk(p)
      PROVE  FitInv'
  <2> DEFINE t == thread[p].target
             claim == [thread[p] EXCEPT !.mode = "run",
                                        !.stack = <<NewFrame("main", t)>>]
             done == [thread[p] EXCEPT !.mode = "done"]
  <2>1. t \in Thunk /\ tv[t].backup \in BOOLEAN
    BY <1>0, <1>4 DEF SparkThunk, SparkThunkIn, TypeInv, StackInv, WellFormed, ThunkState
  <2>2. ThrowsError(claim) /\ ThrowsError(done)
    BY <1>0 DEF ThrowsError, ThreadState
  <2>3. \/ SetThunk(t, UnderEvaluation(p, tv[t].backup)) /\ SetThread(p, claim)
        \/ tv' = tv /\ SetThread(p, done)
    BY <1>4 DEF SparkThunk, SparkThunkIn
  <2> HIDE DEF claim, done, t
  <2>4. AllThrow'
    BY <2>2, <2>3, ThreadThrows
  <2>5. AllFit'
    BY <2>1, <2>3, FittingCells, WriteFits, SameFits
  <2> QED BY <2>4, <2>5 DEF FitInv
<1>5. ASSUME NEW p \in Thread, NEW t \in Thunk,
             ForceEvaluated(p, t) \/ ForceVoid(p, t)
      PROVE  FitInv'
  <2>1. Running(p) /\ tv' = tv
    BY <1>5 DEF ForceEvaluated, ForceVoid, At
  <2>2. \/ SetThread(p, Continue(p))
        \/ \E e : e.kind \in {"user", "loop", "foreign"} /\ SetThread(p, Raise(p, e))
    BY <1>5, ResultKind DEF ForceEvaluated, ForceVoid, Evaluated, AllFit, Fits
  <2> QED BY <2>1, <2>2, ThrownBy, ThreadThrows, SameFits DEF FitInv, Running
<1>6. ASSUME NEW p \in Thread, NEW t \in Thunk,
             ForceClaim(p, t) \/ ForceBackup(p, t)
      PROVE  FitInv'
  <2>1. Running(p) /\ tv[t].backup \in BOOLEAN
    BY <1>0, <1>6 DEF ForceClaim, ForceBackup, At, ThunkState
  <2>2. \E f : SetThread(p, [thread[p] EXCEPT !.stack = Push(@, f)])
    BY <1>6 DEF ForceClaim, ForceBackup
  <2>3. AllThrow'
    BY <2>1, <2>2, ThrownBy, ThreadThrows DEF Running
  <2>4. AllFit'
    BY <1>6, <2>1, FittingCells, WriteFits DEF ForceClaim, ForceBackup
  <2> QED BY <2>3, <2>4 DEF FitInv
<1>7. ASSUME NEW p \in Thread, NEW t \in Thunk, ForceLoop(p, t)
      PROVE  FitInv'
  <2>1. Running(p) /\ Result("loop", t) \in Outcome
    BY <1>7, OutcomeType DEF ForceLoop, At
  <2>2. AllThrow'
    BY <1>7, <2>1, ResultKind, ThrownBy, ThreadThrows DEF ForceLoop, Running
  <2>3. AllFit'
    BY <1>7, <2>1, ResultKind, FittingCells, WriteFits DEF ForceLoop
  <2> QED BY <2>2, <2>3 DEF FitInv
<1>8. ASSUME NEW p \in Thread, Return(p)
      PROVE  FitInv'
  <2>1. Running(p) /\ TopFrame(p) \in Frame /\ SetThread(p, Resume(p))
    BY <1>8, BusyThread DEF Return, Running
  <2>2. AllThrow'
    BY <2>1, ThrownBy, ThreadThrows DEF Running
  <2>3. TopFrame(p).kind # "command" =>
          TopFrame(p).kind \in {"main", "backup"} /\ TopFrame(p).name \in Thunk
    BY <2>1 DEF Frame
  <2>4. AllFit'
    BY <1>8, <2>3, FittingCells, WriteFits, SameFits DEF Return
  <2> QED BY <2>2, <2>4 DEF FitInv
<1>9. ASSUME NEW p \in Thread, Throw(p)
      PROVE  FitInv'
  <2>1. Running(p) /\ TopFrame(p) \in Frame
    BY <1>9, BusyThread DEF Throw, Running
  <2>2. BodyOf(TopFrame(p)).end \in {"user", "foreign"}
    BY <1>9, <2>1, BodyType DEF Throw, Body, Ends
  <2> QED BY <1>9, <2>1, <2>2, ResultKind, ThrownBy, ThreadThrows, SameFits
          DEF Throw, FitInv, Running
<1>10. ASSUME NEW p \in Thread, Unwind(p)
       PROVE  FitInv'
  <2>1. /\ thread[p].mode = "raise" /\ thread[p].exc \in Outcome
        /\ thread[p] \in ThreadState /\ TopFrame(p) \in Frame
    BY <1>10, BusyThread DEF Unwind, UnwindWith, ThreadState
  <2>2. thread[p].exc.kind \in {"user", "loop", "foreign"}
    BY <2>1 DEF AllThrow, ThrowsError
  <2>3. \E s : ThrowsError(s) /\ SetThread(p, s)
    <3> DEFINE rest == Pop(thread[p].stack)
               more == [thread[p] EXCEPT !.stack = rest]
               last == [thread[p] EXCEPT !.stack = <<>>, !.exc = NoResult,
                                         !.mode = IF p = Main THEN "idle" ELSE "done"]
    <3>1. ThrowsError(more) /\ ThrowsError(last)
      BY <2>1, <2>2 DEF ThrowsError, ThreadState
    <3>2. SetThread(p, more) \/ SetThread(p, last)
      BY <1>10 DEF Unwind, UnwindWith
    <3> HIDE DEF more, last
    <3> QED BY <3>1, <3>2
  <2>4. AllThrow'
    BY <2>3, ThreadThrows
  <2>5. Stores(p) => TopFrame(p).name \in Thunk /\ thread[p].exc.kind \in {"user", "loop"}
    BY <2>1, <2>2 DEF Stores, Frame
  <2>6. AllFit'
    BY <1>10, <2>1, <2>5, FittingCells, WriteFits, SameFits DEF Unwind, UnwindWith
  <2> QED BY <2>4, <2>6 DEF FitInv
<1>11. CASE Interrupt
  <2>1. thread[Main].mode \in {"run", "raise"}
    BY <1>11 DEF Interrupt
  <2> QED BY <1>0, <1>11, <2>1, ResultKind, ThrownBy, ThreadThrows, SameFits DEF Interrupt, FitInv
<1>12. CASE UNCHANGED vars
  BY <1>12 DEF vars, FitInv, AllFit, AllThrow, Fits, ThrowsError
<1> QED
  BY <1>1, <1>2, <1>3, <1>4, <1>5, <1>6, <1>7, <1>8, <1>9, <1>10, <1>11, <1>12
  DEF Next, Step, Quiescent

\* Every variable keeps its type, whatever the computations do: a claimed thunk
\* names its claimant, an evaluated one holds a value of its own computations or
\* an EvalErrorEx, and CTRL^C and other exceptions never get into a thunk.
THEOREM TypeCorrect == Spec => []TypeOK
<1>1. TypeInv /\ FitInv => TypeOK
  BY DEF TypeInv, TypeOK, FitInv, AllFit, Fits, CellFits, Evaluated
<1>2. Init => FitInv
  <2> SUFFICES ASSUME Init PROVE FitInv
    OBVIOUS
  <2>1. ASSUME NEW t \in Thunk PROVE Fits(t, tv[t])
    <3>1. tv[t] = Unforced(t \in code.hasBackup) \/ tv[t] = None
      BY DEF Init
    <3>2. (t \in code.hasBackup) \in BOOLEAN
      OBVIOUS
    <3> QED BY <3>1, <3>2, FittingCells
  <2>2. \A p \in Thread : thread[p].mode \in {"idle", "unborn"}
    BY DEF Init
  <2> QED BY <2>1, <2>2 DEF FitInv, AllFit, AllThrow, ThrowsError
<1> QED BY <1>1, <1>2, TypeInit, TypeStep, FitStep, PTL DEF Spec

-----------------------------------------------------------------------------
(***************************************************************************)
(* Sharing.  That no computation is ever in progress twice is not          *)
(* inductive: it rests on who can have a frame for a thunk, which follows  *)
(* from the state of the thunk.  Nothing runs a thunk that has not been    *)
(* claimed; only the owner runs one that has; and while the backup is      *)
(* there, nobody runs it.  The proof assumes that a hole is filled once    *)
(* and before it is forced (FillsHole): the operation that fills it writes *)
(* without looking, and would hand out a claimed thunk a second time.      *)
(***************************************************************************)

Kinds == {"main", "backup"}

Unclaimed(t) == tv[t].tag \in {"none", "void", "unforced"}

SharingInv ==
  \A t \in Thunk :
    /\ \A p \in Thread, k \in Kinds : \A i \in 1..Len(thread[p].stack) :
         Runs(p, i, k, t) =>
           /\ ~Unclaimed(t)
           /\ tv[t].tag = "under" => tv[t].owner = p
           /\ k = "backup" => ~tv[t].backup
    /\ tv[t].backup => tv[t].tag \in {"unforced", "under"}

\* A step after which every frame that runs a thunk was there before.
FewerFrames ==
  \A p \in Thread, k \in Kinds, t \in Thunk, i \in Nat :
    Runs(p, i, k, t)' => Runs(p, i, k, t)

\* A step after which the frame at position j of thread q is the only new one.
OneMoreFrame(q, j, m, u) ==
  \A p \in Thread, k \in Kinds, t \in Thunk, i \in Nat :
    Runs(p, i, k, t)' => \/ Runs(p, i, k, t)
                         \/ p = q /\ i = j /\ k = m /\ t = u

\* What a step may do to a thunk whose claim it does not change.
KeepsClaim(t) ==
  \/ tv'[t] = tv[t]
  \/ tv'[t].tag \in {"forced", "forcedErr"} /\ ~tv'[t].backup
  \/ tv[t].tag \in {"none", "void"} /\ tv'[t].tag \in {"void", "unforced"}
     /\ (tv'[t].backup => tv'[t].tag = "unforced")

LEMMA SharingShrink ==
  ASSUME SharingInv, OneEvaluator, FewerFrames, \A t \in Thunk : KeepsClaim(t)
  PROVE  SharingInv' /\ OneEvaluator'
<1>1. ASSUME NEW t \in Thunk, NEW p \in Thread, NEW k \in Kinds,
             NEW i \in 1..Len(thread'[p].stack), Runs(p, i, k, t)'
      PROVE  Runs(p, i, k, t) /\ i \in 1..Len(thread[p].stack)
  BY <1>1 DEF FewerFrames, Runs
<1>2. OneEvaluator'
  BY <1>1 DEF OneEvaluator, Kinds
<1>3. ASSUME NEW t \in Thunk, NEW p \in Thread, NEW k \in Kinds,
             NEW i \in 1..Len(thread'[p].stack), Runs(p, i, k, t)'
      PROVE  /\ ~Unclaimed(t)'
             /\ tv'[t].tag = "under" => tv'[t].owner = p
             /\ k = "backup" => ~tv'[t].backup
  <2>1. /\ ~Unclaimed(t)
        /\ tv[t].tag = "under" => tv[t].owner = p
        /\ k = "backup" => ~tv[t].backup
    BY <1>1, <1>3 DEF SharingInv
  <2> QED BY <2>1 DEF KeepsClaim, Unclaimed
<1>4. \A t \in Thunk : tv'[t].backup => tv'[t].tag \in {"unforced", "under"}
  BY DEF KeepsClaim, SharingInv
<1> QED BY <1>2, <1>3, <1>4 DEF SharingInv

LEMMA SharingGrow ==
  ASSUME SharingInv, OneEvaluator, TypeInv,
         NEW q \in Thread, NEW j \in Nat, NEW m \in Kinds, NEW u \in Thunk,
         NEW w \in BOOLEAN,
         OneMoreFrame(q, j, m, u), SetThunk(u, UnderEvaluation(q, w)),
         \/ m = "main" /\ tv[u].tag = "unforced"
         \/ m = "backup" /\ tv[u].tag = "under" /\ tv[u].owner = q
            /\ tv[u].backup /\ w = FALSE
  PROVE  SharingInv' /\ OneEvaluator'
<1>1. ASSUME NEW t \in Thunk, NEW p \in Thread, NEW k \in Kinds,
             NEW i \in 1..Len(thread'[p].stack), Runs(p, i, k, t)'
      PROVE  \/ Runs(p, i, k, t) /\ i \in 1..Len(thread[p].stack)
             \/ p = q /\ i = j /\ k = m /\ t = u
  BY <1>1 DEF OneMoreFrame, Runs
<1>2. ASSUME NEW p \in Thread, NEW i \in 1..Len(thread[p].stack)
      PROVE  ~Runs(p, i, m, u)
  BY <1>2 DEF SharingInv, Unclaimed, Kinds
<1>3. OneEvaluator'
  <2> SUFFICES ASSUME NEW t \in Thunk, NEW k \in Kinds,
                      NEW p \in Thread, NEW r \in Thread,
                      NEW i \in 1..Len(thread'[p].stack),
                      NEW l \in 1..Len(thread'[r].stack),
                      Runs(p, i, k, t)', Runs(r, l, k, t)'
               PROVE  p = r /\ i = l
    BY DEF OneEvaluator, Kinds
  <2>1. CASE k = m /\ t = u
    BY <1>1, <1>2, <2>1
  <2>2. CASE ~(k = m /\ t = u)
    BY <1>1, <2>2 DEF OneEvaluator, Kinds
  <2> QED BY <2>1, <2>2
<1>4. /\ tv'[u].tag = "under" /\ tv'[u].owner = q /\ tv'[u].backup = w
      /\ \A t \in Thunk : t # u => tv'[t] = tv[t]
  BY DEF SetThunk, UnderEvaluation, None, TypeInv, VarTypes
<1>5. ASSUME NEW t \in Thunk, NEW p \in Thread, NEW k \in Kinds,
             NEW i \in 1..Len(thread'[p].stack), Runs(p, i, k, t)'
      PROVE  /\ ~Unclaimed(t)'
             /\ tv'[t].tag = "under" => tv'[t].owner = p
             /\ k = "backup" => ~tv'[t].backup
  <2>1. CASE t # u
    BY <1>1, <1>4, <1>5, <2>1 DEF SharingInv, Unclaimed
  <2>2. CASE t = u /\ m = "main"
    BY <1>1, <1>4, <1>5, <2>2 DEF SharingInv, Unclaimed, Kinds
  <2>3. CASE t = u /\ m = "backup"
    BY <1>1, <1>4, <1>5, <2>3 DEF SharingInv, Unclaimed, Kinds
  <2> QED BY <2>1, <2>2, <2>3 DEF Kinds
<1>6. \A t \in Thunk : tv'[t].backup => tv'[t].tag \in {"unforced", "under"}
  BY <1>4 DEF SharingInv
<1> QED BY <1>3, <1>5, <1>6 DEF SharingInv

-----------------------------------------------------------------------------
(***************************************************************************)
(* What the ways in which a step changes a stack do to the frames.         *)
(***************************************************************************)

\* Every frame of s that runs a thunk is one of stack r, at the same place.
Within(s, r) ==
  \A i \in 1..Len(s) :
    \/ s[i].kind = "command"
    \/ i \in 1..Len(r) /\ s[i].kind = r[i].kind /\ s[i].name = r[i].name

LEMMA WithinFewer ==
  ASSUME TypeInv, NEW p \in Thread, NEW s \in ThreadState, SetThread(p, s),
         Within(s.stack, thread[p].stack)
  PROVE  FewerFrames
<1>1. /\ thread'[p] = s
      /\ \A q \in Thread : q # p => thread'[q] = thread[q]
  BY DEF SetThread, TypeInv, VarTypes
<1> QED BY <1>1 DEF FewerFrames, Runs, Within, Kinds

LEMMA SameStackFewer ==
  ASSUME TypeInv, NEW p \in Thread, NEW s \in ThreadState, SetThread(p, s),
         s.stack = thread[p].stack
  PROVE  FewerFrames
BY WithinFewer DEF Within

LEMMA ContinueFewer ==
  ASSUME TypeInv, NEW p \in Thread, Running(p), SetThread(p, Continue(p))
  PROVE  FewerFrames
<1>1. Continue(p) \in ThreadState /\ Continue(p).stack = Advance(thread[p].stack)
  BY ContinueType, BusyThread DEF Continue, ThreadState, Running
<1>2. Within(Advance(thread[p].stack), thread[p].stack)
  BY BusyThread, AdvanceStack DEF Within, Running
<1> QED BY <1>1, <1>2, WithinFewer

LEMMA ForkFewer ==
  ASSUME TypeInv, NEW p \in Thread, NEW q \in Thread, NEW t \in Thunk,
         Running(p), Fork(p, q, t)
  PROVE  FewerFrames
<1>1. p # q
  BY DEF Fork, Running
<1>2. /\ thread'[p] = Continue(p)
      /\ thread'[q].stack = thread[q].stack
      /\ \A r \in Thread \ {p, q} : thread'[r] = thread[r]
  BY <1>1 DEF TypeInv, VarTypes, Fork, ThreadState
<1>3. thread'[p].stack = Advance(thread[p].stack)
  BY <1>2, BusyThread DEF Continue, ThreadState, Running
<1>4. Within(thread'[p].stack, thread[p].stack)
  BY <1>3, BusyThread, AdvanceStack DEF Within, Running
<1>5. ASSUME NEW r \in Thread, NEW k \in Kinds, NEW u \in Thunk, NEW i \in Nat,
             Runs(r, i, k, u)'
      PROVE  Runs(r, i, k, u)
  <2>1. CASE r = p
    BY <1>4, <1>5, <2>1 DEF Runs, Within, Kinds
  <2>2. CASE r = q
    BY <1>2, <1>5, <2>2 DEF Runs
  <2>3. CASE r \in Thread \ {p, q}
    BY <1>2, <1>5, <2>3 DEF Runs
  <2> QED BY <2>1, <2>2, <2>3
<1> QED BY <1>5 DEF FewerFrames

LEMMA PopFewer ==
  ASSUME TypeInv, NEW p \in Thread, NEW s \in ThreadState, SetThread(p, s),
         thread[p].mode \in {"run", "raise"},
         \/ s.stack = <<>>
         \/ s.stack = Pop(thread[p].stack)
         \/ s.stack = Advance(Pop(thread[p].stack)) /\ Pop(thread[p].stack) # <<>>
  PROVE  FewerFrames
<1> DEFINE r == thread[p].stack
<1>1. r \in Seq(Frame) /\ r # <<>>
  BY BusyThread
<1>2. /\ Pop(r) \in Seq(Frame)
      /\ Len(Pop(r)) = Len(r) - 1
      /\ \A i \in 1..(Len(r) - 1) : Pop(r)[i] = r[i]
  BY <1>1, PopStack
<1>3. CASE s.stack = <<>>
  BY <1>3, WithinFewer DEF Within
<1>4. CASE s.stack = Pop(r)
  BY <1>1, <1>2, <1>4, WithinFewer DEF Within
<1>5. CASE s.stack = Advance(Pop(r)) /\ Pop(r) # <<>>
  <2>1. /\ Len(s.stack) = Len(r) - 1
        /\ \A i \in 1..(Len(r) - 1) : /\ s.stack[i].kind = r[i].kind
                                      /\ s.stack[i].name = r[i].name
    BY <1>2, <1>5, AdvanceStack
  <2> QED BY <1>1, <2>1, WithinFewer DEF Within
<1> QED BY <1>3, <1>4, <1>5

LEMMA PushMore ==
  ASSUME TypeInv, NEW p \in Thread, Running(p),
         NEW m \in Kinds, NEW u \in Thunk,
         SetThread(p, [thread[p] EXCEPT !.stack = Push(@, NewFrame(m, u))])
  PROVE  OneMoreFrame(p, Len(thread[p].stack) + 1, m, u)
<1> DEFINE r == thread[p].stack
           f == NewFrame(m, u)
<1>1. r \in Seq(Frame) /\ f \in Frame /\ thread[p] \in ThreadState
  BY BusyThread, NewFrameType DEF Running, Kinds
<1>2. /\ thread'[p].stack = Push(r, f)
      /\ \A q \in Thread : q # p => thread'[q] = thread[q]
  BY <1>1 DEF SetThread, TypeInv, VarTypes, ThreadState
<1>3. /\ Len(Push(r, f)) = Len(r) + 1
      /\ \A i \in 1..Len(r) : Push(r, f)[i] = r[i]
      /\ Push(r, f)[Len(r) + 1] = f
  BY <1>1, PushStack
<1>4. f.kind = m /\ f.name = u
  BY DEF NewFrame
<1>5. ASSUME NEW q \in Thread, NEW k \in Kinds, NEW t \in Thunk, NEW i \in Nat,
             Runs(q, i, k, t)'
      PROVE  \/ Runs(q, i, k, t)
             \/ q = p /\ i = Len(r) + 1 /\ k = m /\ t = u
  <2>1. CASE q # p
    BY <1>2, <1>5, <2>1 DEF Runs
  <2>2. CASE q = p /\ i \in 1..Len(r)
    BY <1>2, <1>3, <1>5, <2>2 DEF Runs
  <2>3. CASE q = p /\ i \notin 1..Len(r)
    <3>1. i = Len(r) + 1
      BY <1>1, <1>2, <1>3, <1>5, <2>3 DEF Runs
    <3> QED BY <1>2, <1>3, <1>4, <1>5, <2>3, <3>1 DEF Runs
  <2> QED BY <2>1, <2>2, <2>3
<1> QED BY <1>5 DEF OneMoreFrame

-----------------------------------------------------------------------------
IInv == TypeInv /\ SharingInv /\ OneEvaluator

LEMMA CellTags ==
  /\ None.tag = "none" /\ None.backup = FALSE
  /\ Void.tag = "void" /\ Void.backup = FALSE
  /\ \A u : Unforced(u).tag = "unforced" /\ Unforced(u).backup = u
  /\ \A p, u : /\ UnderEvaluation(p, u).tag = "under"
               /\ UnderEvaluation(p, u).owner = p
               /\ UnderEvaluation(p, u).backup = u
  /\ \A e : ForcedErr(e).tag = "forcedErr" /\ ForcedErr(e).backup = FALSE
  /\ \A e : Forced(e).tag = "forced" /\ Forced(e).backup = FALSE
BY DEF None, Void, Unforced, UnderEvaluation, ForcedErr, Forced

\* Writing an outcome, or what creating and filling a thunk writes, changes no
\* claim.
LEMMA WriteKeepsClaim ==
  ASSUME TypeInv, NEW u \in Thunk, NEW s \in ThunkState, SetThunk(u, s),
         \/ s.tag \in {"forced", "forcedErr"} /\ ~s.backup
         \/ tv[u].tag \in {"none", "void"} /\ s.tag \in {"void", "unforced"}
            /\ (s.backup => s.tag = "unforced")
  PROVE  \A t \in Thunk : KeepsClaim(t)
BY DEF TypeInv, VarTypes, SetThunk, KeepsClaim

LEMMA SharingStep == IInv /\ FillsHole /\ [Next]_vars => SharingInv' /\ OneEvaluator'
<1> SUFFICES ASSUME IInv, FillsHole, [Next]_vars
             PROVE  SharingInv' /\ OneEvaluator'
  OBVIOUS
<1> USE DEF IInv
<1>0. /\ tv \in [Thunk -> ThunkState]
      /\ thread \in [Thread -> ThreadState]
  BY DEF TypeInv, VarTypes
<1>a. ASSUME UNCHANGED tv
      PROVE  \A t \in Thunk : KeepsClaim(t)
  BY <1>a DEF KeepsClaim
<1>1. ASSUME NEW c \in Command, RunCommand(c)
      PROVE  SharingInv' /\ OneEvaluator'
  <2> DEFINE s == [thread[Main] EXCEPT !.mode = "run",
                                       !.stack = <<NewFrame("command", c)>>]
  <2>1. /\ Main \in Thread /\ s \in ThreadState /\ SetThread(Main, s)
        /\ Within(s.stack, thread[Main].stack)
    <3>1. Main \in Thread /\ thread[Main] \in ThreadState
      BY <1>0, ThreadAssumption DEF ThreadAssumption
    <3>2. <<NewFrame("command", c)>> \in Seq(Frame)
      BY NewFrameType
    <3>3. s \in ThreadState /\ s.stack = <<NewFrame("command", c)>>
      BY <3>1, <3>2 DEF ThreadState, Modes
    <3>4. NewFrame("command", c).kind = "command"
      BY DEF NewFrame
    <3> QED BY <1>1, <3>1, <3>3, <3>4 DEF RunCommand, Within
  <2>2. FewerFrames
    BY <2>1, WithinFewer
  <2> QED BY <1>1, <1>a, <2>2, SharingShrink DEF RunCommand
<1>2. ASSUME NEW p \in Thread, NEW t \in Thunk,
             Delay(p, t) \/ Blackhole(p, t) \/ Fill(p, t)
      PROVE  SharingInv' /\ OneEvaluator'
  <2>1. FewerFrames
    BY <1>2, ContinueFewer DEF Delay, Blackhole, Fill, At
  <2>2. tv[t].tag \in {"none", "void"}
    BY <1>2, CellTags DEF Delay, Blackhole, Fill, FillsHole
  <2>3. /\ (t \in code.hasBackup) \in BOOLEAN /\ FALSE \in BOOLEAN
        /\ Result("main", t) \in Outcome
    BY OutcomeType
  <2>4. /\ Unforced(t \in code.hasBackup) \in ThunkState
        /\ Unforced(FALSE) \in ThunkState
        /\ Void \in ThunkState
        /\ Forced(Result("main", t)) \in ThunkState
    BY <2>3, CellType
  <2>5. \/ SetThunk(t, Unforced(t \in code.hasBackup))
        \/ SetThunk(t, Unforced(FALSE))
        \/ SetThunk(t, Void)
        \/ SetThunk(t, Forced(Result("main", t)))
    BY <1>2 DEF Delay, Blackhole, Fill
  <2>6. \A u \in Thunk : KeepsClaim(u)
    BY <2>2, <2>4, <2>5, CellTags, WriteKeepsClaim
  <2> QED BY <2>1, <2>6, SharingShrink
<1>3. ASSUME NEW p \in Thread, NEW t \in Thunk, Spark(p, t) \/ SparkNew(p, t)
      PROVE  SharingInv' /\ OneEvaluator'
  <2>1. Running(p)
    BY <1>3 DEF Spark, SparkNew, At
  <2>2. \/ SetThread(p, Continue(p))
        \/ \E q \in Thread : Fork(p, q, t)
    BY <1>3 DEF Spark, SparkNew
  <2>3. FewerFrames
    BY <2>1, <2>2, ContinueFewer, ForkFewer
  <2>4. CASE Spark(p, t)
    BY <1>a, <2>3, <2>4, SharingShrink DEF Spark
  <2>5. CASE SparkNew(p, t)
    <3>1. Unforced(FALSE) \in ThunkState
      BY CellType
    <3>2. \A u \in Thunk : KeepsClaim(u)
      BY <2>5, <3>1, CellTags, WriteKeepsClaim DEF SparkNew
    <3> QED BY <2>3, <3>2, SharingShrink
  <2> QED BY <1>3, <2>4, <2>5
<1>4. ASSUME NEW p \in Thread, SparkThunk(p)
      PROVE  SharingInv' /\ OneEvaluator'
  <2> DEFINE t == thread[p].target
             s == [thread[p] EXCEPT !.mode = "run",
                                    !.stack = <<NewFrame("main", t)>>]
  <2>1. t \in Thunk /\ thread[p] \in ThreadState
    BY <1>4 DEF SparkThunk, SparkThunkIn, TypeInv, VarTypes, StackInv, WellFormed
  <2>2. CASE tv[t].tag = "unforced"
    <3>1. SetThunk(t, UnderEvaluation(p, tv[t].backup)) /\ SetThread(p, s)
      BY <1>4, <2>2 DEF SparkThunk, SparkThunkIn
    <3>2. /\ thread'[p].stack = <<NewFrame("main", t)>>
          /\ \A q \in Thread : q # p => thread'[q] = thread[q]
      BY <1>0, <2>1, <3>1 DEF SetThread, ThreadState
    <3>3. NewFrame("main", t).kind = "main" /\ NewFrame("main", t).name = t
      BY DEF NewFrame
    <3>4. OneMoreFrame(p, 1, "main", t)
      BY <3>2, <3>3 DEF OneMoreFrame, Runs
    <3>5. tv[t].backup \in BOOLEAN
      BY <1>0, <2>1 DEF ThunkState
    <3> QED BY <2>1, <2>2, <3>1, <3>4, <3>5, SharingGrow DEF Kinds
  <2>3. CASE tv[t].tag # "unforced"
    <3> DEFINE d == [thread[p] EXCEPT !.mode = "done"]
    <3>1. SetThread(p, d) /\ UNCHANGED tv
      BY <1>4, <2>3 DEF SparkThunk, SparkThunkIn
    <3>2. d \in ThreadState /\ d.stack = thread[p].stack
      BY <2>1 DEF ThreadState, Modes
    <3> QED BY <1>a, <3>1, <3>2, SameStackFewer, SharingShrink
  <2> QED BY <2>2, <2>3
<1>5. ASSUME NEW p \in Thread, NEW e \in Outcome,
             thread[p].mode \in {"run", "raise"}, SetThread(p, Raise(p, e))
      PROVE  FewerFrames
  <2>1. Raise(p, e) \in ThreadState /\ Raise(p, e).stack = thread[p].stack
    <3>1. Raise(p, e) \in ThreadState
      BY <1>0, <1>5, RaiseType
    <3>2. Raise(p, e).stack = thread[p].stack
      BY <1>0 DEF Raise, ThreadState
    <3> QED BY <3>1, <3>2
  <2> QED BY <1>5, <2>1, SameStackFewer
<1>6. ASSUME NEW p \in Thread, NEW t \in Thunk,
             ForceEvaluated(p, t) \/ ForceVoid(p, t)
      PROVE  SharingInv' /\ OneEvaluator'
  <2>1. Running(p) /\ tv[t].result \in Outcome /\ UNCHANGED tv
    BY <1>0, <1>6 DEF ForceEvaluated, ForceVoid, At, ThunkState
  <2>2. \/ SetThread(p, Continue(p))
        \/ \E e \in Outcome : SetThread(p, Raise(p, e))
    BY <1>6, <2>1, OutcomeType DEF ForceEvaluated, ForceVoid
  <2>3. FewerFrames
    BY <1>5, <2>1, <2>2, ContinueFewer DEF Running
  <2> QED BY <1>a, <2>1, <2>3, SharingShrink
<1>7. ASSUME NEW p \in Thread, NEW t \in Thunk, ForceClaim(p, t)
      PROVE  SharingInv' /\ OneEvaluator'
  <2>1. /\ Running(p) /\ tv[t].tag = "unforced" /\ tv[t].backup \in BOOLEAN
        /\ SetThunk(t, UnderEvaluation(p, tv[t].backup))
    BY <1>0, <1>7 DEF ForceClaim, At, ThunkState
  <2>2. OneMoreFrame(p, Len(thread[p].stack) + 1, "main", t)
    BY <1>7, <2>1, PushMore DEF ForceClaim, Kinds
  <2>3. Len(thread[p].stack) + 1 \in Nat
    BY <2>1, BusyThread DEF Running
  <2> QED BY <2>1, <2>2, <2>3, SharingGrow DEF Kinds
<1>8. ASSUME NEW p \in Thread, NEW t \in Thunk, ForceBackup(p, t)
      PROVE  SharingInv' /\ OneEvaluator'
  <2>1. /\ Running(p) /\ tv[t].tag = "under" /\ tv[t].owner = p /\ tv[t].backup
        /\ SetThunk(t, UnderEvaluation(p, FALSE))
    BY <1>8 DEF ForceBackup, At
  <2>2. OneMoreFrame(p, Len(thread[p].stack) + 1, "backup", t)
    BY <1>8, <2>1, PushMore DEF ForceBackup, Kinds
  <2>3. Len(thread[p].stack) + 1 \in Nat
    BY <2>1, BusyThread DEF Running
  <2> QED BY <2>1, <2>2, <2>3, SharingGrow DEF Kinds
<1>9. ASSUME NEW p \in Thread, NEW t \in Thunk, ForceLoop(p, t)
      PROVE  SharingInv' /\ OneEvaluator'
  <2>1. Running(p) /\ Result("loop", t) \in Outcome
    BY <1>9, OutcomeType DEF ForceLoop, At
  <2>2. FewerFrames
    BY <1>5, <1>9, <2>1 DEF ForceLoop, Running
  <2>3. ForcedErr(Result("loop", t)) \in ThunkState
    BY <2>1, CellType
  <2>4. \A u \in Thunk : KeepsClaim(u)
    BY <1>9, <2>3, CellTags, WriteKeepsClaim DEF ForceLoop
  <2> QED BY <2>2, <2>4, SharingShrink
<1>10. ASSUME NEW p \in Thread, Return(p)
       PROVE  SharingInv' /\ OneEvaluator'
  <2> DEFINE f == TopFrame(p)
             v == Forced(Result(f.kind, f.name))
  <2>1. Running(p) /\ f \in Frame /\ thread[p] \in ThreadState
    BY <1>10, BusyThread DEF Return, Running
  <2>2. Resume(p) \in ThreadState
    BY <2>1, ResumeType
  <2>3. \/ Resume(p).stack = <<>>
        \/ /\ Resume(p).stack = Advance(Pop(thread[p].stack))
           /\ Pop(thread[p].stack) # <<>>
    BY <2>1 DEF Resume, ThreadState
  <2>4. FewerFrames
    BY <1>10, <2>1, <2>2, <2>3, PopFewer DEF Return, Running
  <2>5. CASE f.kind = "command"
    BY <1>a, <1>10, <2>4, <2>5, SharingShrink DEF Return
  <2>6. CASE f.kind # "command"
    <3>1. f.name \in Thunk /\ v \in ThunkState
      BY <2>1, <2>6, OutcomeType, CellType DEF Frame
    <3>2. \A u \in Thunk : KeepsClaim(u)
      BY <1>10, <2>6, <3>1, CellTags, WriteKeepsClaim DEF Return
    <3> QED BY <2>4, <3>2, SharingShrink
  <2> QED BY <2>5, <2>6
<1>11. ASSUME NEW p \in Thread, Throw(p)
       PROVE  SharingInv' /\ OneEvaluator'
  <2> DEFINE f == TopFrame(p)
  <2>1. Running(p) /\ f \in Frame
    BY <1>11, BusyThread DEF Throw, Running
  <2>2. BodyOf(f).end \in {"user", "foreign"}
    BY <1>11, <2>1, BodyType DEF Throw, Body, Ends
  <2>3. Result(BodyOf(f).end, f.name) \in Outcome
    BY <2>1, <2>2, OutcomeType DEF Frame
  <2>4. FewerFrames
    BY <1>5, <1>11, <2>1, <2>3 DEF Throw, Running
  <2> QED BY <1>a, <1>11, <2>4, SharingShrink DEF Throw
<1>12. ASSUME NEW p \in Thread, Unwind(p)
       PROVE  SharingInv' /\ OneEvaluator'
  <2> DEFINE f == TopFrame(p)
             rest == Pop(thread[p].stack)
             s == IF rest # <<>>
                  THEN [thread[p] EXCEPT !.stack = rest]
                  ELSE [thread[p] EXCEPT
                          !.stack = <<>>, !.exc = NoResult,
                          !.mode = IF p = Main THEN "idle" ELSE "done"]
  <2>1. /\ thread[p].mode = "raise" /\ SetThread(p, s)
        /\ thread[p] \in ThreadState /\ f \in Frame
    BY <1>12, BusyThread DEF Unwind, UnwindWith
  <2>2. s \in ThreadState
    BY <2>1, PopType
  <2>3. s.stack = rest \/ s.stack = <<>>
    BY <2>1 DEF ThreadState
  <2>4. FewerFrames
    BY <2>1, <2>2, <2>3, PopFewer
  <2>5. CASE UNCHANGED tv
    BY <1>a, <2>4, <2>5, SharingShrink
  <2>6. CASE ~UNCHANGED tv
    <3>1. f.kind # "command" /\ SetThunk(f.name, ForcedErr(thread[p].exc))
      BY <1>12, <2>6 DEF Unwind, UnwindWith, Stores
    <3>2. f.name \in Thunk /\ ForcedErr(thread[p].exc) \in ThunkState
      BY <2>1, <3>1, CellType DEF Frame, ThreadState
    <3>3. \A u \in Thunk : KeepsClaim(u)
      BY <3>1, <3>2, CellTags, WriteKeepsClaim
    <3> QED BY <2>4, <3>3, SharingShrink
  <2> QED BY <2>5, <2>6
<1>13. CASE Interrupt
  <2>1. /\ thread[Main].mode \in {"run", "raise"} /\ Main \in Thread
        /\ Result("foreign", NoThread) \in Outcome
    BY <1>13, ThreadAssumption, OutcomeType DEF ThreadAssumption, Interrupt
  <2>2. FewerFrames
    BY <1>5, <1>13, <2>1 DEF Interrupt
  <2> QED BY <1>a, <1>13, <2>2, SharingShrink DEF Interrupt
<1>14. CASE UNCHANGED vars
  BY <1>14 DEF vars, SharingInv, OneEvaluator, Runs, Unclaimed
<1> QED
  BY <1>1, <1>2, <1>3, <1>4, <1>6, <1>7, <1>8, <1>9, <1>10, <1>11, <1>12,
     <1>13, <1>14
  DEF Next, Step, Quiescent

LEMMA SharingInit == Init => SharingInv /\ OneEvaluator
<1> SUFFICES ASSUME Init
             PROVE  SharingInv /\ OneEvaluator
  OBVIOUS
<1>1. \A p \in Thread : thread[p].stack = <<>>
  BY DEF Init
<1>2. \A p \in Thread : 1..Len(thread[p].stack) = {}
  BY <1>1
<1>3. \A t \in Thunk : tv[t].tag \in {"none", "unforced"}
                       /\ (tv[t].backup => tv[t].tag = "unforced")
  BY CellTags DEF Init
<1> QED BY <1>2, <1>3 DEF SharingInv, OneEvaluator

\* Sharing: as long as the operation that fills a hole is applied to a hole
\* nobody has filled, no computation is ever in progress twice, whatever the
\* computations do, however many threads run them, and whoever is interrupted.
THEOREM Sharing == Spec /\ []FillsHole => []OneEvaluator
<1>1. Init => IInv
  BY TypeInit, SharingInit DEF IInv
<1>2. IInv /\ FillsHole /\ [Next]_vars => IInv'
  BY TypeStep, SharingStep DEF IInv
<1>3. IInv => OneEvaluator
  BY DEF IInv
<1> QED BY <1>1, <1>2, <1>3, PTL DEF Spec

-----------------------------------------------------------------------------
(***************************************************************************)
(* The life of a thunk.                                                    *)
(***************************************************************************)

LEMMA RankUp ==
  ASSUME TypeInv, NEW u \in Thunk, NEW s \in ThunkState, SetThunk(u, s),
         Rank(tv[u]) <= Rank(s)
  PROVE  \A t \in Thunk : Rank(tv[t]) <= Rank(tv'[t])
<1>1. \A t \in Thunk : t # u => tv'[t] = tv[t]
  BY DEF TypeInv, VarTypes, SetThunk
<1>2. tv'[u] = s
  BY DEF TypeInv, VarTypes, SetThunk
<1>3. \A r \in ThunkState : Rank(r) \in 0..4
  BY DEF Rank, Order, ThunkState, Tags
<1>4. \A t \in Thunk : Rank(tv[t]) <= Rank(tv[t])
  BY <1>3 DEF TypeInv, VarTypes
<1>5. \A t \in Thunk : t = u \/ t # u
  OBVIOUS
<1> QED BY <1>1, <1>2, <1>4, <1>5

LEMMA RankStep ==
  TypeInv /\ FillsHole /\ [Next]_vars =>
    [\A t \in Thunk : Rank(tv[t]) <= Rank(tv'[t])]_vars
<1> SUFFICES ASSUME TypeInv, FillsHole, Next
             PROVE  \A t \in Thunk : Rank(tv[t]) <= Rank(tv'[t])
  OBVIOUS
<1>a. ASSUME UNCHANGED tv
      PROVE  \A t \in Thunk : Rank(tv[t]) <= Rank(tv'[t])
  <2>1. \A r \in ThunkState : Rank(r) \in 0..4
    BY DEF Rank, Order, ThunkState, Tags
  <2> QED BY <1>a, <2>1 DEF TypeInv, VarTypes
<1>b. /\ \A r : r.tag = "none" => Rank(r) = 0
      /\ \A r : r.tag = "void" => Rank(r) = 1
      /\ \A r : r.tag = "unforced" => Rank(r) = 2
      /\ \A r : r.tag = "under" => Rank(r) = 3
      /\ \A r : r.tag \in {"forced", "forcedErr"} => Rank(r) = 4
      /\ \A r \in ThunkState : Rank(r) \in 0..4
  BY DEF Rank, Order, ThunkState, Tags
\* A step that changes a thunk writes one of these.
<1>c. ASSUME NEW u \in Thunk, NEW s \in ThunkState, SetThunk(u, s),
             \/ tv[u].tag = "none"
             \/ tv[u].tag = "void" /\ s.tag # "none" /\ s.tag # "void"
             \/ tv[u].tag = "unforced" /\ s.tag = "under"
             \/ tv[u].tag = "under" /\ s.tag = "under"
             \/ s.tag \in {"forced", "forcedErr"}
      PROVE  \A t \in Thunk : Rank(tv[t]) <= Rank(tv'[t])
  <2>1. tv[u] \in ThunkState
    BY DEF TypeInv, VarTypes
  <2>2. Rank(tv[u]) <= Rank(s)
    BY <1>b, <1>c, <2>1 DEF ThunkState, Tags
  <2> QED BY <1>c, <2>2, RankUp
<1>1. ASSUME NEW p \in Thread, NEW t \in Thunk,
             \/ Delay(p, t) \/ Blackhole(p, t) \/ Fill(p, t) \/ SparkNew(p, t)
      PROVE  \A u \in Thunk : Rank(tv[u]) <= Rank(tv'[u])
  <2>1. /\ (t \in code.hasBackup) \in BOOLEAN /\ FALSE \in BOOLEAN
        /\ Result("main", t) \in Outcome
    BY OutcomeType
  <2>2. /\ Unforced(t \in code.hasBackup) \in ThunkState
        /\ Unforced(FALSE) \in ThunkState
        /\ Void \in ThunkState
        /\ Forced(Result("main", t)) \in ThunkState
    BY <2>1, CellType
  <2>3. CASE Delay(p, t) \/ Blackhole(p, t) \/ SparkNew(p, t)
    <3>1. tv[t].tag = "none"
      BY <2>3, CellTags DEF Delay, Blackhole, SparkNew
    <3> QED BY <1>c, <2>2, <2>3, <3>1 DEF Delay, Blackhole, SparkNew
  <2>4. CASE Fill(p, t)
    <3>1. tv[t].tag = "void"
      BY <2>4 DEF Fill, FillsHole
    <3> QED BY <1>c, <2>2, <2>4, <3>1, CellTags DEF Fill
  <2> QED BY <1>1, <2>3, <2>4
<1>2. ASSUME NEW p \in Thread, NEW t \in Thunk,
             SetThunk(t, UnderEvaluation(p, tv[t].backup)), tv[t].tag = "unforced"
      PROVE  \A u \in Thunk : Rank(tv[u]) <= Rank(tv'[u])
  <2>1. tv[t].backup \in BOOLEAN
    BY DEF TypeInv, VarTypes, ThunkState
  <2>2. UnderEvaluation(p, tv[t].backup) \in ThunkState
    BY <2>1, CellType
  <2> QED BY <1>2, <1>c, <2>2, CellTags
<1>3. ASSUME NEW p \in Thread, SparkThunk(p)
      PROVE  \A u \in Thunk : Rank(tv[u]) <= Rank(tv'[u])
  <2>1. thread[p].target \in Thunk
    BY <1>3 DEF SparkThunk, SparkThunkIn, TypeInv, StackInv, WellFormed
  <2> QED BY <1>2, <1>3, <1>a, <2>1 DEF SparkThunk, SparkThunkIn
<1>4. ASSUME NEW p \in Thread, NEW t \in Thunk,
             \/ ForceClaim(p, t) \/ ForceBackup(p, t) \/ ForceLoop(p, t)
      PROVE  \A u \in Thunk : Rank(tv[u]) <= Rank(tv'[u])
  <2>1. CASE ForceClaim(p, t)
    BY <1>2, <2>1 DEF ForceClaim
  <2>2. CASE ForceBackup(p, t)
    <3>1. UnderEvaluation(p, FALSE) \in ThunkState
      BY CellType
    <3> QED BY <1>c, <2>2, <3>1, CellTags DEF ForceBackup
  <2>3. CASE ForceLoop(p, t)
    <3>1. ForcedErr(Result("loop", t)) \in ThunkState
      BY OutcomeType, CellType
    <3> QED BY <1>c, <2>3, <3>1, CellTags DEF ForceLoop
  <2> QED BY <1>4, <2>1, <2>2, <2>3
<1>5. ASSUME NEW p \in Thread, Return(p)
      PROVE  \A u \in Thunk : Rank(tv[u]) <= Rank(tv'[u])
  <2> DEFINE f == TopFrame(p)
             v == Forced(Result(f.kind, f.name))
  <2>1. f \in Frame
    BY <1>5, BusyThread DEF Return, Running
  <2>2. CASE f.kind = "command"
    BY <1>a, <1>5, <2>2 DEF Return
  <2>3. CASE f.kind # "command"
    <3>1. f.name \in Thunk /\ v \in ThunkState
      BY <2>1, <2>3, OutcomeType, CellType DEF Frame
    <3> QED BY <1>c, <1>5, <2>3, <3>1, CellTags DEF Return
  <2> QED BY <2>2, <2>3
<1>6. ASSUME NEW p \in Thread, Unwind(p)
      PROVE  \A u \in Thunk : Rank(tv[u]) <= Rank(tv'[u])
  <2> DEFINE f == TopFrame(p)
  <2>1. CASE UNCHANGED tv
    BY <1>a, <2>1
  <2>2. CASE ~UNCHANGED tv
    <3>1. f.kind # "command" /\ SetThunk(f.name, ForcedErr(thread[p].exc))
      BY <1>6, <2>2 DEF Unwind, UnwindWith, Stores
    <3>2. thread[p].mode = "raise"
      BY <1>6 DEF Unwind, UnwindWith
    <3>3. f.name \in Thunk /\ ForcedErr(thread[p].exc) \in ThunkState
      BY <3>1, <3>2, BusyThread, CellType DEF Frame, ThreadState
    <3> QED BY <1>c, <3>1, <3>3, CellTags
  <2> QED BY <2>1, <2>2
<1>7. ASSUME NEW p \in Thread, NEW t \in Thunk,
             Spark(p, t) \/ ForceEvaluated(p, t) \/ ForceVoid(p, t)
      PROVE  UNCHANGED tv
  BY <1>7 DEF Spark, ForceEvaluated, ForceVoid
<1>8. ASSUME NEW p \in Thread, Throw(p)
      PROVE  UNCHANGED tv
  BY <1>8 DEF Throw
<1>9. ASSUME NEW c \in Command, RunCommand(c)
      PROVE  UNCHANGED tv
  BY <1>9 DEF RunCommand
<1>10. CASE Interrupt \/ Quiescent
  BY <1>a, <1>10 DEF Interrupt, Quiescent, vars
<1> QED
  BY <1>a, <1>1, <1>3, <1>4, <1>5, <1>6, <1>7, <1>8, <1>9, <1>10 DEF Next, Step

\* A thunk that has been claimed never becomes unforced again, and an evaluated
\* one stays evaluated: its main computation starts at most once.
THEOREM Lifecycle == Spec /\ []FillsHole => LifecycleOrder
<1>1. TypeInv /\ FillsHole /\ [Next]_vars =>
        [\A t \in Thunk : Rank(tv[t]) <= Rank(tv'[t])]_vars
  BY RankStep
<1> QED BY <1>1, TypeInit, TypeStep, PTL DEF Spec, LifecycleOrder
-----------------------------------------------------------------------------
(***************************************************************************)
(* Outcomes.  A thunk without a backup is written by the frame of its main *)
(* computation and by the loop check, which both write once.  The second   *)
(* write that the code makes, when the LoopError passes the claimant, is   *)
(* the same as the first: while an evaluated thunk still has a frame, its  *)
(* thread is raising the very error that the thunk holds (or one that is   *)
(* not stored).                                                            *)
(***************************************************************************)

Plain == Thunk \ code.hasBackup

NoBackups ==
  \A t \in Plain :
    /\ ~tv[t].backup
    /\ \A p \in Thread, i \in Nat : ~Runs(p, i, "backup", t)

\* Thread p carries the outcome of t past the frames that are left.
Passing(p, t) ==
  /\ thread[p].mode = "raise"
  /\ thread[p].exc.kind = "foreign" \/ tv[t] = ForcedErr(thread[p].exc)

LateFramesPass ==
  \A t \in Plain, p \in Thread, i \in Nat :
    Runs(p, i, "main", t) /\ Evaluated(t) => Passing(p, t)

FinalInv == NoBackups /\ LateFramesPass

KeepsOutcomes ==
  \A t \in Thunk : Evaluated(t) /\ t \notin code.hasBackup => tv'[t] = tv[t]

\* A step of threads that are not raising, which may write thunk u.
LEMMA FinalWhileRunning ==
  ASSUME FinalInv, UNCHANGED code, NEW u \in Thunk,
         \A q \in Thread : thread'[q] = thread[q] \/ thread[q].mode # "raise",
         \A t \in Plain, q \in Thread, i \in Nat :
           /\ Runs(q, i, "backup", t)' => Runs(q, i, "backup", t)
           /\ Runs(q, i, "main", t)' => Runs(q, i, "main", t) \/ t = u,
         \A t \in Thunk : t # u => tv'[t] = tv[t],
         u \in Plain =>
           \/ tv'[u] = tv[u] /\ \A q \in Thread, i \in Nat :
                Runs(q, i, "main", u)' => Runs(q, i, "main", u)
           \/ /\ ~Evaluated(u) /\ ~tv'[u].backup
              /\ \A q \in Thread, i \in Nat :
                   Runs(q, i, "main", u)' /\ Evaluated(u)' => Passing(q, u)'
  PROVE  FinalInv' /\ KeepsOutcomes
<1>1. Plain' = Plain
  BY DEF Plain
<1>2. KeepsOutcomes
  <2> SUFFICES ASSUME NEW t \in Thunk, Evaluated(t), t \notin code.hasBackup
               PROVE  tv'[t] = tv[t]
    BY DEF KeepsOutcomes
  <2>1. t \in Plain
    BY DEF Plain
  <2> QED BY <2>1
<1>3. NoBackups'
  <2> SUFFICES ASSUME NEW t \in Plain
               PROVE  /\ ~tv'[t].backup
                      /\ \A p \in Thread, i \in Nat : ~Runs(p, i, "backup", t)'
    BY <1>1 DEF NoBackups
  <2>1. /\ t \in Thunk /\ ~tv[t].backup
        /\ \A p \in Thread, i \in Nat : ~Runs(p, i, "backup", t)
    BY DEF FinalInv, NoBackups, Plain
  <2> QED BY <2>1
<1>4. LateFramesPass'
  <2> SUFFICES ASSUME NEW t \in Plain, NEW p \in Thread, NEW i \in Nat,
                      Runs(p, i, "main", t)', Evaluated(t)'
               PROVE  Passing(p, t)'
    BY <1>1 DEF LateFramesPass
  <2>1. CASE t = u /\ tv'[u] # tv[u]
    BY <2>1
  <2>2. CASE t # u \/ tv'[u] = tv[u]
    <3>1. t \in Thunk /\ tv'[t] = tv[t]
      BY <2>2 DEF Plain
    <3>2. Evaluated(t)
      BY <3>1 DEF Evaluated
    <3>3. CASE Runs(p, i, "main", t)
      <4>1. Passing(p, t)
        BY <3>2, <3>3 DEF FinalInv, LateFramesPass
      <4>2. thread'[p] = thread[p]
        BY <4>1 DEF Passing
      <4> QED BY <3>1, <4>1, <4>2 DEF Passing
    <3>4. CASE t = u
      BY <2>2, <3>2, <3>3, <3>4
    <3> QED BY <3>3, <3>4
  <2> QED BY <2>1, <2>2
<1> QED BY <1>2, <1>3, <1>4 DEF FinalInv

\* The same, when no thunk is written and no frame is added.
LEMMA FinalNoWrite ==
  ASSUME FinalInv, FewerFrames, UNCHANGED <<code, tv>>,
         \A q \in Thread : thread'[q] = thread[q] \/ thread[q].mode # "raise"
  PROVE  FinalInv' /\ KeepsOutcomes
<1>1. CASE Thunk = {}
  BY <1>1 DEF FinalInv, NoBackups, LateFramesPass, KeepsOutcomes, Plain
<1>2. ASSUME NEW u \in Thunk
      PROVE  FinalInv' /\ KeepsOutcomes
  <2>1. \A t \in Plain, q \in Thread, i \in Nat :
          /\ Runs(q, i, "backup", t)' => Runs(q, i, "backup", t)
          /\ Runs(q, i, "main", t)' => Runs(q, i, "main", t)
    BY DEF FewerFrames, Kinds, Plain
  <2> QED BY <2>1, FinalWhileRunning
<1> QED BY <1>1, <1>2

\* The same, when thunk u is written that was not evaluated, and the frames
\* that run it, if its outcome is known now, belong to threads that pass it.
LEMMA FinalWrite ==
  ASSUME FinalInv, TypeInv, FewerFrames, UNCHANGED code, NEW u \in Thunk,
         NEW c \in ThunkState,
         \A q \in Thread : thread'[q] = thread[q] \/ thread[q].mode # "raise",
         SetThunk(u, c), ~c.backup \/ u \in code.hasBackup,
         u \in Plain => ~Evaluated(u),
         \A q \in Thread, i \in Nat :
           u \in Plain /\ Runs(q, i, "main", u)' /\ Evaluated(u)' => Passing(q, u)'
  PROVE  FinalInv' /\ KeepsOutcomes
<1>1. tv'[u] = c /\ \A t \in Thunk : t # u => tv'[t] = tv[t]
  BY DEF SetThunk, TypeInv, VarTypes
<1>2. \A t \in Plain, q \in Thread, i \in Nat :
        /\ Runs(q, i, "backup", t)' => Runs(q, i, "backup", t)
        /\ Runs(q, i, "main", t)' => Runs(q, i, "main", t)
  BY DEF FewerFrames, Kinds, Plain
<1>3. u \in Plain => ~c.backup
  BY DEF Plain
<1> QED BY <1>1, <1>2, <1>3, FinalWhileRunning

\* The same, when a thread claims u for its main computation.
LEMMA FinalClaim ==
  ASSUME FinalInv, TypeInv, UNCHANGED code, NEW u \in Thunk, NEW p \in Thread,
         NEW j \in Nat, OneMoreFrame(p, j, "main", u),
         \A q \in Thread : thread'[q] = thread[q] \/ thread[q].mode # "raise",
         tv[u].tag = "unforced", SetThunk(u, UnderEvaluation(p, tv[u].backup))
  PROVE  FinalInv' /\ KeepsOutcomes
<1>1. /\ tv'[u] = UnderEvaluation(p, tv[u].backup)
      /\ \A t \in Thunk : t # u => tv'[t] = tv[t]
  BY DEF SetThunk, TypeInv, VarTypes
<1>2. \A t \in Plain, q \in Thread, i \in Nat :
        /\ Runs(q, i, "backup", t)' => Runs(q, i, "backup", t)
        /\ Runs(q, i, "main", t)' => Runs(q, i, "main", t) \/ t = u
  BY DEF OneMoreFrame, Kinds, Plain
<1>3. ~Evaluated(u) /\ ~Evaluated(u)'
  BY <1>1, CellTags DEF Evaluated
<1>4. u \in Plain => ~tv'[u].backup
  BY <1>1, CellTags DEF FinalInv, NoBackups
<1> QED BY <1>1, <1>2, <1>3, <1>4, FinalWhileRunning

LEMMA OthersStay ==
  ASSUME TypeInv, NEW p \in Thread, NEW s, SetThread(p, s)
  PROVE  thread'[p] = s /\ \A q \in Thread : q # p => thread'[q] = thread[q]
BY DEF SetThread, TypeInv, VarTypes

\* The step in which an exception takes the top frame of thread p away.
LEMMA FinalUnwind ==
  ASSUME IInv, FinalInv, NEW p \in Thread, Unwind(p)
  PROVE  FinalInv' /\ KeepsOutcomes
<1> DEFINE f == TopFrame(p)
           r == thread[p].stack
           rest == Pop(r)
           s == IF rest # <<>>
                THEN [thread[p] EXCEPT !.stack = rest]
                ELSE [thread[p] EXCEPT
                        !.stack = <<>>, !.exc = NoResult,
                        !.mode = IF p = Main THEN "idle" ELSE "done"]
<1>1. /\ thread[p].mode = "raise" /\ SetThread(p, s) /\ UNCHANGED code
      /\ thread[p] \in ThreadState /\ f \in Frame
      /\ r \in Seq(Frame) /\ r # <<>>
  BY BusyThread DEF IInv, Unwind, UnwindWith
<1>2. /\ rest \in Seq(Frame)
      /\ Len(rest) = Len(r) - 1
      /\ \A i \in 1..(Len(r) - 1) : rest[i] = r[i]
  BY <1>1, PopStack
<1>3. /\ thread'[p] = s
      /\ \A q \in Thread : q # p => thread'[q] = thread[q]
  BY <1>1, OthersStay DEF IInv
<1>4. /\ s.stack = rest
      /\ rest # <<>> => s.mode = "raise" /\ s.exc = thread[p].exc
  BY <1>1, <1>2 DEF ThreadState
\* The frames after the step are the ones before it, but for the top of p.
<1>5. ASSUME NEW q \in Thread, NEW k \in Kinds, NEW t \in Thunk, NEW i \in Nat,
             Runs(q, i, k, t)'
      PROVE  /\ Runs(q, i, k, t) /\ i \in 1..Len(thread[q].stack)
             /\ q = p => i # Len(r) /\ rest # <<>>
  <2>1. CASE q # p
    BY <1>3, <1>5, <2>1 DEF Runs
  <2>2. CASE q = p
    <3>1. i \in 1..Len(rest) /\ rest[i].kind = k /\ rest[i].name = t
      BY <1>3, <1>4, <1>5, <2>2 DEF Runs
    <3>2. i \in 1..(Len(r) - 1) /\ Len(r) \in Nat /\ rest # <<>>
      BY <1>1, <1>2, <3>1
    <3>3. i \in 1..Len(r) /\ i # Len(r) /\ rest[i] = r[i]
      BY <1>2, <3>2
    <3> QED BY <2>2, <3>1, <3>2, <3>3 DEF Runs
  <2> QED BY <2>1, <2>2
\* A frame of a plain thunk runs its main computation.
<1>6. ASSUME f.kind # "command"
      PROVE  /\ f.name \in Thunk /\ f.kind \in Kinds
             /\ Len(r) \in 1..Len(r) /\ Runs(p, Len(r), f.kind, f.name)
             /\ f.name \in Plain => f.kind = "main"
  <2>1. f.name \in Thunk /\ f.kind \in Kinds
    BY <1>1, <1>6 DEF Frame, Kinds
  <2>2. Len(r) \in 1..Len(r) /\ Len(r) \in Nat
    BY <1>1
  <2>3. Runs(p, Len(r), f.kind, f.name)
    BY <2>2 DEF Runs, TopFrame, Top
  <2>4. f.name \in Plain => f.kind # "backup"
    BY <2>2, <2>3 DEF FinalInv, NoBackups
  <2> QED BY <2>1, <2>2, <2>3, <2>4 DEF Kinds
<1>7. ASSUME NEW t \in Plain
      PROVE  /\ Evaluated(t) => tv'[t] = tv[t]
             /\ ~tv'[t].backup
             /\ tv'[t] = tv[t] \/ (t = f.name /\ f.kind # "command")
  <2>1. t \in Thunk /\ ~tv[t].backup
    BY DEF Plain, FinalInv, NoBackups
  <2>2. CASE UNCHANGED tv
    BY <2>1, <2>2
  <2>3. CASE ~UNCHANGED tv
    <3>1. /\ f.kind # "command" /\ thread[p].exc.kind # "foreign"
          /\ SetThunk(f.name, ForcedErr(thread[p].exc))
      BY <2>3 DEF Unwind, UnwindWith, Stores
    <3>2. tv'[t] = IF t = f.name THEN ForcedErr(thread[p].exc) ELSE tv[t]
      BY <2>1, <3>1 DEF IInv, TypeInv, VarTypes, SetThunk
    <3>3. ASSUME t = f.name, Evaluated(t)
          PROVE  tv[t] = ForcedErr(thread[p].exc)
      <4>1. Runs(p, Len(r), "main", t) /\ Len(r) \in Nat
        BY <1>6, <3>1, <3>3
      <4> QED BY <3>1, <3>3, <4>1 DEF FinalInv, LateFramesPass, Passing
    <3> QED BY <2>1, <3>1, <3>2, <3>3, CellTags
  <2> QED BY <2>2, <2>3
<1>8. Plain' = Plain
  BY <1>1 DEF Plain
<1>9. NoBackups'
  BY <1>5, <1>7, <1>8 DEF FinalInv, NoBackups, Kinds, Plain
<1>10. LateFramesPass'
  <2> SUFFICES ASSUME NEW t \in Plain, NEW q \in Thread, NEW i \in Nat,
                      Runs(q, i, "main", t)', Evaluated(t)'
               PROVE  Passing(q, t)'
    BY <1>8 DEF LateFramesPass
  <2>1. /\ t \in Thunk /\ Runs(q, i, "main", t) /\ i \in 1..Len(thread[q].stack)
        /\ q = p => i # Len(r) /\ rest # <<>>
    BY <1>5 DEF Kinds, Plain
  <2>2. ~(t = f.name /\ f.kind # "command")
    <3> SUFFICES ASSUME t = f.name, f.kind # "command"
                 PROVE  FALSE
      OBVIOUS
    <3>1. Runs(p, Len(r), "main", t) /\ Len(r) \in 1..Len(r)
      BY <1>6
    <3>2. q = p /\ i = Len(r)
      BY <2>1, <3>1 DEF IInv, OneEvaluator
    <3> QED BY <2>1, <3>2
  <2>3. tv'[t] = tv[t]
    BY <1>7, <2>2
  <2>4. Passing(q, t)
    BY <2>1, <2>3 DEF FinalInv, LateFramesPass, Evaluated
  <2>5. CASE q # p
    BY <1>3, <2>3, <2>4, <2>5 DEF Passing
  <2>6. CASE q = p
    BY <1>3, <1>4, <2>1, <2>3, <2>4, <2>6 DEF Passing
  <2> QED BY <2>5, <2>6
<1>11. KeepsOutcomes
  BY <1>7 DEF KeepsOutcomes, Plain
<1> QED BY <1>9, <1>10, <1>11 DEF FinalInv

LEMMA FinalStep ==
  IInv /\ FinalInv /\ FillsHole /\ [Next]_vars => FinalInv' /\ [KeepsOutcomes]_vars
<1> SUFFICES ASSUME IInv, FinalInv, FillsHole, Next
             PROVE  FinalInv' /\ KeepsOutcomes
  <2>1. CASE UNCHANGED vars
    <3>1. /\ \A p, i, k, t : Runs(p, i, k, t)' <=> Runs(p, i, k, t)
          /\ \A t : Evaluated(t)' <=> Evaluated(t)
          /\ \A p, t : Passing(p, t)' <=> Passing(p, t)
          /\ Plain' = Plain /\ tv' = tv
      BY <2>1 DEF vars, Runs, Evaluated, Passing, Plain
    <3> QED BY <2>1, <3>1 DEF FinalInv, NoBackups, LateFramesPass
  <2> QED BY <2>1
<1> USE DEF IInv
<1>0. /\ tv \in [Thunk -> ThunkState]
      /\ thread \in [Thread -> ThreadState]
  BY DEF TypeInv, VarTypes
\* A step of one thread that is not raising.
<1>a. ASSUME NEW p \in Thread, thread[p].mode # "raise", NEW s, SetThread(p, s)
      PROVE  \A q \in Thread : thread'[q] = thread[q] \/ thread[q].mode # "raise"
  BY <1>a, OthersStay
<1>b. ASSUME NEW p \in Thread, NEW e \in Outcome,
             thread[p].mode \in {"run", "raise"}, SetThread(p, Raise(p, e))
      PROVE  FewerFrames
  <2>1. Raise(p, e) \in ThreadState /\ Raise(p, e).stack = thread[p].stack
    <3>1. Raise(p, e) \in ThreadState
      BY <1>0, <1>b, RaiseType
    <3>2. Raise(p, e).stack = thread[p].stack
      BY <1>0 DEF Raise, ThreadState
    <3> QED BY <3>1, <3>2
  <2> QED BY <1>b, <2>1, SameStackFewer
\* Nothing runs a thunk that is not claimed.
<1>c. ASSUME NEW u \in Thunk, Unclaimed(u), FewerFrames
      PROVE  \A q \in Thread, i \in Nat : ~Runs(q, i, "main", u)'
  BY <1>c DEF FewerFrames, SharingInv, Kinds, Runs
<1>1. ASSUME NEW c \in Command, RunCommand(c)
      PROVE  FinalInv' /\ KeepsOutcomes
  <2> DEFINE s == [thread[Main] EXCEPT !.mode = "run",
                                       !.stack = <<NewFrame("command", c)>>]
  <2>1. /\ Main \in Thread /\ SetThread(Main, s) /\ thread[Main].mode # "raise"
        /\ UNCHANGED <<code, tv>>
    BY <1>1, ThreadAssumption DEF ThreadAssumption, RunCommand
  <2>2. <<NewFrame("command", c)>> \in Seq(Frame)
    BY NewFrameType
  <2>3. s \in ThreadState /\ s.stack = <<NewFrame("command", c)>>
    BY <1>0, <2>1, <2>2 DEF ThreadState, Modes
  <2>4. NewFrame("command", c).kind = "command"
    BY DEF NewFrame
  <2>5. FewerFrames
    <3>1. Within(s.stack, thread[Main].stack)
      BY <2>3, <2>4 DEF Within
    <3> QED BY <2>1, <2>3, <3>1, WithinFewer
  <2> QED BY <1>a, <2>1, <2>5, FinalNoWrite
<1>2. ASSUME NEW p \in Thread, NEW t \in Thunk,
             Delay(p, t) \/ Blackhole(p, t) \/ Fill(p, t)
      PROVE  FinalInv' /\ KeepsOutcomes
  <2>1. /\ Running(p) /\ SetThread(p, Continue(p)) /\ thread[p].mode # "raise"
        /\ UNCHANGED code
    BY <1>2 DEF Delay, Blackhole, Fill, At, Running
  <2>2. FewerFrames
    BY <2>1, ContinueFewer
  <2>3. tv[t].tag \in {"none", "void"}
    BY <1>2, CellTags DEF Delay, Blackhole, Fill, FillsHole
  <2>4. \A q \in Thread, i \in Nat : ~Runs(q, i, "main", t)'
    BY <1>c, <2>2, <2>3 DEF Unclaimed
  <2>5. /\ (t \in code.hasBackup) \in BOOLEAN /\ FALSE \in BOOLEAN
        /\ Result("main", t) \in Outcome
    BY OutcomeType
  <2>6. /\ Unforced(t \in code.hasBackup) \in ThunkState
        /\ Unforced(FALSE) \in ThunkState
        /\ Void \in ThunkState
        /\ Forced(Result("main", t)) \in ThunkState
    BY <2>5, CellType
  <2>7. PICK c \in ThunkState : SetThunk(t, c) /\ (~c.backup \/ t \in code.hasBackup)
    <3>1. \/ SetThunk(t, Unforced(t \in code.hasBackup))
          \/ SetThunk(t, Unforced(FALSE))
          \/ SetThunk(t, Void)
          \/ SetThunk(t, Forced(Result("main", t)))
      BY <1>2 DEF Delay, Blackhole, Fill
    <3>2. /\ ~Unforced(t \in code.hasBackup).backup \/ t \in code.hasBackup
          /\ ~Unforced(FALSE).backup /\ ~Void.backup
          /\ ~Forced(Result("main", t)).backup
      BY DEF Unforced, Void, Forced, None
    <3> QED BY <2>6, <3>1, <3>2
  <2>8. ~Evaluated(t)
    BY <2>3 DEF Evaluated
  <2> QED BY <1>a, <2>1, <2>2, <2>4, <2>7, <2>8, FinalWrite
<1>3. ASSUME NEW p \in Thread, NEW t \in Thunk, Spark(p, t) \/ SparkNew(p, t)
      PROVE  FinalInv' /\ KeepsOutcomes
  <2>1. /\ Running(p) /\ UNCHANGED code
        /\ \/ SetThread(p, Continue(p))
           \/ \E q \in Thread : Fork(p, q, t)
    BY <1>3 DEF Spark, SparkNew, At
  <2>2. FewerFrames
    BY <2>1, ContinueFewer, ForkFewer
  <2>3. \A q \in Thread : thread'[q] = thread[q] \/ thread[q].mode # "raise"
    <3>1. CASE SetThread(p, Continue(p))
      BY <1>a, <2>1, <3>1 DEF Running
    <3>2. ASSUME NEW q \in Thread, Fork(p, q, t)
          PROVE  \A r \in Thread : thread'[r] = thread[r] \/ thread[r].mode # "raise"
      <4>1. \A r \in Thread \ {p, q} : thread'[r] = thread[r]
        BY <1>0, <3>2 DEF Fork
      <4> QED BY <2>1, <3>2, <4>1 DEF Fork, Running
    <3> QED BY <2>1, <3>1, <3>2
  <2>4. CASE Spark(p, t)
    BY <2>2, <2>3, <2>4, FinalNoWrite DEF Spark
  <2>5. CASE SparkNew(p, t)
    <3>1. Unforced(FALSE) \in ThunkState
      BY CellType
    <3>2. tv[t].tag = "none" /\ SetThunk(t, Unforced(FALSE)) /\ ~Unforced(FALSE).backup
      BY <2>5, CellTags DEF SparkNew
    <3>3. \A q \in Thread, i \in Nat : ~Runs(q, i, "main", t)'
      BY <1>c, <2>2, <3>2 DEF Unclaimed
    <3>4. ~Evaluated(t)
      BY <3>2 DEF Evaluated
    <3> QED BY <2>1, <2>2, <2>3, <3>1, <3>2, <3>3, <3>4, FinalWrite
  <2> QED BY <1>3, <2>4, <2>5
<1>4. ASSUME NEW p \in Thread, SparkThunk(p)
      PROVE  FinalInv' /\ KeepsOutcomes
  <2> DEFINE t == thread[p].target
             s == [thread[p] EXCEPT !.mode = "run",
                                    !.stack = <<NewFrame("main", t)>>]
  <2>1. /\ t \in Thunk /\ thread[p] \in ThreadState /\ thread[p].mode # "raise"
        /\ UNCHANGED code
    BY <1>4 DEF SparkThunk, SparkThunkIn, TypeInv, VarTypes, StackInv, WellFormed
  <2>2. CASE tv[t].tag = "unforced"
    <3>1. SetThunk(t, UnderEvaluation(p, tv[t].backup)) /\ SetThread(p, s)
      BY <1>4, <2>2 DEF SparkThunk, SparkThunkIn
    <3>2. /\ thread'[p].stack = <<NewFrame("main", t)>>
          /\ \A q \in Thread : q # p => thread'[q] = thread[q]
      BY <1>0, <2>1, <3>1 DEF SetThread, ThreadState
    <3>3. NewFrame("main", t).kind = "main" /\ NewFrame("main", t).name = t
      BY DEF NewFrame
    <3>4. OneMoreFrame(p, 1, "main", t)
      BY <3>2, <3>3 DEF OneMoreFrame, Runs
    <3> QED BY <1>a, <2>1, <2>2, <3>1, <3>4, FinalClaim
  <2>3. CASE tv[t].tag # "unforced"
    <3> DEFINE d == [thread[p] EXCEPT !.mode = "done"]
    <3>1. SetThread(p, d) /\ UNCHANGED tv
      BY <1>4, <2>3 DEF SparkThunk, SparkThunkIn
    <3>2. d \in ThreadState /\ d.stack = thread[p].stack
      BY <2>1 DEF ThreadState, Modes
    <3>3. FewerFrames
      BY <3>1, <3>2, SameStackFewer
    <3> QED BY <1>a, <2>1, <3>1, <3>3, FinalNoWrite
  <2> QED BY <2>2, <2>3
<1>5. ASSUME NEW p \in Thread, NEW t \in Thunk,
             ForceEvaluated(p, t) \/ ForceVoid(p, t)
      PROVE  FinalInv' /\ KeepsOutcomes
  <2>1. Running(p) /\ tv[t].result \in Outcome /\ UNCHANGED <<code, tv>>
    BY <1>0, <1>5 DEF ForceEvaluated, ForceVoid, At, ThunkState
  <2>2. \/ SetThread(p, Continue(p))
        \/ \E e \in Outcome : SetThread(p, Raise(p, e))
    BY <1>5, <2>1, OutcomeType DEF ForceEvaluated, ForceVoid
  <2>3. FewerFrames
    BY <1>b, <2>1, <2>2, ContinueFewer DEF Running
  <2>4. \A q \in Thread : thread'[q] = thread[q] \/ thread[q].mode # "raise"
    BY <1>a, <2>1, <2>2 DEF Running
  <2> QED BY <2>1, <2>3, <2>4, FinalNoWrite
<1>6. ASSUME NEW p \in Thread, NEW t \in Thunk, ForceClaim(p, t)
      PROVE  FinalInv' /\ KeepsOutcomes
  <2>1. /\ Running(p) /\ thread[p].mode # "raise" /\ tv[t].tag = "unforced"
        /\ SetThunk(t, UnderEvaluation(p, tv[t].backup)) /\ UNCHANGED code
        /\ SetThread(p, [thread[p] EXCEPT !.stack = Push(@, NewFrame("main", t))])
    BY <1>6 DEF ForceClaim, At, Running
  <2>2. OneMoreFrame(p, Len(thread[p].stack) + 1, "main", t)
    BY <2>1, PushMore DEF Kinds
  <2>3. Len(thread[p].stack) + 1 \in Nat
    BY <2>1, BusyThread DEF Running
  <2> QED BY <1>a, <2>1, <2>2, <2>3, FinalClaim
<1>7. ASSUME NEW p \in Thread, NEW t \in Thunk, ForceBackup(p, t)
      PROVE  FinalInv' /\ KeepsOutcomes
  <2>1. /\ Running(p) /\ thread[p].mode # "raise" /\ tv[t].backup
        /\ SetThunk(t, UnderEvaluation(p, FALSE)) /\ UNCHANGED code
        /\ SetThread(p, [thread[p] EXCEPT !.stack = Push(@, NewFrame("backup", t))])
    BY <1>7 DEF ForceBackup, At, Running
  <2>2. t \notin Plain
    BY <2>1 DEF FinalInv, NoBackups
  <2>3. OneMoreFrame(p, Len(thread[p].stack) + 1, "backup", t)
    BY <2>1, PushMore DEF Kinds
  <2>4. \A u \in Plain, q \in Thread, i \in Nat :
          /\ Runs(q, i, "backup", u)' => Runs(q, i, "backup", u)
          /\ Runs(q, i, "main", u)' => Runs(q, i, "main", u)
    BY <2>2, <2>3 DEF OneMoreFrame, Kinds, Plain
  <2>5. \A u \in Thunk : u # t => tv'[u] = tv[u]
    BY <1>0, <2>1 DEF SetThunk
  <2> QED BY <1>a, <2>1, <2>2, <2>4, <2>5, FinalWhileRunning
<1>8. ASSUME NEW p \in Thread, NEW t \in Thunk, ForceLoop(p, t)
      PROVE  FinalInv' /\ KeepsOutcomes
  <2> DEFINE e == Result("loop", t)
  <2>1. /\ Running(p) /\ thread[p].mode # "raise" /\ e \in Outcome
        /\ tv[t].tag = "under" /\ tv[t].owner = p /\ UNCHANGED code
        /\ SetThunk(t, ForcedErr(e)) /\ SetThread(p, Raise(p, e))
    BY <1>8, OutcomeType DEF ForceLoop, At, Running
  <2>2. FewerFrames
    BY <1>b, <2>1 DEF Running
  <2>3. ForcedErr(e) \in ThunkState /\ ~ForcedErr(e).backup
    BY <2>1, CellType, CellTags
  <2>4. ~Evaluated(t)
    BY <2>1 DEF Evaluated
  <2>5. thread'[p].mode = "raise" /\ thread'[p].exc = e /\ tv'[t] = ForcedErr(e)
    <3>1. thread'[p] = Raise(p, e) /\ thread[p] \in ThreadState
      BY <1>0, <2>1, OthersStay
    <3>2. Raise(p, e).mode = "raise" /\ Raise(p, e).exc = e
      BY <3>1 DEF Raise, ThreadState
    <3> QED BY <1>0, <2>1, <3>1, <3>2 DEF SetThunk
  <2>6. ASSUME NEW q \in Thread, NEW i \in Nat, Runs(q, i, "main", t)'
        PROVE  Passing(q, t)'
    <3>1. Runs(q, i, "main", t) /\ i \in 1..Len(thread[q].stack)
      BY <2>2, <2>6 DEF FewerFrames, Kinds, Runs
    <3>2. q = p
      BY <2>1, <3>1 DEF SharingInv, Kinds
    <3> QED BY <2>5, <3>2 DEF Passing
  <2> QED BY <1>a, <2>1, <2>2, <2>3, <2>4, <2>6, FinalWrite
<1>9. ASSUME NEW p \in Thread, Return(p)
      PROVE  FinalInv' /\ KeepsOutcomes
  <2> DEFINE f == TopFrame(p)
             r == thread[p].stack
             v == Forced(Result(f.kind, f.name))
  <2>1. /\ Running(p) /\ thread[p].mode # "raise" /\ f \in Frame
        /\ thread[p] \in ThreadState /\ r \in Seq(Frame) /\ r # <<>>
        /\ SetThread(p, Resume(p)) /\ UNCHANGED code
    BY <1>9, BusyThread DEF Return, Running
  <2>2. Resume(p) \in ThreadState
    BY <2>1, ResumeType
  <2>3. \/ Resume(p).stack = <<>>
        \/ /\ Resume(p).stack = Advance(Pop(r))
           /\ Pop(r) # <<>>
    BY <2>1 DEF Resume, ThreadState
  <2>4. FewerFrames
    BY <2>1, <2>2, <2>3, PopFewer DEF Running
  <2>5. CASE f.kind = "command"
    BY <1>9, <1>a, <2>1, <2>4, <2>5, FinalNoWrite DEF Return
  <2>6. CASE f.kind # "command"
    <3>0. PICK u \in Thunk : u = f.name
      BY <2>1, <2>6 DEF Frame
    <3>1. /\ v \in ThunkState /\ SetThunk(u, v) /\ ~v.backup
          /\ f.kind \in Kinds
      BY <1>9, <2>1, <2>6, <3>0, OutcomeType, CellType, CellTags DEF Frame, Return, Kinds
    <3>2. Len(r) \in 1..Len(r) /\ Len(r) \in Nat /\ Runs(p, Len(r), f.kind, u)
      <4>1. Len(r) \in 1..Len(r)
        BY <2>1
      <4> QED BY <3>0, <4>1 DEF Runs, TopFrame, Top
    <3>3. u \in Plain => f.kind = "main"
      BY <3>1, <3>2 DEF FinalInv, NoBackups, Kinds
    <3>4. u \in Plain => ~Evaluated(u)
      BY <2>1, <3>2, <3>3 DEF FinalInv, LateFramesPass, Passing
    <3>5. ASSUME NEW q \in Thread, NEW i \in Nat, u \in Plain, Runs(q, i, "main", u)'
          PROVE  FALSE
      <4>1. Runs(q, i, "main", u) /\ i \in 1..Len(thread[q].stack)
        BY <2>4, <3>1, <3>5 DEF FewerFrames, Kinds, Runs
      <4>2. q = p /\ i = Len(r)
        BY <3>1, <3>2, <3>3, <3>5, <4>1 DEF OneEvaluator
      <4>3. thread'[p] = Resume(p)
        BY <2>1, OthersStay
      <4>4. i \in 1..Len(Resume(p).stack)
        BY <3>5, <4>2, <4>3 DEF Runs
      <4>5. /\ Pop(r) \in Seq(Frame)
            /\ Len(Pop(r)) = Len(r) - 1
            /\ Pop(r) # <<>> => Len(Advance(Pop(r))) = Len(Pop(r))
        BY <2>1, PopStack, AdvanceStack
      <4>6. Len(Resume(p).stack) < Len(r)
        BY <2>1, <2>3, <3>2, <4>5
      <4> QED BY <2>2, <3>2, <4>2, <4>4, <4>6 DEF ThreadState
    <3> QED BY <1>a, <2>1, <2>4, <3>1, <3>4, <3>5, FinalWrite
  <2> QED BY <2>5, <2>6
<1>10. ASSUME NEW p \in Thread, Throw(p)
       PROVE  FinalInv' /\ KeepsOutcomes
  <2> DEFINE f == TopFrame(p)
  <2>1. Running(p) /\ thread[p].mode # "raise" /\ f \in Frame /\ UNCHANGED <<code, tv>>
    BY <1>10, BusyThread DEF Throw, Running
  <2>2. BodyOf(f).end \in {"user", "foreign"}
    BY <1>10, <2>1, BodyType DEF Throw, Body, Ends
  <2>3. Result(BodyOf(f).end, f.name) \in Outcome
    BY <2>1, <2>2, OutcomeType DEF Frame
  <2>4. FewerFrames
    BY <1>10, <1>b, <2>1, <2>3 DEF Throw, Running
  <2> QED BY <1>10, <1>a, <2>1, <2>4, FinalNoWrite DEF Throw
<1>11. CASE Interrupt
  <2> DEFINE e == Result("foreign", NoThread)
  <2>1. /\ thread[Main].mode \in {"run", "raise"} /\ Main \in Thread
        /\ e \in Outcome /\ SetThread(Main, Raise(Main, e)) /\ UNCHANGED <<code, tv>>
    BY <1>11, ThreadAssumption, OutcomeType DEF ThreadAssumption, Interrupt
  <2>2. FewerFrames
    BY <1>b, <2>1
  <2>3. /\ thread'[Main].mode = "raise" /\ thread'[Main].exc.kind = "foreign"
        /\ \A q \in Thread : q # Main => thread'[q] = thread[q]
    <3>1. /\ thread'[Main] = Raise(Main, e) /\ thread[Main] \in ThreadState
          /\ \A q \in Thread : q # Main => thread'[q] = thread[q]
      BY <1>0, <2>1, OthersStay
    <3>2. Raise(Main, e).mode = "raise" /\ Raise(Main, e).exc = e
      BY <3>1 DEF Raise, ThreadState
    <3>3. e.kind = "foreign"
      BY DEF Result
    <3> QED BY <3>1, <3>2, <3>3
  <2>4. Plain' = Plain /\ tv' = tv
    BY <2>1 DEF Plain
  <2>5. NoBackups'
    BY <2>2, <2>4 DEF FinalInv, NoBackups, FewerFrames, Kinds, Plain
  <2>6. LateFramesPass'
    BY <2>2, <2>3, <2>4
    DEF FinalInv, LateFramesPass, FewerFrames, Kinds, Plain, Passing, Evaluated
  <2> QED BY <2>4, <2>5, <2>6 DEF FinalInv, KeepsOutcomes
<1>12. CASE Quiescent
  <2>1. FewerFrames /\ UNCHANGED <<code, tv, thread>>
    BY <1>12 DEF Quiescent, vars, FewerFrames, Runs
  <2> QED BY <2>1, FinalNoWrite
<1> QED
  BY <1>1, <1>2, <1>3, <1>4, <1>5, <1>6, <1>7, <1>8, <1>9, <1>10, <1>11, <1>12,
     FinalUnwind
  DEF Next, Step

LEMMA FinalInit == Init => FinalInv
<1> SUFFICES ASSUME Init
             PROVE  FinalInv
  OBVIOUS
<1>1. \A p \in Thread : 1..Len(thread[p].stack) = {}
  BY DEF Init
<1>2. \A p, i, k, t : p \in Thread => ~Runs(p, i, k, t)
  BY <1>1 DEF Runs
<1>3. ASSUME NEW t \in Plain
      PROVE  ~tv[t].backup
  <2>1. tv[t] = Unforced(t \in code.hasBackup) \/ tv[t] = None
    BY DEF Init, Plain
  <2>2. t \notin code.hasBackup
    BY DEF Plain
  <2>3. ~Unforced(t \in code.hasBackup).backup /\ ~None.backup
    BY <2>2 DEF Unforced, None
  <2> QED BY <2>1, <2>3
<1> QED BY <1>2, <1>3 DEF FinalInv, NoBackups, LateFramesPass

\* The outcome of a thunk without a backup is final: once it is a value or an
\* error it stays that value or that error, for every thread that will force
\* it, although the code writes the error of a loop more than once.
THEOREM Outcomes == Spec /\ []FillsHole => ResultFinal
<1>1. Init => IInv /\ FinalInv
  BY TypeInit, SharingInit, FinalInit DEF IInv
<1>2. IInv /\ FinalInv /\ FillsHole /\ [Next]_vars
        => (IInv /\ FinalInv)' /\ [KeepsOutcomes]_vars
  BY TypeStep, SharingStep, FinalStep DEF IInv
<1> QED BY <1>1, <1>2, PTL DEF Spec, ResultFinal, KeepsOutcomes
=============================================================================
