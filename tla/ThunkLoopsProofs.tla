-------------------------- MODULE ThunkLoopsProofs --------------------------
(***************************************************************************)
(* Loops and backups: proofs about Thunks, for every set of threads,       *)
(* thunks and tables, as long as holes are filled in time and no           *)
(* computation is cut short.                                               *)
(***************************************************************************)
EXTENDS ThunksProofs, FiniteSetTheorems

(***************************************************************************)
(* How the stacks change.                                                  *)
(***************************************************************************)

\* The frames of s are the lower frames of r.
Below(s, r) ==
  /\ Len(s) <= Len(r)
  /\ \A i \in 1..Len(s) : s[i].kind = r[i].kind /\ s[i].name = r[i].name

\* Every stack keeps its frames.
SameStacks ==
  \A q \in Thread : /\ Below(thread'[q].stack, thread[q].stack)
                    /\ Len(thread'[q].stack) = Len(thread[q].stack)

\* Thread p starts, grows or shrinks its stack.
OthersSame(p) == \A q \in Thread : q # p => thread'[q] = thread[q]
Starts(p, f) ==
  thread[p].stack = <<>> /\ thread'[p].stack = <<f>> /\ OthersSame(p)
Grows(p, k, t) ==
  /\ Running(p) /\ thread'[p].stack = Push(thread[p].stack, NewFrame(k, t))
  /\ OthersSame(p)
Shrinks(p) ==
  /\ thread[p].mode \in {"run", "raise"}
  /\ Len(thread'[p].stack) = Len(thread[p].stack) - 1
  /\ Below(thread'[p].stack, thread[p].stack)
  /\ OthersSame(p)

StacksTyped == \A q \in Thread : thread[q].stack \in Seq(Frame)

LEMMA Stacks == TypeInv => StacksTyped
BY DEF TypeInv, VarTypes, ThreadState, StacksTyped

LEMMA SetSameStack ==
  ASSUME TypeInv, NEW p \in Thread, NEW s, SetThread(p, s),
         Below(s.stack, thread[p].stack), Len(s.stack) = Len(thread[p].stack)
  PROVE  SameStacks
<1>1. /\ thread'[p] = s
      /\ \A q \in Thread : q # p => thread'[q] = thread[q]
  BY OthersStay
<1>2. \A q \in Thread : Below(thread[q].stack, thread[q].stack)
  BY Stacks DEF StacksTyped, Below
<1> QED BY <1>1, <1>2 DEF SameStacks

LEMMA ContinueSame ==
  ASSUME TypeInv, NEW p \in Thread, Running(p)
  PROVE  /\ Continue(p).mode = "run" /\ Continue(p).exc = thread[p].exc
         /\ Below(Continue(p).stack, thread[p].stack)
         /\ Len(Continue(p).stack) = Len(thread[p].stack)
<1>1. /\ thread[p] \in ThreadState /\ thread[p].stack \in Seq(Frame)
      /\ thread[p].stack # <<>>
  BY BusyThread DEF Running
<1>2. /\ Continue(p).stack = Advance(thread[p].stack)
      /\ Continue(p).mode = "run" /\ Continue(p).exc = thread[p].exc
  BY <1>1 DEF Continue, ThreadState, Running
<1> QED BY <1>1, <1>2, AdvanceStack DEF Below

LEMMA RaiseSame ==
  ASSUME TypeInv, NEW p \in Thread, NEW e
  PROVE  /\ Raise(p, e).mode = "raise" /\ Raise(p, e).exc = e
         /\ Below(Raise(p, e).stack, thread[p].stack)
         /\ Len(Raise(p, e).stack) = Len(thread[p].stack)
<1>1. /\ Raise(p, e).mode = "raise" /\ Raise(p, e).exc = e
      /\ Raise(p, e).stack = thread[p].stack
  BY DEF Raise, TypeInv, VarTypes, ThreadState
<1>2. Len(thread[p].stack) \in Nat
  BY Stacks DEF StacksTyped
<1> QED BY <1>1, <1>2 DEF Below

LEMMA ForkSame ==
  ASSUME TypeInv, NEW p \in Thread, NEW q \in Thread, NEW t, Running(p), Fork(p, q, t)
  PROVE  /\ SameStacks /\ p # q
         /\ thread'[p] = Continue(p)
         /\ thread'[q].mode = "claim" /\ thread'[q].exc = thread[q].exc
         /\ thread'[q].stack = thread[q].stack
         /\ \A r \in Thread \ {p, q} : thread'[r] = thread[r]
<1>1. p # q
  BY DEF Fork, Running
<1>2. /\ thread'[p] = Continue(p)
      /\ thread'[q].mode = "claim" /\ thread'[q].exc = thread[q].exc
      /\ thread'[q].stack = thread[q].stack
      /\ \A r \in Thread \ {p, q} : thread'[r] = thread[r]
  BY <1>1 DEF TypeInv, VarTypes, Fork, ThreadState
<1>3. \A r \in Thread : Below(thread[r].stack, thread[r].stack)
  BY Stacks DEF StacksTyped, Below
<1>4. ASSUME NEW r \in Thread
      PROVE  /\ Below(thread'[r].stack, thread[r].stack)
             /\ Len(thread'[r].stack) = Len(thread[r].stack)
  <2>1. CASE r = p
    BY <1>2, <2>1, ContinueSame
  <2>2. CASE r # p
    BY <1>2, <1>3, <2>2
  <2> QED BY <2>1, <2>2
<1> QED BY <1>1, <1>2, <1>4 DEF SameStacks

\* What Return and Unwind leave of a stack.
LEMMA PopShrinks ==
  ASSUME TypeInv, NEW p \in Thread, NEW s, SetThread(p, s),
         thread[p].mode \in {"run", "raise"},
         \/ s.stack = <<>> /\ Pop(thread[p].stack) = <<>>
         \/ s.stack = Pop(thread[p].stack)
         \/ s.stack = Advance(Pop(thread[p].stack)) /\ Pop(thread[p].stack) # <<>>
  PROVE  Shrinks(p)
<1> DEFINE r == thread[p].stack
<1>1. r \in Seq(Frame) /\ r # <<>>
  BY BusyThread
<1>2. /\ Pop(r) \in Seq(Frame)
      /\ Len(Pop(r)) = Len(r) - 1
      /\ \A i \in 1..(Len(r) - 1) : Pop(r)[i] = r[i]
  BY <1>1, PopStack
<1>3. Len(r) \in Nat
  BY <1>1
<1>4. Below(s.stack, r) /\ Len(s.stack) = Len(r) - 1
  <2>1. CASE s.stack = Pop(r)
    BY <1>2, <1>3, <2>1 DEF Below
  <2>2. CASE s.stack = Advance(Pop(r)) /\ Pop(r) # <<>>
    <3>1. /\ Len(s.stack) = Len(r) - 1
          /\ \A i \in 1..(Len(r) - 1) : /\ s.stack[i].kind = r[i].kind
                                        /\ s.stack[i].name = r[i].name
      <4> DEFINE o == Pop(r)
      <4>1. o \in Seq(Frame) /\ o # <<>> /\ s.stack = Advance(o)
        BY <1>2, <2>2
      <4>2. Len(o) = Len(r) - 1 /\ \A i \in 1..(Len(r) - 1) : o[i] = r[i]
        BY <1>2
      <4> HIDE DEF o
      <4>3. /\ Len(s.stack) = Len(o)
            /\ \A i \in 1..Len(o) : /\ s.stack[i].kind = o[i].kind
                                    /\ s.stack[i].name = o[i].name
        BY <4>1, AdvanceStack
      <4> QED BY <4>2, <4>3
    <3> QED BY <1>3, <3>1 DEF Below
  <2> QED BY <2>1, <2>2
<1> QED BY <1>4, OthersStay DEF Shrinks, OthersSame

\* A thread that neither runs nor raises has no frames.
RestInv ==
  \A p \in Thread : thread[p].mode \notin {"run", "raise"} => thread[p].stack = <<>>

\* The steps that leave every stack as it is.
QuietStep(p) ==
  \/ \E t \in Thunk : \/ Delay(p, t) \/ Blackhole(p, t) \/ Fill(p, t)
                      \/ Spark(p, t) \/ SparkNew(p, t) \/ ForceEvaluated(p, t)
                      \/ ForceLoop(p, t) \/ ForceVoid(p, t)
  \/ Throw(p)
  \/ SparkThunk(p) /\ tv[thread[p].target].tag # "unforced"

LEMMA QuietShape ==
  ASSUME TypeInv, RestInv, NEW p \in Thread, QuietStep(p)
  PROVE  SameStacks /\ RestInv'
<1>1. ASSUME Running(p), SetThread(p, Continue(p))
      PROVE  SameStacks /\ RestInv'
  <2>1. SameStacks
    BY <1>1, ContinueSame, SetSameStack
  <2>2. thread'[p].mode = "run" /\ \A q \in Thread : q # p => thread'[q] = thread[q]
    BY <1>1, ContinueSame, OthersStay
  <2> QED BY <2>1, <2>2 DEF RestInv
<1>2. ASSUME NEW e, SetThread(p, Raise(p, e))
      PROVE  SameStacks /\ RestInv'
  <2>1. SameStacks
    BY <1>2, RaiseSame, SetSameStack
  <2>2. thread'[p].mode = "raise" /\ \A q \in Thread : q # p => thread'[q] = thread[q]
    BY <1>2, RaiseSame, OthersStay
  <2> QED BY <2>1, <2>2 DEF RestInv
<1>3. ASSUME NEW q \in Thread, NEW t, Running(p), Fork(p, q, t)
      PROVE  SameStacks /\ RestInv'
  <2>1. /\ SameStacks /\ thread'[p].mode = "run"
        /\ thread'[q].stack = thread[q].stack
        /\ \A r \in Thread \ {p, q} : thread'[r] = thread[r]
    BY <1>3, ForkSame, ContinueSame
  <2>2. thread[q].stack = <<>>
    BY <1>3 DEF Fork, RestInv
  <2> QED BY <2>1, <2>2 DEF RestInv
<1>4. ASSUME SparkThunk(p), tv[thread[p].target].tag # "unforced"
      PROVE  SameStacks /\ RestInv'
  <2> DEFINE d == [thread[p] EXCEPT !.mode = "done"]
  <2>1. SetThread(p, d) /\ thread[p].mode = "claim"
    BY <1>4 DEF SparkThunk, SparkThunkIn
  <2>2. thread[p].stack = <<>> /\ d.stack = thread[p].stack
    BY <2>1 DEF RestInv, TypeInv, VarTypes, ThreadState
  <2>3. SameStacks
    <3>1. Below(d.stack, thread[p].stack) /\ Len(d.stack) = Len(thread[p].stack)
      BY <2>2 DEF Below
    <3> QED BY <2>1, <3>1, SetSameStack
  <2>4. thread'[p].stack = <<>> /\ \A q \in Thread : q # p => thread'[q] = thread[q]
    BY <2>1, <2>2, OthersStay
  <2> QED BY <2>3, <2>4 DEF RestInv
<1>5. ASSUME NEW t \in Thunk,
             Delay(p, t) \/ Blackhole(p, t) \/ Fill(p, t)
      PROVE  SameStacks /\ RestInv'
  BY <1>1, <1>5 DEF Delay, Blackhole, Fill, At
<1>6. ASSUME NEW t \in Thunk, Spark(p, t) \/ SparkNew(p, t)
      PROVE  SameStacks /\ RestInv'
  BY <1>1, <1>3, <1>6 DEF Spark, SparkNew, At
<1>7. ASSUME NEW t \in Thunk,
             ForceEvaluated(p, t) \/ ForceLoop(p, t) \/ ForceVoid(p, t)
      PROVE  SameStacks /\ RestInv'
  BY <1>1, <1>2, <1>7 DEF ForceEvaluated, ForceLoop, ForceVoid, At
<1>8. CASE Throw(p)
  BY <1>2, <1>8 DEF Throw
<1> QED BY <1>4, <1>5, <1>6, <1>7, <1>8 DEF QuietStep

LEMMA InterruptShape ==
  ASSUME TypeInv, RestInv, Interrupt
  PROVE  SameStacks /\ RestInv'
<1>1. Main \in Thread /\ SetThread(Main, Raise(Main, Result("foreign", NoThread)))
  BY ThreadAssumption DEF ThreadAssumption, Interrupt
<1>2. SameStacks
  BY <1>1, RaiseSame, SetSameStack
<1>3. /\ thread'[Main].mode = "raise"
      /\ \A q \in Thread : q # Main => thread'[q] = thread[q]
  BY <1>1, RaiseSame, OthersStay
<1> QED BY <1>2, <1>3 DEF RestInv

LEMMA RunCommandShape ==
  ASSUME TypeInv, RestInv, NEW c \in Command, RunCommand(c)
  PROVE  Main \in Thread /\ Starts(Main, NewFrame("command", c)) /\ RestInv'
<1> DEFINE s == [thread[Main] EXCEPT !.mode = "run",
                                     !.stack = <<NewFrame("command", c)>>]
<1>1. Main \in Thread /\ SetThread(Main, s) /\ thread[Main].mode = "idle"
  BY ThreadAssumption DEF ThreadAssumption, RunCommand
<1>2. s.mode = "run" /\ s.stack = <<NewFrame("command", c)>>
  BY <1>1 DEF TypeInv, VarTypes, ThreadState
<1>3. thread'[Main] = s /\ \A q \in Thread : q # Main => thread'[q] = thread[q]
  BY <1>1, OthersStay
<1> QED BY <1>1, <1>2, <1>3 DEF Starts, OthersSame, RestInv

LEMMA SparkThunkShape ==
  ASSUME TypeInv, RestInv, NEW p \in Thread, SparkThunk(p), NEW t \in Thunk,
         t = thread[p].target, tv[t].tag = "unforced"
  PROVE  Starts(p, NewFrame("main", t)) /\ RestInv'
<1> DEFINE s == [thread[p] EXCEPT !.mode = "run",
                                  !.stack = <<NewFrame("main", t)>>]
<1>1. SetThread(p, s) /\ thread[p].mode = "claim"
  BY DEF SparkThunk, SparkThunkIn
<1>2. s.mode = "run" /\ s.stack = <<NewFrame("main", t)>>
  BY <1>1 DEF TypeInv, VarTypes, ThreadState
<1>3. thread'[p] = s /\ \A q \in Thread : q # p => thread'[q] = thread[q]
  BY <1>1, OthersStay
<1> QED BY <1>1, <1>2, <1>3 DEF Starts, OthersSame, RestInv

LEMMA PushShape ==
  ASSUME TypeInv, RestInv, NEW p \in Thread, NEW k, NEW t, Running(p),
         SetThread(p, [thread[p] EXCEPT !.stack = Push(@, NewFrame(k, t))])
  PROVE  Grows(p, k, t) /\ RestInv'
<1> DEFINE s == [thread[p] EXCEPT !.stack = Push(@, NewFrame(k, t))]
<1>1. s.mode = "run" /\ s.stack = Push(thread[p].stack, NewFrame(k, t))
  BY DEF TypeInv, VarTypes, ThreadState, Running
<1>2. thread'[p] = s /\ \A q \in Thread : q # p => thread'[q] = thread[q]
  BY OthersStay
<1> QED BY <1>1, <1>2 DEF Grows, OthersSame, RestInv

LEMMA ReturnShape ==
  ASSUME TypeInv, RestInv, NEW p \in Thread, Return(p)
  PROVE  Shrinks(p) /\ RestInv'
<1> DEFINE rest == Pop(thread[p].stack)
<1>1. Running(p) /\ SetThread(p, Resume(p)) /\ thread[p] \in ThreadState
  BY DEF Return, TypeInv, VarTypes
<1>2. CASE rest # <<>>
  <2>1. Resume(p).stack = Advance(rest) /\ Resume(p).mode = "run"
    BY <1>1, <1>2 DEF Resume, ThreadState, Running
  <2>2. Shrinks(p)
    BY <1>1, <1>2, <2>1, PopShrinks DEF Running
  <2>3. thread'[p] = Resume(p) /\ \A q \in Thread : q # p => thread'[q] = thread[q]
    BY <1>1, OthersStay
  <2> QED BY <2>1, <2>2, <2>3 DEF RestInv
<1>3. CASE rest = <<>>
  <2>1. Resume(p).stack = <<>>
    BY <1>1, <1>3 DEF Resume, ThreadState
  <2>2. Shrinks(p)
    BY <1>1, <1>3, <2>1, PopShrinks DEF Running
  <2>3. thread'[p] = Resume(p) /\ \A q \in Thread : q # p => thread'[q] = thread[q]
    BY <1>1, OthersStay
  <2> QED BY <2>1, <2>2, <2>3 DEF RestInv
<1> QED BY <1>2, <1>3

LEMMA UnwindShape ==
  ASSUME TypeInv, RestInv, NEW p \in Thread, Unwind(p)
  PROVE  /\ Shrinks(p) /\ RestInv' /\ thread[p].mode = "raise"
         /\ thread'[p].exc = thread[p].exc \/ thread'[p].exc = NoResult
<1> DEFINE rest == Pop(thread[p].stack)
           s == IF rest # <<>>
                THEN [thread[p] EXCEPT !.stack = rest]
                ELSE [thread[p] EXCEPT
                        !.stack = <<>>, !.exc = NoResult,
                        !.mode = IF p = Main THEN "idle" ELSE "done"]
<1>1. thread[p].mode = "raise" /\ SetThread(p, s) /\ thread[p] \in ThreadState
  BY DEF Unwind, UnwindWith, TypeInv, VarTypes
<1>2. /\ s.stack = rest
      /\ s.exc = thread[p].exc \/ s.exc = NoResult
      /\ rest # <<>> => s.mode = "raise"
  BY <1>1 DEF ThreadState
<1>3. Shrinks(p)
  BY <1>1, <1>2, PopShrinks
<1>4. thread'[p] = s /\ \A q \in Thread : q # p => thread'[q] = thread[q]
  BY <1>1, OthersStay
<1> QED BY <1>1, <1>2, <1>3, <1>4 DEF RestInv

-----------------------------------------------------------------------------
(***************************************************************************)
(* Chains.  Each computation of a stack was started by a force in the one  *)
(* below it, so a set that is closed under forcing and has what one of     *)
(* them forces has all that are above it.                                  *)
(***************************************************************************)

Closed(S) == \A u \in S : Forces(u) \subseteq S

Deep(r) == \A i \in 1..Len(r) : i > 1 => r[i].kind # "command"

Linked(r) ==
  \A S \in SUBSET Thunk : Closed(S) =>
    \A i, j \in 1..Len(r) :
      i < j /\ r[i].kind # "command" /\ Forces(r[i].name) \subseteq S
        => r[j].name \in S

ChainInv ==
  \A p \in Thread, r \in Seq(Frame) : r = thread[p].stack => Deep(r) /\ Linked(r)

LEMMA SameForces ==
  ASSUME UNCHANGED code
  PROVE  /\ \A t : Forces(t)' = Forces(t)
         /\ \A S : Closed(S)' <=> Closed(S)
         /\ \A r : Linked(r)' <=> Linked(r)
         /\ \A t : DependsOnItself(t)' <=> DependsOnItself(t)
<1>1. \A t : Forces(t)' = Forces(t)
  BY DEF Forces, BodyOf
<1>2. \A S : Closed(S)' <=> Closed(S)
  BY <1>1 DEF Closed
<1>3. \A r : Linked(r)' <=> Linked(r)
  BY <1>1, <1>2 DEF Linked
<1>4. \A t : DependsOnItself(t)' <=> DependsOnItself(t)
  BY <1>1 DEF DependsOnItself
<1> QED BY <1>1, <1>2, <1>3, <1>4

LEMMA ChainBelow ==
  ASSUME NEW r \in Seq(Frame), NEW s \in Seq(Frame), Below(s, r), Deep(r), Linked(r)
  PROVE  Deep(s) /\ Linked(s)
<1>1. \A i \in 1..Len(s) : i \in 1..Len(r)
  BY DEF Below
<1> QED BY <1>1 DEF Deep, Linked, Below

\* The thunk that the top frame is about to force is among those it may force.
LEMMA ForcesNext ==
  ASSUME TypeInv, NEW p \in Thread, NEW t \in Thunk, At(p, "force", t),
         TopFrame(p).kind # "command"
  PROVE  TopFrame(p).name \in Thunk /\ t \in Forces(TopFrame(p).name)
<1> DEFINE f == TopFrame(p)
           g == NewFrame(f.kind, f.name)
<1>1. f \in Frame /\ f.kind \in {"main", "backup"} /\ f.name \in Thunk /\ f.pc \in Nat \ {0}
  BY BusyThread DEF At, Running, Frame
<1>2. g.kind = f.kind /\ g.name = f.name
  BY DEF NewFrame
<1>3. BodyOf(g) = BodyOf(f)
  BY <1>2 DEF BodyOf
<1>4. BodyOf(f).ops \in Seq([op : Ops, on : Thunk])
  BY <1>1, BodyType DEF Body
<1>5. f.pc \in 1..Len(BodyOf(f).ops)
  BY <1>1, <1>4 DEF At, AtEnd
<1>6. BodyOf(g).ops[f.pc] = [op |-> "force", on |-> t] /\ f.pc \in 1..Len(BodyOf(g).ops)
  BY <1>3, <1>5 DEF At
<1> QED BY <1>1, <1>6 DEF Forces

LEMMA ChainPush ==
  ASSUME TypeInv, NEW p \in Thread, NEW t \in Thunk, At(p, "force", t),
         NEW k \in Kinds, Deep(thread[p].stack), Linked(thread[p].stack)
  PROVE  /\ Deep(Push(thread[p].stack, NewFrame(k, t)))
         /\ Linked(Push(thread[p].stack, NewFrame(k, t)))
<1> DEFINE r == thread[p].stack
           s == Push(r, NewFrame(k, t))
<1>1. /\ r \in Seq(Frame) /\ r # <<>> /\ NewFrame(k, t) \in Frame
      /\ NewFrame(k, t).kind = k /\ NewFrame(k, t).name = t
  BY BusyThread, NewFrameType DEF At, Running, Kinds, NewFrame
<1>2. /\ Len(s) = Len(r) + 1 /\ Len(r) \in Nat /\ Len(r) \in 1..Len(r)
      /\ \A i \in 1..Len(r) : s[i] = r[i]
      /\ s[Len(r) + 1].kind = k /\ s[Len(r) + 1].name = t
  <2>1. Len(r) \in Nat /\ Len(r) \in 1..Len(r)
    BY <1>1
  <2>2. /\ Len(s) = Len(r) + 1
        /\ \A i \in 1..Len(r) : s[i] = r[i]
        /\ s[Len(r) + 1] = NewFrame(k, t)
    BY <1>1, PushStack
  <2> QED BY <1>1, <2>1, <2>2
<1>3. Deep(s)
  <2>1. ASSUME NEW i \in 1..Len(s), i > 1 PROVE s[i].kind # "command"
    <3>1. CASE i \in 1..Len(r)
      BY <1>2, <2>1, <3>1 DEF Deep
    <3>2. CASE i \notin 1..Len(r)
      <4>1. i = Len(r) + 1
        BY <1>2, <3>2
      <4> QED BY <1>2, <4>1 DEF Kinds
    <3> QED BY <3>1, <3>2
  <2> HIDE DEF s
  <2> QED BY <2>1 DEF Deep
<1>4. ASSUME NEW S \in SUBSET Thunk, Closed(S), NEW i \in 1..Len(s), NEW j \in 1..Len(s),
             i < j, s[i].kind # "command", Forces(s[i].name) \subseteq S
      PROVE  s[j].name \in S
  <2>1. i \in 1..Len(r) /\ s[i] = r[i]
    BY <1>2, <1>4
  <2>2. CASE j \in 1..Len(r)
    BY <1>2, <1>4, <2>1, <2>2 DEF Linked
  <2>3. CASE j \notin 1..Len(r)
    <3>1. j = Len(r) + 1 /\ s[j].name = t
      BY <1>2, <2>3
    <3>2. r[Len(r)] = TopFrame(p)
      BY DEF TopFrame, Top
    <3>3. TopFrame(p).kind # "command"
      BY <1>2, <1>4, <2>1, <3>2 DEF Deep
    <3>4. TopFrame(p).name \in Thunk /\ t \in Forces(TopFrame(p).name)
      BY <3>3, ForcesNext
    <3>5. Forces(TopFrame(p).name) \subseteq S
      <4>1. CASE i = Len(r)
        BY <1>4, <2>1, <3>2, <4>1
      <4>2. CASE i # Len(r)
        <5>1. i < Len(r)
          BY <1>2, <2>1, <4>2
        <5>2. r[Len(r)].name \in S
          BY <1>2, <1>4, <2>1, <5>1 DEF Linked
        <5> QED BY <1>4, <3>2, <5>2 DEF Closed
      <4> QED BY <4>1, <4>2
    <3> QED BY <3>1, <3>4, <3>5
  <2> QED BY <2>2, <2>3
<1> QED BY <1>3, <1>4 DEF Linked

\* A thunk that is forced by a thread with a frame of its main computation on
\* the stack depends on itself.
LEMMA ForcedInside ==
  ASSUME TypeInv, ChainInv, NEW p \in Thread, NEW t \in Thunk, At(p, "force", t),
         NEW i \in Nat, Runs(p, i, "main", t)
  PROVE  DependsOnItself(t)
<1> DEFINE r == thread[p].stack
<1>1. r \in Seq(Frame) /\ r # <<>>
  BY BusyThread DEF At, Running
<1>2. /\ i \in 1..Len(r) /\ r[i].kind = "main" /\ r[i].name = t
      /\ Len(r) \in 1..Len(r) /\ r[Len(r)] = TopFrame(p)
  BY <1>1 DEF Runs, TopFrame, Top
<1>3. SUFFICES ASSUME NEW S \in SUBSET Thunk, Forces(t) \subseteq S, Closed(S)
               PROVE  t \in S
  BY DEF DependsOnItself, Closed
<1>4. CASE i = Len(r)
  <2>1. t \in Forces(t)
    BY <1>2, <1>4, ForcesNext
  <2> QED BY <1>3, <2>1
<1>5. CASE i # Len(r)
  <2>1. i < Len(r)
    BY <1>2, <1>5
  <2>2. TopFrame(p).name \in S
    BY <1>1, <1>2, <1>3, <2>1 DEF ChainInv, Linked
  <2>3. TopFrame(p).kind # "command"
    BY <1>1, <1>2, <2>1 DEF ChainInv, Deep
  <2>4. t \in Forces(TopFrame(p).name)
    BY <2>3, ForcesNext
  <2> QED BY <1>3, <2>2, <2>4 DEF Closed
<1> QED BY <1>4, <1>5

\* The table never changes.
LEMMA SameCode == Next => code' = code
<1>1. ASSUME NEW p \in Thread, NEW t \in Thunk,
             \/ Delay(p, t) \/ Blackhole(p, t) \/ Fill(p, t) \/ Spark(p, t)
             \/ SparkNew(p, t) \/ ForceEvaluated(p, t) \/ ForceClaim(p, t)
             \/ ForceBackup(p, t) \/ ForceLoop(p, t) \/ ForceVoid(p, t)
      PROVE  code' = code
  BY <1>1 DEF Delay, Blackhole, Fill, Spark, SparkNew, ForceEvaluated, ForceClaim,
              ForceBackup, ForceLoop, ForceVoid
<1>2. ASSUME NEW p \in Thread, SparkThunk(p) \/ Return(p) \/ Throw(p) \/ Unwind(p)
      PROVE  code' = code
  BY <1>2 DEF SparkThunk, SparkThunkIn, Return, Throw, Unwind, UnwindWith
<1>3. ASSUME NEW c \in Command, RunCommand(c)
      PROVE  code' = code
  BY <1>3 DEF RunCommand
<1>4. ASSUME Interrupt \/ Quiescent
      PROVE  code' = code
  BY <1>4 DEF Interrupt, Quiescent, vars
<1> QED BY <1>1, <1>2, <1>3, <1>4 DEF Next, Step

LEMMA ChainStep ==
  ASSUME TypeInv, TypeInv', RestInv, ChainInv, Next
  PROVE  RestInv' /\ ChainInv'
<1>0. /\ \A q \in Thread : thread[q].stack \in Seq(Frame) /\ thread'[q].stack \in Seq(Frame)
      /\ code' = code
  <2>1. StacksTyped /\ StacksTyped'
    BY Stacks DEF TypeInv, VarTypes, StacksTyped, ThreadState
  <2> QED BY <2>1, SameCode DEF StacksTyped
<1>1. \A r : Linked(r)' <=> Linked(r)
  BY <1>0, SameForces
<1>2. SUFFICES RestInv' /\ \A q \in Thread : Deep(thread'[q].stack) /\ Linked(thread'[q].stack)
  BY <1>1 DEF ChainInv
<1>3. ASSUME SameStacks
      PROVE  \A q \in Thread : Deep(thread'[q].stack) /\ Linked(thread'[q].stack)
  BY <1>0, <1>3, ChainBelow DEF SameStacks, ChainInv
<1>4. ASSUME NEW p \in Thread, NEW f, Starts(p, f)
      PROVE  \A q \in Thread : Deep(thread'[q].stack) /\ Linked(thread'[q].stack)
  <2>1. Deep(<<f>>) /\ Linked(<<f>>)
    BY DEF Deep, Linked
  <2> QED BY <1>0, <1>4, <2>1 DEF Starts, OthersSame, ChainInv
<1>5. ASSUME NEW p \in Thread, Shrinks(p)
      PROVE  \A q \in Thread : Deep(thread'[q].stack) /\ Linked(thread'[q].stack)
  BY <1>0, <1>5, ChainBelow DEF Shrinks, OthersSame, ChainInv
<1>6. ASSUME NEW p \in Thread, NEW t \in Thunk, NEW k \in Kinds,
             At(p, "force", t), Grows(p, k, t)
      PROVE  \A q \in Thread : Deep(thread'[q].stack) /\ Linked(thread'[q].stack)
  BY <1>0, <1>6, ChainPush DEF Grows, OthersSame, ChainInv
<1>7. ASSUME NEW p \in Thread, QuietStep(p)
      PROVE  RestInv' /\ \A q \in Thread : Deep(thread'[q].stack) /\ Linked(thread'[q].stack)
  BY <1>3, <1>7, QuietShape
<1>8. ASSUME NEW c \in Command, RunCommand(c)
      PROVE  RestInv' /\ \A q \in Thread : Deep(thread'[q].stack) /\ Linked(thread'[q].stack)
  BY <1>4, <1>8, RunCommandShape
<1>9. ASSUME NEW p \in Thread, SparkThunk(p), tv[thread[p].target].tag = "unforced"
      PROVE  RestInv' /\ \A q \in Thread : Deep(thread'[q].stack) /\ Linked(thread'[q].stack)
  <2>1. PICK t \in Thunk : t = thread[p].target
    BY <1>9 DEF SparkThunk, SparkThunkIn, TypeInv, StackInv, WellFormed
  <2> QED BY <1>4, <1>9, <2>1, SparkThunkShape
<1>10. ASSUME NEW p \in Thread, NEW t \in Thunk, ForceClaim(p, t) \/ ForceBackup(p, t)
       PROVE  RestInv' /\ \A q \in Thread : Deep(thread'[q].stack) /\ Linked(thread'[q].stack)
  <2>1. PICK k \in Kinds :
          /\ At(p, "force", t) /\ Running(p)
          /\ SetThread(p, [thread[p] EXCEPT !.stack = Push(@, NewFrame(k, t))])
    BY <1>10 DEF ForceClaim, ForceBackup, At, Kinds
  <2> QED BY <1>6, <2>1, PushShape
<1>11. ASSUME NEW p \in Thread, Return(p) \/ Unwind(p)
       PROVE  RestInv' /\ \A q \in Thread : Deep(thread'[q].stack) /\ Linked(thread'[q].stack)
  BY <1>5, <1>11, ReturnShape, UnwindShape
<1>12. CASE Interrupt
  BY <1>3, <1>12, InterruptShape
<1>13. CASE Quiescent
  BY <1>0, <1>13 DEF Quiescent, vars, RestInv, ChainInv
<1> QED
  BY <1>7, <1>8, <1>9, <1>10, <1>11, <1>12, <1>13 DEF Next, Step, QuietStep

-----------------------------------------------------------------------------
(***************************************************************************)
(* What holds while no computation is cut short: a claimed thunk has its   *)
(* main computation on the stack of its owner, a backup has the main       *)
(* computation below it, and nothing but a command meets an exception that *)
(* is not stored.                                                          *)
(***************************************************************************)

OwnersWork ==
  \A t \in Thunk : tv[t].tag = "under" =>
    \E p \in Thread, i \in Nat : tv[t].owner = p /\ Runs(p, i, "main", t)

BackupsAbove ==
  \A p \in Thread, i \in Nat, t \in Thunk :
    Runs(p, i, "backup", t) => \E j \in 1..(i - 1) : Runs(p, j, "main", t)

NoneStored == \A t \in Thunk : tv[t].result.kind # "foreign"

NoneAbove(p) == \A i \in Nat, k \in Kinds, t \in Thunk : ~Runs(p, i, k, t)

ForeignAlone ==
  \A p \in Thread :
    thread[p].mode = "raise" /\ thread[p].exc.kind = "foreign" => NoneAbove(p)

\* An outcome that some thunk holds or some thread carries.
Known(e) == \/ \E t \in Thunk : tv[t].result = e
            \/ \E p \in Thread : thread[p].exc = e

LoopsReal ==
  \A e \in Outcome : Known(e) /\ e.kind = "loop" => DependsOnItself(e.of)

Honest == OwnersWork /\ BackupsAbove /\ NoneStored /\ ForeignAlone /\ LoopsReal

LoopInv == RestInv /\ ChainInv /\ (NothingCutShort => Honest)

\* Who is on the stacks after a step of each shape.
LEMMA FramesSame ==
  ASSUME TypeInv, SameStacks
  PROVE  \A q \in Thread, k \in Kinds, t \in Thunk, i \in Nat :
           Runs(q, i, k, t)' <=> Runs(q, i, k, t)
<1>1. StacksTyped
  BY Stacks
<1> QED BY <1>1 DEF SameStacks, Below, Runs, StacksTyped

LEMMA FramesStart ==
  ASSUME TypeInv, NEW p \in Thread, NEW f, Starts(p, f)
  PROVE  \A q \in Thread, k \in Kinds, t \in Thunk, i \in Nat :
           Runs(q, i, k, t)' <=> \/ Runs(q, i, k, t)
                                 \/ q = p /\ i = 1 /\ f.kind = k /\ f.name = t
<1> SUFFICES ASSUME NEW q \in Thread, NEW k \in Kinds, NEW t \in Thunk, NEW i \in Nat
             PROVE  Runs(q, i, k, t)' <=> \/ Runs(q, i, k, t)
                                          \/ q = p /\ i = 1 /\ f.kind = k /\ f.name = t
  OBVIOUS
<1>1. CASE q # p
  BY <1>1 DEF Starts, OthersSame, Runs
<1>2. CASE q = p
  <2>1. ~Runs(q, i, k, t)
    BY <1>2 DEF Starts, Runs
  <2>2. thread'[q].stack = <<f>>
    BY <1>2 DEF Starts
  <2>3. Len(thread'[q].stack) = 1 /\ thread'[q].stack[1] = f
    BY <2>2
  <2>4. Runs(q, i, k, t)' <=> i = 1 /\ f.kind = k /\ f.name = t
    BY <2>3 DEF Runs
  <2> QED BY <1>2, <2>1, <2>4
<1> QED BY <1>1, <1>2

LEMMA FramesGrow ==
  ASSUME TypeInv, NEW p \in Thread, NEW m \in Kinds, NEW u \in Thunk, Grows(p, m, u)
  PROVE  /\ Len(thread[p].stack) \in Nat
         /\ \A q \in Thread, k \in Kinds, t \in Thunk, i \in Nat :
           Runs(q, i, k, t)' <=>
             \/ Runs(q, i, k, t)
             \/ q = p /\ i = Len(thread[p].stack) + 1 /\ m = k /\ u = t
<1> DEFINE r == thread[p].stack
<1>0. thread[p].mode \in {"run", "raise"} /\ thread'[p].stack = Push(r, NewFrame(m, u))
  BY DEF Grows, Running
<1>1. r \in Seq(Frame) /\ Len(r) \in Nat
  BY <1>0, BusyThread
<1>f. PICK f \in Frame : f = NewFrame(m, u) /\ f.kind = m /\ f.name = u
  <2>1. NewFrame(m, u).kind = m /\ NewFrame(m, u).name = u
    BY DEF NewFrame
  <2>2. NewFrame(m, u) \in Frame
    BY NewFrameType DEF Kinds
  <2> QED BY <2>1, <2>2
<1>2. /\ Len(thread'[p].stack) = Len(r) + 1
      /\ \A i \in 1..Len(r) : thread'[p].stack[i] = r[i]
      /\ thread'[p].stack[Len(r) + 1] = f
  <2>1. thread'[p].stack = Push(r, f)
    BY <1>0, <1>f
  <2>2. /\ Len(Push(r, f)) = Len(r) + 1
        /\ \A i \in 1..Len(r) : Push(r, f)[i] = r[i]
        /\ Push(r, f)[Len(r) + 1] = f
    BY <1>1, PushStack
  <2> QED BY <2>1, <2>2
<1>3. ASSUME NEW q \in Thread, NEW k \in Kinds, NEW t \in Thunk, NEW i \in Nat
      PROVE  Runs(q, i, k, t)' <=>
               \/ Runs(q, i, k, t)
               \/ q = p /\ i = Len(r) + 1 /\ m = k /\ u = t
  <2>1. CASE q # p
    BY <2>1 DEF Grows, OthersSame, Runs
  <2>2. CASE q = p
    <3>1. CASE i \in 1..Len(r)
      <4>1. /\ i \in 1..Len(thread'[q].stack) /\ i \in 1..Len(thread[q].stack)
            /\ thread'[q].stack[i] = thread[q].stack[i] /\ i # Len(r) + 1
        BY <1>1, <1>2, <2>2, <3>1
      <4>2. Runs(q, i, k, t)' <=> Runs(q, i, k, t)
        BY <4>1 DEF Runs
      <4> QED BY <4>1, <4>2
    <3>2. CASE i = Len(r) + 1
      <4>1. ~Runs(q, i, k, t)
        BY <1>1, <2>2, <3>2 DEF Runs
      <4>2. thread'[q].stack[i] = f /\ i \in 1..Len(thread'[q].stack)
        BY <1>1, <1>2, <2>2, <3>2
      <4>3. Runs(q, i, k, t)' <=> m = k /\ u = t
        BY <1>f, <4>2 DEF Runs
      <4> QED BY <2>2, <3>2, <4>1, <4>3
    <3>3. CASE i \notin 1..(Len(r) + 1)
      BY <1>1, <1>2, <2>2, <3>3 DEF Runs
    <3> QED BY <1>1, <3>1, <3>2, <3>3
  <2> QED BY <2>1, <2>2
<1> QED BY <1>1, <1>3

LEMMA FramesShrink ==
  ASSUME TypeInv, NEW p \in Thread, Shrinks(p)
  PROVE  /\ Len(thread[p].stack) \in Nat \ {0}
         /\ \A q \in Thread, k \in Kinds, t \in Thunk, i \in Nat :
              Runs(q, i, k, t)' <=>
                Runs(q, i, k, t) /\ ~(q = p /\ i = Len(thread[p].stack))
<1> DEFINE r == thread[p].stack
<1>1. r \in Seq(Frame) /\ r # <<>> /\ Len(r) \in Nat \ {0}
  BY BusyThread DEF Shrinks
<1>2. ASSUME NEW q \in Thread, NEW k \in Kinds, NEW t \in Thunk, NEW i \in Nat
      PROVE  Runs(q, i, k, t)' <=> Runs(q, i, k, t) /\ ~(q = p /\ i = Len(r))
  <2>1. CASE q # p
    BY <2>1 DEF Shrinks, OthersSame, Runs
  <2>2. CASE q = p
    <3>1. /\ Len(thread'[p].stack) = Len(r) - 1
          /\ \A j \in 1..(Len(r) - 1) : /\ thread'[p].stack[j].kind = r[j].kind
                                        /\ thread'[p].stack[j].name = r[j].name
      BY DEF Shrinks, Below
    <3>2. CASE i \in 1..(Len(r) - 1)
      <4>1. i \in 1..Len(r) /\ i # Len(r)
        BY <1>1, <3>2
      <4> QED BY <2>2, <3>1, <3>2, <4>1 DEF Runs
    <3>3. CASE i \notin 1..(Len(r) - 1)
      <4>1. i \in 1..Len(r) => i = Len(r)
        BY <1>1, <3>3
      <4> QED BY <2>2, <3>1, <3>3, <4>1 DEF Runs
    <3> QED BY <3>2, <3>3
  <2> QED BY <2>1, <2>2
<1> QED BY <1>1, <1>2

\* The outcomes after a step: nothing new but what is no loop, or a real one.
Fine(e) == Known(e) \/ e.kind # "loop" \/ DependsOnItself(e.of)

LEMMA OutcomesKept ==
  ASSUME LoopsReal, NoneStored, UNCHANGED code,
         \A t \in Thunk : \/ tv'[t].result = tv[t].result
                          \/ Fine(tv'[t].result) /\ tv'[t].result.kind # "foreign",
         \A q \in Thread : Fine(thread'[q].exc)
  PROVE  LoopsReal' /\ NoneStored'
<1>1. \A t \in Thunk : Fine(tv'[t].result)
  BY DEF Fine, Known
<1>2. ASSUME NEW e \in Outcome, Known(e)', e.kind = "loop"
      PROVE  DependsOnItself(e.of)
  <2>1. Fine(e)
    BY <1>1, <1>2 DEF Known
  <2> QED BY <1>2, <2>1 DEF Fine, LoopsReal
<1>3. \A t : DependsOnItself(t)' <=> DependsOnItself(t)
  BY SameForces
<1>4. LoopsReal'
  BY <1>2, <1>3 DEF LoopsReal
<1>5. NoneStored'
  BY DEF NoneStored
<1> QED BY <1>4, <1>5
\* What the cells that are written hold.
LEMMA CellResults ==
  /\ None.result = NoResult /\ Void.result = NoResult
  /\ \A b \in BOOLEAN : Unforced(b).result = NoResult
  /\ \A p \in Thread, b \in BOOLEAN : UnderEvaluation(p, b).result = NoResult
  /\ \A e \in Outcome : Forced(e).result = e /\ ForcedErr(e).result = e
  /\ NoResult.kind = "none"
BY DEF None, Void, Unforced, UnderEvaluation, Forced, ForcedErr, NoResult, Result

\* A step that writes one thunk, and changes no exception.
LEMMA OutcomesWrite ==
  ASSUME TypeInv, LoopsReal, NoneStored, UNCHANGED code, NEW t \in Thunk,
         NEW c \in ThunkState, SetThunk(t, c), c.result.kind \notin {"loop", "foreign"},
         \A q \in Thread : thread'[q].exc = thread[q].exc
  PROVE  LoopsReal' /\ NoneStored'
<1>1. \A u \in Thunk : tv'[u] = IF u = t THEN c ELSE tv[u]
  BY DEF TypeInv, VarTypes, SetThunk
<1>2. \A u \in Thunk : \/ tv'[u].result = tv[u].result
                       \/ Fine(tv'[u].result) /\ tv'[u].result.kind # "foreign"
  <2>1. Fine(c.result) /\ c.result.kind # "foreign"
    BY DEF Fine
  <2>2. \A u \in Thunk : tv'[u].result = tv[u].result \/ tv'[u].result = c.result
    BY <1>1
  <2> QED BY <2>1, <2>2
<1>3. \A q \in Thread : Fine(thread'[q].exc)
  BY DEF Fine, Known
<1> QED BY <1>2, <1>3, OutcomesKept

\* A step that raises an exception in one thread, and writes nothing.
LEMMA OutcomesRaise ==
  ASSUME TypeInv, LoopsReal, NoneStored, UNCHANGED <<code, tv>>, NEW p \in Thread,
         NEW e, Fine(e), SetThread(p, Raise(p, e))
  PROVE  LoopsReal' /\ NoneStored'
<1>1. thread'[p].exc = e /\ \A q \in Thread : q # p => thread'[q] = thread[q]
  BY OthersStay, RaiseSame
<1>2. \A q \in Thread : Fine(thread'[q].exc)
  BY <1>1 DEF Fine, Known
<1> QED BY <1>2, OutcomesKept

\* A step that neither writes nor raises.
LEMMA OutcomesSame ==
  ASSUME LoopsReal, NoneStored, UNCHANGED <<code, tv>>,
         \A q \in Thread : thread'[q].exc = thread[q].exc
  PROVE  LoopsReal' /\ NoneStored'
<1>1. \A q \in Thread : Fine(thread'[q].exc)
  BY DEF Fine, Known
<1> QED BY <1>1, OutcomesKept

\* A thread that goes on keeps its exception, and so do those it forks.
LEMMA ExcStays ==
  ASSUME TypeInv, NEW p \in Thread, NEW s, SetThread(p, s), s.exc = thread[p].exc
  PROVE  \A q \in Thread : thread'[q].exc = thread[q].exc
BY OthersStay

LEMMA OutcomesStep ==
  ASSUME TypeInv, RestInv, ChainInv, Honest, HolesFilledInTime, NothingCutShort', Next
  PROVE  LoopsReal' /\ NoneStored'
<1> USE DEF Honest
<1>0. code' = code
  BY SameCode
<1>1. ASSUME NEW p \in Thread, NEW t \in Thunk,
             Delay(p, t) \/ Blackhole(p, t) \/ Fill(p, t)
      PROVE  LoopsReal' /\ NoneStored'
  <2>1. Running(p) /\ SetThread(p, Continue(p))
    BY <1>1 DEF Delay, Blackhole, Fill, At
  <2>2. \A q \in Thread : thread'[q].exc = thread[q].exc
    BY <2>1, ExcStays, ContinueSame
  <2>3. /\ (t \in code.hasBackup) \in BOOLEAN /\ FALSE \in BOOLEAN
        /\ Result("main", t) \in Outcome /\ Result("main", t).kind = "main"
    BY OutcomeType DEF Result
  <2>4. PICK c \in ThunkState : /\ SetThunk(t, c)
                                /\ c.result = NoResult \/ c.result = Result("main", t)
    <3>1. \/ SetThunk(t, Unforced(t \in code.hasBackup))
          \/ SetThunk(t, Unforced(FALSE))
          \/ SetThunk(t, Void)
          \/ SetThunk(t, Forced(Result("main", t)))
      BY <1>1 DEF Delay, Blackhole, Fill
    <3>2. /\ Unforced(t \in code.hasBackup) \in ThunkState
          /\ Unforced(FALSE) \in ThunkState
          /\ Void \in ThunkState
          /\ Forced(Result("main", t)) \in ThunkState
      BY <2>3, CellType
    <3>3. /\ Unforced(t \in code.hasBackup).result = NoResult
          /\ Unforced(FALSE).result = NoResult
          /\ Void.result = NoResult
          /\ Forced(Result("main", t)).result = Result("main", t)
      BY <2>3, CellResults
    <3> QED BY <3>1, <3>2, <3>3
  <2>5. c.result.kind \notin {"loop", "foreign"}
    BY <2>3, <2>4, CellResults
  <2> QED BY <1>0, <2>2, <2>4, <2>5, OutcomesWrite
<1>2. ASSUME NEW p \in Thread, NEW t \in Thunk, Spark(p, t) \/ SparkNew(p, t)
      PROVE  LoopsReal' /\ NoneStored'
  <2>1. /\ Running(p)
        /\ \/ SetThread(p, Continue(p))
           \/ \E q \in Thread : Fork(p, q, t)
    BY <1>2 DEF Spark, SparkNew, At
  <2>2. \A q \in Thread : thread'[q].exc = thread[q].exc
    <3>1. CASE SetThread(p, Continue(p))
      BY <2>1, <3>1, ExcStays, ContinueSame
    <3>2. ASSUME NEW q \in Thread, Fork(p, q, t)
          PROVE  \A r \in Thread : thread'[r].exc = thread[r].exc
      BY <2>1, <3>2, ForkSame, ContinueSame
    <3> QED BY <2>1, <3>1, <3>2
  <2>3. CASE Spark(p, t)
    BY <1>0, <2>2, <2>3, OutcomesSame DEF Spark
  <2>4. CASE SparkNew(p, t)
    <3>1. Unforced(FALSE) \in ThunkState /\ Unforced(FALSE).result.kind = "none"
      BY CellType, CellResults
    <3> QED BY <1>0, <2>2, <2>4, <3>1, OutcomesWrite DEF SparkNew
  <2> QED BY <1>2, <2>3, <2>4
<1>3. ASSUME NEW p \in Thread, SparkThunk(p)
      PROVE  LoopsReal' /\ NoneStored'
  <2>1. PICK t \in Thunk : t = thread[p].target
    BY <1>3 DEF SparkThunk, SparkThunkIn, TypeInv, StackInv, WellFormed
  <2>2. \A q \in Thread : thread'[q].exc = thread[q].exc
    <3> DEFINE s == [thread[p] EXCEPT !.mode = "run", !.stack = <<NewFrame("main", t)>>]
               d == [thread[p] EXCEPT !.mode = "done"]
    <3>1. SetThread(p, s) \/ SetThread(p, d)
      BY <1>3, <2>1 DEF SparkThunk, SparkThunkIn
    <3>2. s.exc = thread[p].exc /\ d.exc = thread[p].exc
      BY DEF TypeInv, VarTypes, ThreadState
    <3> QED BY <3>1, <3>2, ExcStays
  <2>3. CASE UNCHANGED tv
    BY <1>0, <2>2, <2>3, OutcomesSame
  <2>4. CASE SetThunk(t, UnderEvaluation(p, tv[t].backup))
    <3>1. tv[t].backup \in BOOLEAN
      BY DEF TypeInv, VarTypes, ThunkState
    <3>2. /\ UnderEvaluation(p, tv[t].backup) \in ThunkState
          /\ UnderEvaluation(p, tv[t].backup).result.kind = "none"
      BY <3>1, CellType, CellResults
    <3> QED BY <1>0, <2>2, <2>4, <3>2, OutcomesWrite
  <2> QED BY <1>3, <2>1, <2>3, <2>4 DEF SparkThunk, SparkThunkIn
<1>4. ASSUME NEW p \in Thread, NEW t \in Thunk, ForceEvaluated(p, t)
      PROVE  LoopsReal' /\ NoneStored'
  <2>1. Running(p) /\ UNCHANGED <<code, tv>>
    BY <1>4 DEF ForceEvaluated, At
  <2>2. CASE SetThread(p, Continue(p))
    BY <2>1, <2>2, ExcStays, ContinueSame, OutcomesSame
  <2>3. CASE SetThread(p, Raise(p, tv[t].result))
    <3>1. Fine(tv[t].result)
      BY DEF Fine, Known
    <3> QED BY <2>1, <2>3, <3>1, OutcomesRaise
  <2> QED BY <1>4, <2>2, <2>3 DEF ForceEvaluated
<1>5. ASSUME NEW p \in Thread, NEW t \in Thunk, ForceClaim(p, t) \/ ForceBackup(p, t)
      PROVE  LoopsReal' /\ NoneStored'
  <2>1. PICK k \in Kinds :
          SetThread(p, [thread[p] EXCEPT !.stack = Push(@, NewFrame(k, t))])
    BY <1>5 DEF ForceClaim, ForceBackup, Kinds
  <2>2. [thread[p] EXCEPT !.stack = Push(@, NewFrame(k, t))].exc = thread[p].exc
    BY DEF TypeInv, VarTypes, ThreadState
  <2>3. \A q \in Thread : thread'[q].exc = thread[q].exc
    BY <2>1, <2>2, ExcStays
  <2>4. PICK b \in BOOLEAN : SetThunk(t, UnderEvaluation(p, b))
    BY <1>5 DEF ForceClaim, ForceBackup, TypeInv, VarTypes, ThunkState
  <2>5. UnderEvaluation(p, b) \in ThunkState /\ UnderEvaluation(p, b).result.kind = "none"
    BY CellType, CellResults
  <2> QED BY <1>0, <2>3, <2>4, <2>5, OutcomesWrite
<1>6. ASSUME NEW p \in Thread, NEW t \in Thunk, ForceLoop(p, t)
      PROVE  LoopsReal' /\ NoneStored'
  <2> DEFINE e == Result("loop", t)
  <2>1. /\ At(p, "force", t) /\ tv[t].tag = "under" /\ tv[t].owner = p
        /\ SetThunk(t, ForcedErr(e)) /\ SetThread(p, Raise(p, e))
    BY <1>6 DEF ForceLoop
  <2>2. e \in Outcome /\ e.kind = "loop" /\ e.of = t
    BY OutcomeType DEF Result
  <2>3. DependsOnItself(t)
    BY <2>1, ForcedInside DEF OwnersWork
  <2>4. Fine(e) /\ e.kind # "foreign"
    BY <2>2, <2>3 DEF Fine
  <2>5. thread'[p].exc = e /\ \A q \in Thread : q # p => thread'[q] = thread[q]
    BY <2>1, OthersStay, RaiseSame
  <2>6. \A q \in Thread : Fine(thread'[q].exc)
    BY <2>4, <2>5 DEF Fine, Known
  <2>7. \A u \in Thunk : tv'[u] = IF u = t THEN ForcedErr(e) ELSE tv[u]
    BY <2>1 DEF TypeInv, VarTypes, SetThunk
  <2>8. ForcedErr(e).result = e
    BY <2>2, CellResults
  <2>9. \A u \in Thunk : \/ tv'[u].result = tv[u].result
                         \/ Fine(tv'[u].result) /\ tv'[u].result.kind # "foreign"
    <3>1. \A u \in Thunk : tv'[u].result = tv[u].result \/ tv'[u].result = e
      BY <2>7, <2>8
    <3> QED BY <2>4, <3>1
  <2> QED BY <1>0, <2>6, <2>9, OutcomesKept
<1>7. ASSUME NEW p \in Thread, NEW t \in Thunk, ForceVoid(p, t)
      PROVE  FALSE
  BY <1>7 DEF ForceVoid, HolesFilledInTime
<1>8. ASSUME NEW p \in Thread, Return(p)
      PROVE  LoopsReal' /\ NoneStored'
  <2>1. /\ Running(p) /\ SetThread(p, Resume(p)) /\ TopFrame(p) \in Frame
        /\ thread[p] \in ThreadState
    BY <1>8, BusyThread DEF Return, Running
  <2>2. Resume(p).exc = thread[p].exc
    BY <2>1 DEF Resume, ThreadState
  <2>3. \A q \in Thread : thread'[q].exc = thread[q].exc
    BY <2>1, <2>2, ExcStays
  <2>4. CASE UNCHANGED tv
    BY <1>0, <2>3, <2>4, OutcomesSame
  <2>5. CASE ~UNCHANGED tv
    <3>1. /\ TopFrame(p).kind # "command"
          /\ SetThunk(TopFrame(p).name, Forced(Result(TopFrame(p).kind, TopFrame(p).name)))
      BY <1>8, <2>5 DEF Return
    <3>2. PICK k \in Kinds, u \in Thunk : k = TopFrame(p).kind /\ u = TopFrame(p).name
      BY <2>1, <3>1 DEF Frame, Kinds
    <3>3. Result(k, u) \in Outcome /\ Result(k, u).kind = k
      BY OutcomeType DEF Result, Kinds
    <3>4. Forced(Result(k, u)) \in ThunkState /\ Forced(Result(k, u)).result.kind = k
      BY <3>3, CellType, CellResults
    <3>5. SetThunk(u, Forced(Result(k, u))) /\ k \notin {"loop", "foreign"}
      BY <3>1, <3>2 DEF Kinds
    <3> QED BY <1>0, <2>3, <3>4, <3>5, OutcomesWrite
  <2> QED BY <2>4, <2>5
<1>9. ASSUME NEW p \in Thread, Throw(p)
      PROVE  LoopsReal' /\ NoneStored'
  <2>1. Running(p) /\ TopFrame(p) \in Frame /\ UNCHANGED <<code, tv>>
    BY <1>9, BusyThread DEF Throw, Running
  <2>2. PICK e : /\ e = Result(BodyOf(TopFrame(p)).end, TopFrame(p).name)
                 /\ SetThread(p, Raise(p, e))
    BY <1>9 DEF Throw
  <2>3. e.kind # "loop"
    BY <2>1, <2>2, BodyType DEF Body, Ends, Result
  <2>4. Fine(e)
    BY <2>3 DEF Fine
  <2> QED BY <2>1, <2>2, <2>4, OutcomesRaise
<1>10. ASSUME NEW p \in Thread, Unwind(p)
       PROVE  LoopsReal' /\ NoneStored'
  <2>1. /\ thread'[p].exc = thread[p].exc \/ thread'[p].exc = NoResult
        /\ \A q \in Thread : q # p => thread'[q] = thread[q]
        /\ thread[p].mode = "raise"
    BY <1>10, UnwindShape DEF Shrinks, OthersSame
  <2>2. \A q \in Thread : Fine(thread'[q].exc)
    BY <2>1, CellResults DEF Fine, Known
  <2>3. CASE UNCHANGED tv
    BY <1>0, <2>2, <2>3, OutcomesKept
  <2>4. CASE ~UNCHANGED tv
    <3>1. /\ thread[p].exc.kind # "foreign"
          /\ SetThunk(TopFrame(p).name, ForcedErr(thread[p].exc))
      BY <1>10, <2>4 DEF Unwind, UnwindWith, Stores
    <3>2. PICK e \in Outcome : e = thread[p].exc
      BY <2>1, BusyThread DEF ThreadState
    <3>3. \A u \in Thunk : tv'[u] = tv[u] \/ tv'[u] = ForcedErr(e)
      BY <3>1, <3>2 DEF SetThunk, TypeInv, VarTypes
    <3>4. ForcedErr(e).result = e /\ Fine(e) /\ e.kind # "foreign"
      BY <3>1, <3>2, CellResults DEF Fine, Known
    <3>5. \A u \in Thunk : \/ tv'[u].result = tv[u].result
                           \/ Fine(tv'[u].result) /\ tv'[u].result.kind # "foreign"
      BY <3>3, <3>4
    <3> QED BY <1>0, <2>2, <3>5, OutcomesKept
  <2> QED BY <2>3, <2>4
<1>11. ASSUME NEW c \in Command, RunCommand(c)
       PROVE  LoopsReal' /\ NoneStored'
  <2> DEFINE s == [thread[Main] EXCEPT !.mode = "run",
                                       !.stack = <<NewFrame("command", c)>>]
  <2>1. Main \in Thread /\ SetThread(Main, s) /\ UNCHANGED <<code, tv>>
    BY <1>11, ThreadAssumption DEF ThreadAssumption, RunCommand
  <2>2. s.exc = thread[Main].exc
    BY <2>1 DEF TypeInv, VarTypes, ThreadState
  <2> QED BY <2>1, <2>2, ExcStays, OutcomesSame
<1>12. CASE Interrupt
  BY <1>12, BoundAssumption DEF Interrupt, NothingCutShort, BoundAssumption, TypeInv, VarTypes
<1>13. CASE Quiescent
  BY <1>13, OutcomesSame DEF Quiescent, vars
<1> QED
  BY <1>1, <1>2, <1>3, <1>4, <1>5, <1>6, <1>7, <1>8, <1>9, <1>10, <1>11, <1>12, <1>13
  DEF Next, Step

\* A thread that meets a foreign exception has no thunk on its stack.
LEMMA NoneAboveBelow ==
  ASSUME TypeInv, NEW p \in Thread, Shrinks(p), NoneAbove(p)
  PROVE  NoneAbove(p)'
BY FramesShrink DEF NoneAbove

LEMMA ForeignStep ==
  ASSUME TypeInv, TypeInv', RestInv, ChainInv, Honest, HolesFilledInTime,
         NothingCutShort, NothingCutShort', Next
  PROVE  ForeignAlone'
<1> USE DEF Honest
\* A step that leaves the stacks and raises at most the exception e.
<1>a. ASSUME NEW p \in Thread, SameStacks, NEW e, e.kind # "foreign",
             SetThread(p, Raise(p, e))
      PROVE  ForeignAlone'
  <2>1. /\ thread'[p].exc = e /\ \A q \in Thread : q # p => thread'[q] = thread[q]
    BY <1>a, OthersStay, RaiseSame
  <2>2. \A q \in Thread : NoneAbove(q) => NoneAbove(q)'
    BY <1>a, FramesSame DEF NoneAbove
  <2> QED BY <1>a, <2>1, <2>2 DEF ForeignAlone
\* A step that raises nothing.
<1>b. ASSUME NEW p \in Thread, thread'[p].mode # "raise", OthersSame(p)
      PROVE  ForeignAlone'
  <2>1. \A q \in Thread : q # p => (NoneAbove(q)' <=> NoneAbove(q))
    BY <1>b DEF OthersSame, NoneAbove, Runs
  <2> QED BY <1>b, <2>1 DEF OthersSame, ForeignAlone
<1>1. ASSUME NEW p \in Thread, Running(p), SetThread(p, Continue(p))
      PROVE  ForeignAlone'
  BY <1>1, <1>b, ContinueSame, OthersStay DEF OthersSame
<1>2. ASSUME NEW p \in Thread, NEW q \in Thread, NEW t, Running(p), Fork(p, q, t)
      PROVE  ForeignAlone'
  <2>1. /\ thread'[p].mode = "run" /\ thread'[q].mode = "claim"
        /\ \A r \in Thread \ {p, q} : thread'[r] = thread[r]
    BY <1>2, ForkSame, ContinueSame
  <2>2. \A r \in Thread \ {p, q} : NoneAbove(r)' <=> NoneAbove(r)
    BY <2>1 DEF NoneAbove, Runs
  <2> QED BY <2>1, <2>2 DEF ForeignAlone
<1>3. ASSUME NEW p \in Thread, NEW t \in Thunk,
             \/ Delay(p, t) \/ Blackhole(p, t) \/ Fill(p, t)
             \/ Spark(p, t) \/ SparkNew(p, t)
      PROVE  ForeignAlone'
  BY <1>1, <1>2, <1>3 DEF Delay, Blackhole, Fill, Spark, SparkNew, At
<1>4. ASSUME NEW p \in Thread, SparkThunk(p)
      PROVE  ForeignAlone'
  <2> DEFINE s == [thread[p] EXCEPT !.mode = "run",
                                    !.stack = <<NewFrame("main", thread[p].target)>>]
             d == [thread[p] EXCEPT !.mode = "done"]
  <2>1. SetThread(p, s) \/ SetThread(p, d)
    BY <1>4 DEF SparkThunk, SparkThunkIn
  <2>2. s.mode # "raise" /\ d.mode # "raise"
    BY DEF TypeInv, VarTypes, ThreadState
  <2> QED BY <1>b, <2>1, <2>2, OthersStay DEF OthersSame
<1>5. ASSUME NEW p \in Thread, NEW t \in Thunk,
             ForceEvaluated(p, t) \/ ForceLoop(p, t) \/ ForceVoid(p, t)
      PROVE  ForeignAlone'
  <2>1. Running(p) /\ SameStacks
    BY <1>5, QuietShape DEF QuietStep, ForceEvaluated, ForceLoop, ForceVoid, At
  <2>2. CASE SetThread(p, Continue(p))
    BY <1>1, <2>1, <2>2
  <2>3. CASE SetThread(p, Raise(p, tv[t].result))
    <3>1. tv[t].result.kind # "foreign"
      BY DEF NoneStored
    <3> QED BY <1>a, <2>1, <2>3, <3>1
  <2>4. CASE SetThread(p, Raise(p, Result("loop", t)))
    <3>1. Result("loop", t).kind # "foreign"
      BY DEF Result
    <3> QED BY <1>a, <2>1, <2>4, <3>1
  <2> QED
    BY <1>5, <2>2, <2>3, <2>4
    DEF ForceEvaluated, ForceLoop, ForceVoid, HolesFilledInTime
<1>6. ASSUME NEW p \in Thread, NEW t \in Thunk, ForceClaim(p, t) \/ ForceBackup(p, t)
      PROVE  ForeignAlone'
  <2>1. PICK k \in Kinds :
          Running(p) /\ SetThread(p, [thread[p] EXCEPT !.stack = Push(@, NewFrame(k, t))])
    BY <1>6 DEF ForceClaim, ForceBackup, Kinds, At
  <2>2. [thread[p] EXCEPT !.stack = Push(@, NewFrame(k, t))].mode = "run"
    BY <2>1 DEF TypeInv, VarTypes, ThreadState, Running
  <2> QED BY <1>b, <2>1, <2>2, OthersStay DEF OthersSame
<1>7. ASSUME NEW p \in Thread, Return(p)
      PROVE  ForeignAlone'
  <2>1. Running(p) /\ SetThread(p, Resume(p)) /\ thread[p] \in ThreadState
    BY <1>7 DEF Return, TypeInv, VarTypes
  <2>2. Resume(p).mode # "raise"
    BY <2>1 DEF Resume, ThreadState, Running
  <2> QED BY <1>b, <2>1, <2>2, OthersStay DEF OthersSame
\* Only a command throws an exception that is not stored, and it is alone.
<1>8. ASSUME NEW p \in Thread, Throw(p)
      PROVE  ForeignAlone'
  <2> DEFINE f == TopFrame(p)
             r == thread[p].stack
  <2>1. /\ Running(p) /\ f \in Frame /\ r \in Seq(Frame) /\ r # <<>>
        /\ SameStacks
    BY <1>8, BusyThread, QuietShape DEF Throw, Running, QuietStep
  <2>2. PICK e : e = Result(BodyOf(f).end, f.name) /\ SetThread(p, Raise(p, e))
    BY <1>8 DEF Throw
  <2>3. e.kind = BodyOf(f).end
    BY <2>2 DEF Result
  <2>4. CASE f.kind = "command"
    <3>1. Len(r) \in 1..Len(r) /\ r[Len(r)] = f
      BY <2>1 DEF TopFrame, Top
    <3>2. Len(r) = 1
      <4>1. Deep(r)
        BY <2>1 DEF ChainInv
      <4>2. r[Len(r)].kind = "command"
        BY <2>4, <3>1
      <4>3. Len(r) \in Nat /\ Len(r) \in 1..Len(r)
        BY <2>1
      <4>4. ~(Len(r) > 1)
        BY <4>1, <4>2, <4>3 DEF Deep
      <4>5. \A n \in Nat : n \in 1..n /\ ~(n > 1) => n = 1
        OBVIOUS
      <4> QED BY <4>3, <4>4, <4>5
    <3>3. NoneAbove(p)
      BY <2>4, <3>1, <3>2 DEF NoneAbove, Runs, Kinds
    <3>4. \A q \in Thread : NoneAbove(q) => NoneAbove(q)'
      BY <2>1, FramesSame DEF NoneAbove
    <3>5. \A q \in Thread : q # p => thread'[q] = thread[q]
      BY <2>2, OthersStay
    <3> QED BY <3>3, <3>4, <3>5 DEF ForeignAlone
  <2>5. CASE f.kind # "command"
    <3>1. f.name \in Thunk /\ f.kind \in {"main", "backup"}
      BY <2>1, <2>5 DEF Frame
    <3>2. BodyOf(f).end # "foreign"
      BY <3>1 DEF NothingCutShort, BodyOf
    <3> QED BY <1>a, <2>1, <2>2, <2>3, <3>2
  <2> QED BY <2>4, <2>5
<1>9. ASSUME NEW p \in Thread, Unwind(p)
      PROVE  ForeignAlone'
  <2>1. /\ Shrinks(p) /\ thread[p].mode = "raise" /\ OthersSame(p)
        /\ thread'[p].exc = thread[p].exc \/ thread'[p].exc = NoResult
    BY <1>9, UnwindShape DEF Shrinks
  <2>2. NoneAbove(p) => NoneAbove(p)'
    BY <2>1, NoneAboveBelow
  <2>3. \A q \in Thread : q # p => (NoneAbove(q)' <=> NoneAbove(q))
    BY <2>1 DEF OthersSame, NoneAbove, Runs
  <2>4. NoResult.kind # "foreign"
    BY CellResults
  <2> QED BY <2>1, <2>2, <2>3, <2>4 DEF OthersSame, ForeignAlone
<1>10. ASSUME NEW c \in Command, RunCommand(c)
       PROVE  ForeignAlone'
  <2> DEFINE s == [thread[Main] EXCEPT !.mode = "run",
                                       !.stack = <<NewFrame("command", c)>>]
  <2>1. Main \in Thread /\ SetThread(Main, s)
    BY <1>10, ThreadAssumption DEF ThreadAssumption, RunCommand
  <2>2. s.mode # "raise"
    BY <2>1 DEF TypeInv, VarTypes, ThreadState
  <2> QED BY <1>b, <2>1, <2>2, OthersStay DEF OthersSame
<1>11. CASE Interrupt
  BY <1>11, BoundAssumption DEF Interrupt, NothingCutShort, BoundAssumption, TypeInv, VarTypes
<1>12. CASE Quiescent
  <2>1. UNCHANGED thread
    BY <1>12 DEF Quiescent, vars
  <2>2. \A q \in Thread : NoneAbove(q)' <=> NoneAbove(q)
    BY <2>1 DEF NoneAbove, Runs
  <2> QED BY <2>1, <2>2 DEF ForeignAlone
<1> QED
  BY <1>3, <1>4, <1>5, <1>6, <1>7, <1>8, <1>9, <1>10, <1>11, <1>12 DEF Next, Step

\* Thunk t does not become claimed, and keeps its claimant.
ClaimKept(t) ==
  tv'[t].tag = "under" => tv[t].tag = "under" /\ tv'[t].owner = tv[t].owner

Owners == OwnersWork /\ BackupsAbove

LEMMA OwnersSame ==
  ASSUME TypeInv, Owners, SameStacks, \A t \in Thunk : ClaimKept(t)
  PROVE  Owners'
<1>1. \A q \in Thread, k \in Kinds, t \in Thunk, i \in Nat :
        Runs(q, i, k, t)' <=> Runs(q, i, k, t)
  BY FramesSame
<1>2. OwnersWork'
  BY <1>1 DEF Owners, OwnersWork, ClaimKept, Kinds
<1>3. BackupsAbove'
  <2> SUFFICES ASSUME NEW q \in Thread, NEW i \in Nat, NEW t \in Thunk,
                      Runs(q, i, "backup", t)'
               PROVE  \E j \in 1..(i - 1) : Runs(q, j, "main", t)'
    BY DEF BackupsAbove
  <2>1. Runs(q, i, "backup", t)
    BY <1>1 DEF Kinds
  <2>2. PICK j \in 1..(i - 1) : Runs(q, j, "main", t)
    BY <2>1 DEF Owners, BackupsAbove
  <2> QED BY <1>1, <2>2 DEF Kinds
<1> QED BY <1>2, <1>3 DEF Owners

\* A command starts: it has no thunk.
LEMMA OwnersCommand ==
  ASSUME TypeInv, Owners, UNCHANGED tv, NEW c,
         NEW p \in Thread, Starts(p, NewFrame("command", c))
  PROVE  Owners'
<1>1. NewFrame("command", c).kind = "command"
  BY DEF NewFrame
<1>2. \A q \in Thread, k \in Kinds, t \in Thunk, i \in Nat :
        Runs(q, i, k, t)' <=> Runs(q, i, k, t)
  <2>1. \A q \in Thread, k \in Kinds, t \in Thunk, i \in Nat :
          Runs(q, i, k, t)' <=>
            \/ Runs(q, i, k, t)
            \/ q = p /\ i = 1 /\ NewFrame("command", c).kind = k
               /\ NewFrame("command", c).name = t
    BY FramesStart
  <2> QED BY <1>1, <2>1 DEF Kinds
<1>3. OwnersWork'
  BY <1>2 DEF Owners, OwnersWork, Kinds
<1>4. BackupsAbove'
  <2> SUFFICES ASSUME NEW q \in Thread, NEW i \in Nat, NEW t \in Thunk,
                      Runs(q, i, "backup", t)'
               PROVE  \E j \in 1..(i - 1) : Runs(q, j, "main", t)'
    BY DEF BackupsAbove
  <2>1. Runs(q, i, "backup", t)
    BY <1>2 DEF Kinds
  <2>2. PICK j \in 1..(i - 1) : Runs(q, j, "main", t)
    BY <2>1 DEF Owners, BackupsAbove
  <2> QED BY <1>2, <2>2 DEF Kinds
<1> QED BY <1>3, <1>4 DEF Owners

\* A step after which thread p has one more frame, for thunk u, at position n:
\* a main computation of a thunk it claims, or a backup above the main one.
NewTop(p, n, m, u) ==
  \A q \in Thread, k \in Kinds, t \in Thunk, i \in Nat :
    Runs(q, i, k, t)' <=> \/ Runs(q, i, k, t)
                          \/ q = p /\ i = n /\ m = k /\ u = t

NewClaim(p, m, u) ==
  \A t \in Thunk : \/ ClaimKept(t)
                   \/ t = u /\ tv'[t].owner = p /\ m = "main"

OnMain(p, n, m, u) == m = "backup" => \E j \in 1..(n - 1) : Runs(p, j, "main", u)

LEMMA OwnersMore ==
  ASSUME TypeInv, Owners, NEW p \in Thread, NEW n \in Nat, NEW m \in Kinds, NEW u \in Thunk,
         NewTop(p, n, m, u), NewClaim(p, m, u), OnMain(p, n, m, u)
  PROVE  Owners'
<1> USE DEF NewTop, NewClaim, OnMain
<1>1. OwnersWork'
  <2> SUFFICES ASSUME NEW t \in Thunk, tv'[t].tag = "under"
               PROVE  \E q \in Thread, i \in Nat : tv'[t].owner = q /\ Runs(q, i, "main", t)'
    BY DEF OwnersWork
  <2>1. CASE ClaimKept(t)
    <3>1. PICK q \in Thread : \E i \in Nat : tv[t].owner = q /\ Runs(q, i, "main", t)
      BY <2>1 DEF ClaimKept, Owners, OwnersWork
    <3>2. PICK i \in Nat : tv[t].owner = q /\ Runs(q, i, "main", t)
      BY <3>1
    <3>3. Runs(q, i, "main", t)'
      BY <3>2 DEF Kinds
    <3> QED BY <2>1, <3>2, <3>3 DEF ClaimKept
  <2>2. CASE t = u /\ tv'[t].owner = p /\ m = "main"
    BY <2>2 DEF Kinds
  <2> QED BY <2>1, <2>2
<1>2. BackupsAbove'
  <2> SUFFICES ASSUME NEW q \in Thread, NEW i \in Nat, NEW t \in Thunk,
                      Runs(q, i, "backup", t)'
               PROVE  \E j \in 1..(i - 1) : Runs(q, j, "main", t)'
    BY DEF BackupsAbove
  <2>1. \/ Runs(q, i, "backup", t)
        \/ q = p /\ i = n /\ m = "backup" /\ u = t
    BY DEF Kinds
  <2>2. PICK j \in 1..(i - 1) : Runs(q, j, "main", t)
    BY <2>1 DEF Owners, BackupsAbove
  <2>3. Runs(q, j, "main", t)'
    BY <2>2 DEF Kinds
  <2> QED BY <2>3
<1> QED BY <1>1, <1>2 DEF Owners

\* A step that takes away the top frame, whose thunk is no longer claimed.
LEMMA OwnersFewer ==
  ASSUME TypeInv, Owners, NEW p \in Thread, Shrinks(p), \A t \in Thunk : ClaimKept(t),
         \A t \in Thunk : Runs(p, Len(thread[p].stack), "main", t) => tv'[t].tag # "under"
  PROVE  Owners'
<1> DEFINE n == Len(thread[p].stack)
<1>1. /\ n \in Nat \ {0}
      /\ \A q \in Thread, k \in Kinds, t \in Thunk, i \in Nat :
           Runs(q, i, k, t)' <=> Runs(q, i, k, t) /\ ~(q = p /\ i = n)
  BY FramesShrink
<1>2. OwnersWork'
  <2> SUFFICES ASSUME NEW t \in Thunk, tv'[t].tag = "under"
               PROVE  \E q \in Thread, i \in Nat : tv'[t].owner = q /\ Runs(q, i, "main", t)'
    BY DEF OwnersWork
  <2>1. PICK q \in Thread : \E i \in Nat : tv[t].owner = q /\ Runs(q, i, "main", t)
    BY DEF ClaimKept, Owners, OwnersWork
  <2>2. PICK i \in Nat : tv[t].owner = q /\ Runs(q, i, "main", t)
    BY <2>1
  <2>3. ~(q = p /\ i = n)
    BY <2>2
  <2>4. Runs(q, i, "main", t)'
    BY <1>1, <2>2, <2>3 DEF Kinds
  <2> QED BY <2>2, <2>4 DEF ClaimKept
<1>3. BackupsAbove'
  <2> SUFFICES ASSUME NEW q \in Thread, NEW i \in Nat, NEW t \in Thunk,
                      Runs(q, i, "backup", t)'
               PROVE  \E j \in 1..(i - 1) : Runs(q, j, "main", t)'
    BY DEF BackupsAbove
  <2>1. Runs(q, i, "backup", t) /\ ~(q = p /\ i = n)
    BY <1>1 DEF Kinds
  <2>2. PICK j \in 1..(i - 1) : Runs(q, j, "main", t)
    BY <2>1 DEF Owners, BackupsAbove
  <2>3. ~(q = p /\ j = n)
    BY <1>1, <2>1, <2>2 DEF Runs
  <2>4. Runs(q, j, "main", t)'
    BY <1>1, <2>2, <2>3 DEF Kinds
  <2> QED BY <2>4
<1> QED BY <1>2, <1>3 DEF Owners

\* A quiet step claims nothing.
LEMMA QuietClaims ==
  ASSUME TypeInv, NEW p \in Thread, QuietStep(p)
  PROVE  \A t \in Thunk : ClaimKept(t)
<1>1. ASSUME NEW t \in Thunk, NEW c \in ThunkState, c.tag # "under", SetThunk(t, c)
      PROVE  \A u \in Thunk : ClaimKept(u)
  BY <1>1 DEF ClaimKept, SetThunk, TypeInv, VarTypes
<1>2. ASSUME UNCHANGED tv
      PROVE  \A u \in Thunk : ClaimKept(u)
  BY <1>2 DEF ClaimKept
<1>3. ASSUME NEW t \in Thunk, Delay(p, t) \/ Blackhole(p, t) \/ Fill(p, t) \/ SparkNew(p, t)
      PROVE  \A u \in Thunk : ClaimKept(u)
  <2>1. /\ (t \in code.hasBackup) \in BOOLEAN /\ FALSE \in BOOLEAN
        /\ Result("main", t) \in Outcome
    BY OutcomeType
  <2>2. /\ Unforced(t \in code.hasBackup) \in ThunkState
        /\ Unforced(FALSE) \in ThunkState
        /\ Void \in ThunkState
        /\ Forced(Result("main", t)) \in ThunkState
    BY <2>1, CellType
  <2>3. /\ Unforced(t \in code.hasBackup).tag # "under"
        /\ Unforced(FALSE).tag # "under"
        /\ Void.tag # "under"
        /\ Forced(Result("main", t)).tag # "under"
    BY DEF Unforced, Void, Forced, None
  <2>4. \/ SetThunk(t, Unforced(t \in code.hasBackup))
        \/ SetThunk(t, Unforced(FALSE))
        \/ SetThunk(t, Void)
        \/ SetThunk(t, Forced(Result("main", t)))
    BY <1>3 DEF Delay, Blackhole, Fill, SparkNew
  <2> QED BY <1>1, <2>2, <2>3, <2>4
<1>4. ASSUME NEW t \in Thunk, Spark(p, t) \/ ForceEvaluated(p, t) \/ ForceVoid(p, t)
      PROVE  \A u \in Thunk : ClaimKept(u)
  BY <1>2, <1>4 DEF Spark, ForceEvaluated, ForceVoid
<1>5. ASSUME NEW t \in Thunk, ForceLoop(p, t)
      PROVE  \A u \in Thunk : ClaimKept(u)
  <2>1. Result("loop", t) \in Outcome
    BY OutcomeType
  <2>2. ForcedErr(Result("loop", t)) \in ThunkState
    BY <2>1, CellType
  <2>3. ForcedErr(Result("loop", t)).tag # "under"
    BY DEF ForcedErr, None
  <2> QED BY <1>1, <1>5, <2>2, <2>3 DEF ForceLoop
<1>6. CASE \/ Throw(p)
           \/ SparkThunk(p) /\ tv[thread[p].target].tag # "unforced"
  BY <1>2, <1>6 DEF Throw, SparkThunk, SparkThunkIn
<1> QED
  <2>1. CASE \E t \in Thunk : \/ Delay(p, t) \/ Blackhole(p, t) \/ Fill(p, t)
                             \/ Spark(p, t) \/ SparkNew(p, t) \/ ForceEvaluated(p, t)
                             \/ ForceLoop(p, t) \/ ForceVoid(p, t)
    BY <1>3, <1>4, <1>5, <2>1
  <2> QED BY <1>6, <2>1 DEF QuietStep

LEMMA OwnersStep ==
  ASSUME TypeInv, TypeInv', RestInv, ChainInv, Honest, NothingCutShort,
         NothingCutShort', Next
  PROVE  Owners'
<1>0. Owners
  BY DEF Honest, Owners
<1>1. ASSUME NEW p \in Thread, QuietStep(p)
      PROVE  Owners'
  BY <1>0, <1>1, QuietShape, QuietClaims, OwnersSame
<1>2. ASSUME NEW c \in Command, RunCommand(c)
      PROVE  Owners'
  <2>1. UNCHANGED tv
    BY <1>2 DEF RunCommand
  <2>2. PICK p \in Thread : Starts(p, NewFrame("command", c))
    BY <1>2, RunCommandShape
  <2> QED BY <1>0, <2>1, <2>2, OwnersCommand
<1>3. ASSUME NEW p \in Thread, SparkThunk(p), tv[thread[p].target].tag = "unforced"
      PROVE  Owners'
  <2>1. PICK t \in Thunk : t = thread[p].target
    BY <1>3 DEF SparkThunk, SparkThunkIn, TypeInv, StackInv, WellFormed
  <2>2. Starts(p, NewFrame("main", t))
    BY <1>3, <2>1, SparkThunkShape
  <2>3. NewFrame("main", t).kind = "main" /\ NewFrame("main", t).name = t
    BY DEF NewFrame
  <2>4. NewTop(p, 1, "main", t)
    <3>1. \A q \in Thread, k \in Kinds, u \in Thunk, i \in Nat :
            Runs(q, i, k, u)' <=>
              \/ Runs(q, i, k, u)
              \/ q = p /\ i = 1 /\ NewFrame("main", t).kind = k
                 /\ NewFrame("main", t).name = u
      BY <2>2, FramesStart
    <3> QED BY <2>3, <3>1 DEF NewTop
  <2>5. SetThunk(t, UnderEvaluation(p, tv[t].backup))
    BY <1>3, <2>1 DEF SparkThunk, SparkThunkIn
  <2>6. UnderEvaluation(p, tv[t].backup).owner = p
    BY DEF UnderEvaluation, None
  <2>7. NewClaim(p, "main", t)
    BY <2>5, <2>6 DEF SetThunk, TypeInv, VarTypes, ClaimKept, NewClaim
  <2>8. "main" \in Kinds /\ OnMain(p, 1, "main", t)
    BY DEF Kinds, OnMain
  <2> QED BY <1>0, <2>4, <2>7, <2>8, OwnersMore
<1>4. ASSUME NEW p \in Thread, NEW t \in Thunk, NEW m \in Kinds, Running(p),
             SetThread(p, [thread[p] EXCEPT !.stack = Push(@, NewFrame(m, t))]),
             NewClaim(p, m, t),
             m = "backup" => tv[t].tag = "under" /\ tv[t].owner = p
      PROVE  Owners'
  <2> DEFINE n == Len(thread[p].stack)
  <2>1. Grows(p, m, t)
    BY <1>4, PushShape
  <2>2. n \in Nat /\ NewTop(p, n + 1, m, t)
    BY <2>1, FramesGrow DEF NewTop
  <2>3. OnMain(p, n + 1, m, t)
    <3> SUFFICES ASSUME m = "backup"
                 PROVE  \E j \in 1..(n + 1 - 1) : Runs(p, j, "main", t)
      BY DEF OnMain
    <3>1. PICK j \in Nat : Runs(p, j, "main", t)
      BY <1>0, <1>4 DEF Owners, OwnersWork
    <3>2. j \in 1..n
      BY <3>1 DEF Runs
    <3> QED BY <2>2, <3>1, <3>2
  <2>4. n + 1 \in Nat
    BY <2>2
  <2> QED BY <1>0, <1>4, <2>2, <2>3, <2>4, OwnersMore
<1>5. ASSUME NEW p \in Thread, NEW t \in Thunk, ForceClaim(p, t)
      PROVE  Owners'
  <2>1. /\ Running(p) /\ SetThunk(t, UnderEvaluation(p, tv[t].backup))
        /\ SetThread(p, [thread[p] EXCEPT !.stack = Push(@, NewFrame("main", t))])
    BY <1>5 DEF ForceClaim, At
  <2>2. UnderEvaluation(p, tv[t].backup).owner = p
    BY DEF UnderEvaluation, None
  <2>3. NewClaim(p, "main", t)
    BY <2>1, <2>2 DEF SetThunk, TypeInv, VarTypes, ClaimKept, NewClaim
  <2>4. "main" \in Kinds /\ "main" # "backup"
    BY DEF Kinds
  <2> QED BY <1>4, <2>1, <2>3, <2>4
<1>6. ASSUME NEW p \in Thread, NEW t \in Thunk, ForceBackup(p, t)
      PROVE  Owners'
  <2>1. /\ Running(p) /\ SetThunk(t, UnderEvaluation(p, FALSE))
        /\ tv[t].tag = "under" /\ tv[t].owner = p
        /\ SetThread(p, [thread[p] EXCEPT !.stack = Push(@, NewFrame("backup", t))])
    BY <1>6 DEF ForceBackup, At
  <2>2. UnderEvaluation(p, FALSE).owner = p
    BY DEF UnderEvaluation, None
  <2>3. NewClaim(p, "backup", t)
    BY <2>1, <2>2 DEF SetThunk, TypeInv, VarTypes, ClaimKept, NewClaim
  <2>4. "backup" \in Kinds
    BY DEF Kinds
  <2> QED BY <1>4, <2>1, <2>3, <2>4
\* The top frame of p, when it is one of a thunk, writes that thunk.
<1>7. ASSUME NEW p \in Thread, Shrinks(p), thread[p].mode \in {"run", "raise"},
             \/ UNCHANGED tv /\ TopFrame(p).kind = "command"
             \/ UNCHANGED tv /\ NoneAbove(p)
             \/ \E c : c.tag # "under" /\ SetThunk(TopFrame(p).name, c)
      PROVE  Owners'
  <2> DEFINE r == thread[p].stack
  <2>1. r \in Seq(Frame) /\ r # <<>> /\ TopFrame(p) = r[Len(r)]
    BY <1>7, BusyThread DEF TopFrame, Top
  <2>2. Len(r) \in Nat
    BY <2>1
  <2>3. \A t \in Thunk : Runs(p, Len(r), "main", t) =>
          TopFrame(p).kind = "main" /\ TopFrame(p).name = t
    BY <2>1 DEF Runs
  <2>4. CASE UNCHANGED tv
    <3>1. \A t \in Thunk : ClaimKept(t)
      BY <2>4 DEF ClaimKept
    <3>2. \A t \in Thunk : Runs(p, Len(r), "main", t) => tv'[t].tag # "under"
      <4>1. CASE TopFrame(p).kind = "command"
        BY <2>3, <4>1
      <4>2. CASE NoneAbove(p)
        BY <2>2, <4>2 DEF NoneAbove, Kinds
      <4>3. ASSUME NEW c, c.tag # "under", SetThunk(TopFrame(p).name, c)
            PROVE  \A t \in Thunk : Runs(p, Len(r), "main", t) => tv'[t].tag # "under"
        BY <2>3, <4>3 DEF SetThunk, TypeInv, VarTypes
      <4> QED BY <1>7, <4>1, <4>2, <4>3
    <3> QED BY <1>0, <1>7, <3>1, <3>2, OwnersFewer
  <2>5. ASSUME NEW c, c.tag # "under", SetThunk(TopFrame(p).name, c)
        PROVE  Owners'
    <3>1. \A t \in Thunk : ClaimKept(t)
      BY <2>5 DEF ClaimKept, SetThunk, TypeInv, VarTypes
    <3>2. \A t \in Thunk : Runs(p, Len(r), "main", t) => tv'[t].tag # "under"
      BY <2>3, <2>5 DEF SetThunk, TypeInv, VarTypes
    <3> QED BY <1>0, <1>7, <3>1, <3>2, OwnersFewer
  <2> QED BY <1>7, <2>4, <2>5
<1>8. ASSUME NEW p \in Thread, Return(p)
      PROVE  Owners'
  <2> DEFINE v == Forced(Result(TopFrame(p).kind, TopFrame(p).name))
  <2>1. Shrinks(p) /\ thread[p].mode = "run"
    BY <1>8, ReturnShape DEF Return, Running
  <2>2. v.tag # "under"
    BY DEF Forced, None
  <2>3. \/ UNCHANGED tv /\ TopFrame(p).kind = "command"
        \/ SetThunk(TopFrame(p).name, v)
    BY <1>8 DEF Return
  <2> QED BY <1>7, <2>1, <2>2, <2>3
<1>9. ASSUME NEW p \in Thread, Unwind(p)
      PROVE  Owners'
  <2> DEFINE v == ForcedErr(thread[p].exc)
  <2>1. Shrinks(p) /\ thread[p].mode = "raise"
    BY <1>9, UnwindShape
  <2>2. v.tag # "under"
    BY DEF ForcedErr, None
  <2>3. \/ UNCHANGED tv /\ ~Stores(p)
        \/ SetThunk(TopFrame(p).name, v)
    BY <1>9 DEF Unwind, UnwindWith
  <2>4. ~Stores(p) => TopFrame(p).kind = "command" \/ NoneAbove(p)
    BY <2>1 DEF Stores, Honest, ForeignAlone
  <2> QED BY <1>7, <2>1, <2>2, <2>3, <2>4
<1>10. CASE Interrupt
  BY <1>10, BoundAssumption DEF Interrupt, NothingCutShort, BoundAssumption, TypeInv, VarTypes
<1>11. CASE Quiescent
  <2>1. UNCHANGED <<tv, thread>>
    BY <1>11 DEF Quiescent, vars
  <2>2. \A t \in Thunk : ClaimKept(t)
    BY <2>1 DEF ClaimKept
  <2>3. SameStacks
    BY <2>1, Stacks DEF StacksTyped, SameStacks, Below
  <2> QED BY <1>0, <2>2, <2>3, OwnersSame
<1> QED
  BY <1>1, <1>2, <1>3, <1>5, <1>6, <1>8, <1>9, <1>10, <1>11 DEF Next, Step, QuietStep

-----------------------------------------------------------------------------
(***************************************************************************)
(* The theorems.  What holds while nothing is cut short is kept as long as *)
(* nothing is cut short: the table never changes, and an interrupt is not  *)
(* taken back.                                                             *)
(***************************************************************************)

LEMMA CutShortStays == TypeInv /\ Next /\ NothingCutShort' => NothingCutShort
<1> SUFFICES ASSUME TypeInv, Next, NothingCutShort'
             PROVE  NothingCutShort
  OBVIOUS
<1>1. code' = code
  BY SameCode
<1>2. interrupts' = interrupts \/ interrupts' = interrupts + 1
  <2>1. ASSUME NEW p \in Thread, NEW t \in Thunk,
               \/ Delay(p, t) \/ Blackhole(p, t) \/ Fill(p, t) \/ Spark(p, t)
               \/ SparkNew(p, t) \/ ForceEvaluated(p, t) \/ ForceClaim(p, t)
               \/ ForceBackup(p, t) \/ ForceLoop(p, t) \/ ForceVoid(p, t)
        PROVE  interrupts' = interrupts
    BY <2>1 DEF Delay, Blackhole, Fill, Spark, SparkNew, ForceEvaluated, ForceClaim,
                ForceBackup, ForceLoop, ForceVoid
  <2>2. ASSUME NEW p \in Thread, SparkThunk(p) \/ Return(p) \/ Throw(p) \/ Unwind(p)
        PROVE  interrupts' = interrupts
    BY <2>2 DEF SparkThunk, SparkThunkIn, Return, Throw, Unwind, UnwindWith
  <2>3. ASSUME NEW c \in Command, RunCommand(c)
        PROVE  interrupts' = interrupts
    BY <2>3 DEF RunCommand
  <2>4. CASE Interrupt
    BY <2>4 DEF Interrupt
  <2>5. CASE Quiescent
    BY <2>5 DEF Quiescent, vars
  <2> QED BY <2>1, <2>2, <2>3, <2>4, <2>5 DEF Next, Step
<1>3. interrupts \in Nat
  BY BoundAssumption DEF BoundAssumption, TypeInv, VarTypes
<1> QED BY <1>1, <1>2, <1>3 DEF NothingCutShort

LEMMA LoopStep ==
  TypeInv /\ TypeInv' /\ LoopInv /\ HolesFilledInTime /\ [Next]_vars => LoopInv'
<1> SUFFICES ASSUME TypeInv, TypeInv', LoopInv, HolesFilledInTime, [Next]_vars
             PROVE  LoopInv'
  OBVIOUS
<1>1. CASE Next
  <2>1. RestInv' /\ ChainInv'
    BY <1>1, ChainStep DEF LoopInv
  <2>2. ASSUME NothingCutShort'
        PROVE  Honest'
    <3>1. NothingCutShort /\ Honest /\ RestInv /\ ChainInv
      BY <1>1, <2>2, CutShortStays DEF LoopInv
    <3>2. LoopsReal' /\ NoneStored'
      BY <1>1, <2>2, <3>1, OutcomesStep
    <3>3. ForeignAlone'
      BY <1>1, <2>2, <3>1, ForeignStep
    <3>4. Owners'
      BY <1>1, <2>2, <3>1, OwnersStep
    <3> QED BY <3>2, <3>3, <3>4 DEF Honest, Owners
  <2> QED BY <2>1, <2>2 DEF LoopInv
<1>2. CASE UNCHANGED vars
  <2>1. code' = code /\ tv' = tv /\ thread' = thread /\ interrupts' = interrupts
    BY <1>2 DEF vars
  <2>2. /\ \A r : Linked(r)' <=> Linked(r)
        /\ \A t : DependsOnItself(t)' <=> DependsOnItself(t)
    BY <2>1, SameForces
  <2>3. /\ \A p, i, k, t : Runs(p, i, k, t)' <=> Runs(p, i, k, t)
        /\ \A p : NoneAbove(p)' <=> NoneAbove(p)
        /\ \A e : Known(e)' <=> Known(e)
    BY <2>1 DEF Runs, NoneAbove, Known
  <2>4. RestInv' /\ ChainInv'
    BY <2>1, <2>2 DEF LoopInv, RestInv, ChainInv
  <2>5. NothingCutShort' <=> NothingCutShort
    BY <2>1 DEF NothingCutShort
  <2>6. ASSUME Honest
        PROVE  Honest'
    <3>1. OwnersWork' /\ BackupsAbove'
      BY <2>1, <2>3, <2>6 DEF Honest, OwnersWork, BackupsAbove
    <3>2. NoneStored' /\ ForeignAlone'
      BY <2>1, <2>3, <2>6 DEF Honest, NoneStored, ForeignAlone
    <3>3. LoopsReal'
      BY <2>2, <2>3, <2>6 DEF Honest, LoopsReal
    <3> QED BY <3>1, <3>2, <3>3 DEF Honest
  <2> QED BY <2>4, <2>5, <2>6 DEF LoopInv
<1> QED BY <1>1, <1>2

LEMMA LoopInit == Init => LoopInv
<1> SUFFICES ASSUME Init
             PROVE  LoopInv
  OBVIOUS
<1>1. \A p \in Thread : /\ thread[p].stack = <<>> /\ thread[p].mode # "raise"
                        /\ thread[p].exc = NoResult
  BY DEF Init
<1>2. \A p, i, k, t : p \in Thread => ~Runs(p, i, k, t)
  BY <1>1 DEF Runs
<1>3. ASSUME NEW t \in Thunk
      PROVE  tv[t].tag # "under" /\ tv[t].result = NoResult
  <2>1. tv[t] = Unforced(t \in code.hasBackup) \/ tv[t] = None
    BY DEF Init
  <2>2. (t \in code.hasBackup) \in BOOLEAN
    OBVIOUS
  <2>3. /\ Unforced(t \in code.hasBackup).result = NoResult
        /\ None.result = NoResult
    BY <2>2, CellResults
  <2>4. /\ Unforced(t \in code.hasBackup).tag # "under"
        /\ None.tag # "under"
    BY DEF Unforced, None
  <2> QED BY <2>1, <2>3, <2>4
<1>4. RestInv /\ ChainInv
  BY <1>1 DEF RestInv, ChainInv, Deep, Linked
<1>5. Honest
  BY <1>1, <1>2, <1>3, CellResults
  DEF Honest, OwnersWork, BackupsAbove, NoneStored, ForeignAlone, LoopsReal, Known
<1> QED BY <1>4, <1>5 DEF LoopInv

LEMMA LoopInvariant == Spec /\ []HolesFilledInTime => [](IInv /\ LoopInv)
<1>1. Init => IInv /\ LoopInv
  BY TypeInit, SharingInit, LoopInit DEF IInv
<1>2. IInv /\ LoopInv /\ HolesFilledInTime /\ [Next]_vars => (IInv /\ LoopInv)'
  BY TypeStep, SharingStep, LoopStep DEF IInv, HolesFilledInTime
<1> QED BY <1>1, <1>2, PTL DEF Spec

\* A loop that is reported is one: unless a computation was cut short, the
\* error is stored only for a thunk that depends on itself, in every table and
\* however many threads meet at it.
THEOREM LoopsAreReal == Spec /\ []HolesFilledInTime => []LoopIsReal
<1>1. IInv /\ LoopInv => LoopIsReal
  <2> SUFFICES ASSUME IInv, LoopInv, NothingCutShort, NEW t \in Thunk,
                      tv[t].result.kind = "loop"
               PROVE  DependsOnItself(tv[t].result.of)
    BY DEF LoopIsReal
  <2>1. tv[t].result \in Outcome
    BY DEF IInv, TypeInv, VarTypes, ThunkState
  <2> QED BY <2>1 DEF LoopInv, Honest, LoopsReal, Known
<1> QED BY <1>1, LoopInvariant, PTL

\* A backup runs above the main computation of its thunk, and there is no
\* second one to be had.
THEOREM BackupsInside == Spec /\ []HolesFilledInTime => []BackupInsideMain
<1>1. IInv /\ LoopInv => BackupInsideMain
  <2> SUFFICES ASSUME IInv, LoopInv, NEW t \in Thunk, NEW p \in Thread,
                      NEW i \in 1..Len(thread[p].stack), Runs(p, i, "backup", t)
               PROVE  /\ ~tv[t].backup
                      /\ NothingCutShort => \E j \in 1..(i - 1) : Runs(p, j, "main", t)
    BY DEF BackupInsideMain
  <2>1. i \in Nat
    BY Stacks DEF IInv, StacksTyped
  <2>2. ~tv[t].backup
    BY DEF IInv, SharingInv, Kinds
  <2>3. NothingCutShort => \E j \in 1..(i - 1) : Runs(p, j, "main", t)
    BY <2>1 DEF LoopInv, Honest, BackupsAbove
  <2> QED BY <2>2, <2>3
<1> QED BY <1>1, LoopInvariant, PTL

\* A thunk that is claimed is being worked on by its claimant, as long as
\* nothing is cut short: whoever waits for it waits for a thread that runs.
THEOREM ClaimantsWork ==
  Spec /\ []HolesFilledInTime => [](NothingCutShort => OwnerWorks)
<1>1. IInv /\ LoopInv => (NothingCutShort => OwnerWorks)
  <2> SUFFICES ASSUME IInv, LoopInv, NothingCutShort, NEW t \in Thunk,
                      tv[t].tag = "under"
               PROVE  \E i \in 1..Len(thread[tv[t].owner].stack) :
                        Runs(tv[t].owner, i, "main", t)
    BY DEF OwnerWorks
  <2> QED BY DEF LoopInv, Honest, OwnersWork, Runs
<1> QED BY <1>1, LoopInvariant, PTL

-----------------------------------------------------------------------------
(***************************************************************************)
(* Waiting in a circle.  A thread that waits has frames, and at any time   *)
(* only finitely many threads have; in a circle of finitely many each      *)
(* thunk that is waited for depends on the next.                           *)
(***************************************************************************)

\* A set of numbers is all of them if each one is in it whose predecessors are.
LEMMA NumbersAll ==
  ASSUME NEW S \in SUBSET Nat,
         \A n \in Nat : (\A m \in Nat : m < n => m \in S) => n \in S
  PROVE  S = Nat
<1> DEFINE R == {ss \in Nat \X Nat : ss[1] < ss[2]}
           T == Nat \ S
<1>1. IsWellFoundedOn(R, Nat)
  BY NatLessThanWellFounded DEF OpToRel
<1>2. ASSUME T # {} PROVE FALSE
  <2>1. PICK x \in T : \A y \in T : <<y, x>> \notin R
    BY <1>1, <1>2, WFMin
  <2> QED BY <2>1
<1> QED BY <1>2

LEMMA NumberLeast ==
  ASSUME NEW S \in SUBSET Nat, S # {}
  PROVE  \E x \in S : \A y \in S : x <= y
<1> SUFFICES ASSUME \A x \in S : \E y \in S : y < x
             PROVE  FALSE
  OBVIOUS
<1> DEFINE T == {n \in Nat : n \notin S}
<1>1. \A n \in Nat : (\A m \in Nat : m < n => m \in T) => n \in T
  OBVIOUS
<1>2. T = Nat
  <2> HIDE DEF T
  <2>1. T \in SUBSET Nat
    BY DEF T
  <2> QED BY <1>1, <2>1, NumbersAll
<1> QED BY <1>2

\* In a finite set where everything precedes something, something precedes
\* itself.
LEMMA SomethingReturns ==
  ASSUME NEW S, IsFiniteSet(S), S # {}, NEW R,
         \A x \in S : \E y \in S : <<x, y>> \in R,
         \A x, y, z \in S : <<x, y>> \in R /\ <<y, z>> \in R => <<x, z>> \in R
  PROVE  \E x \in S : <<x, x>> \in R
<1> DEFINE After(x) == {y \in S : <<x, y>> \in R}
           Size(x) == Cardinality(After(x))
           Sizes == {Size(x) : x \in S}
<1>1. ASSUME NEW x \in S
      PROVE  IsFiniteSet(After(x)) /\ Size(x) \in Nat
  <2>1. After(x) \in SUBSET S
    OBVIOUS
  <2> HIDE DEF After
  <2> QED BY <2>1, FS_Subset, FS_CardinalityType
<1>2. PICK x \in S : \A y \in S : Size(x) <= Size(y)
  <2>1. Sizes \in SUBSET Nat /\ Sizes # {}
    <3> HIDE DEF Size
    <3> QED BY <1>1
  <2>2. PICK n \in Sizes : \A m \in Sizes : n <= m
    <3> HIDE DEF Sizes
    <3> QED BY <2>1, NumberLeast
  <2> HIDE DEF Size
  <2> QED BY <2>2
<1>3. PICK y \in S : <<x, y>> \in R
  OBVIOUS
<1>4. After(y) \in SUBSET After(x)
  BY <1>3
<1>5. After(x) = After(y)
  <2>1. IsFiniteSet(After(x)) /\ Size(x) \in Nat /\ Size(y) \in Nat
    BY <1>1
  <2>2. /\ Size(y) <= Size(x)
        /\ Size(x) = Size(y) => After(x) = After(y)
    <3> HIDE DEF After
    <3> QED BY <1>4, <2>1, FS_Subset
  <2>3. Size(x) = Size(y)
    <3> HIDE DEF Size
    <3> QED BY <1>2, <2>1, <2>2
  <2> QED BY <2>2, <2>3
<1>6. y \in After(y)
  <2>1. y \in After(x)
    BY <1>3
  <2> QED BY <1>5, <2>1
<1> QED BY <1>6

\* The threads that have frames.
Busy == {p \in Thread : thread[p].stack # <<>>}
BusyFinite == IsFiniteSet(Busy)

LEMMA BusyStep ==
  ASSUME TypeInv, TypeInv', RestInv, BusyFinite, Next
  PROVE  BusyFinite'
<1>1. ASSUME NEW p \in Thread, \A q \in Thread : q # p /\ thread[q].stack = <<>>
                                                   => thread'[q].stack = <<>>
      PROVE  BusyFinite'
  <2>1. IsFiniteSet(Busy \cup {p})
    BY FS_AddElement DEF BusyFinite
  <2>2. Busy' \in SUBSET (Busy \cup {p})
    BY <1>1 DEF Busy
  <2> QED BY <2>1, <2>2, FS_Subset DEF BusyFinite
<1>2. ASSUME SameStacks
      PROVE  BusyFinite'
  <2>1. \A q \in Thread : thread[q].stack = <<>> => thread'[q].stack = <<>>
    <3> SUFFICES ASSUME NEW q \in Thread, thread[q].stack = <<>>
                 PROVE  thread'[q].stack = <<>>
      OBVIOUS
    <3>1. Len(thread'[q].stack) = 0
      BY <1>2 DEF SameStacks
    <3>2. thread'[q].stack \in Seq(Frame)
      BY Stacks DEF TypeInv, VarTypes, ThreadState
    <3> QED BY <3>1, <3>2
  <2>2. Main \in Thread
    BY ThreadAssumption DEF ThreadAssumption
  <2> QED BY <1>1, <2>1, <2>2
<1>3. ASSUME NEW p \in Thread, OthersSame(p)
      PROVE  BusyFinite'
  BY <1>1, <1>3 DEF OthersSame
<1>4. ASSUME NEW p \in Thread, QuietStep(p)
      PROVE  BusyFinite'
  BY <1>2, <1>4, QuietShape
<1>5. ASSUME NEW c \in Command, RunCommand(c)
      PROVE  BusyFinite'
  BY <1>3, <1>5, RunCommandShape DEF Starts
<1>6. ASSUME NEW p \in Thread, SparkThunk(p), tv[thread[p].target].tag = "unforced"
      PROVE  BusyFinite'
  <2>1. PICK t \in Thunk : t = thread[p].target
    BY <1>6 DEF SparkThunk, SparkThunkIn, TypeInv, StackInv, WellFormed
  <2> QED BY <1>3, <1>6, <2>1, SparkThunkShape DEF Starts
<1>7. ASSUME NEW p \in Thread, NEW t \in Thunk, ForceClaim(p, t) \/ ForceBackup(p, t)
      PROVE  BusyFinite'
  <2>1. PICK k \in Kinds :
          /\ Running(p)
          /\ SetThread(p, [thread[p] EXCEPT !.stack = Push(@, NewFrame(k, t))])
    BY <1>7 DEF ForceClaim, ForceBackup, At, Kinds
  <2> QED BY <1>3, <2>1, PushShape DEF Grows
<1>8. ASSUME NEW p \in Thread, Return(p) \/ Unwind(p)
      PROVE  BusyFinite'
  BY <1>3, <1>8, ReturnShape, UnwindShape DEF Shrinks
<1>9. CASE Interrupt
  BY <1>2, <1>9, InterruptShape
<1>10. CASE Quiescent
  BY <1>10 DEF Quiescent, vars, Busy, BusyFinite
<1> QED
  BY <1>4, <1>5, <1>6, <1>7, <1>8, <1>9, <1>10 DEF Next, Step, QuietStep

\* What depends on thunk t: all that the sets have which are closed under
\* forcing and have what t forces.
Leads(t, u) == \A S \in SUBSET Thunk : Forces(t) \subseteq S /\ Closed(S) => u \in S

\* A thread with a frame of thunk t on its stack forces what t depends on.
LEMMA ForcedAbove ==
  ASSUME TypeInv, ChainInv, NEW q \in Thread, NEW t \in Thunk, NEW u \in Thunk,
         NEW i \in Nat, Runs(q, i, "main", t), At(q, "force", u)
  PROVE  Leads(t, u)
<1> DEFINE r == thread[q].stack
<1>1. r \in Seq(Frame) /\ r # <<>>
  BY BusyThread DEF At, Running
<1>2. /\ i \in 1..Len(r) /\ r[i].kind = "main" /\ r[i].name = t
      /\ Len(r) \in 1..Len(r) /\ r[Len(r)] = TopFrame(q)
  BY <1>1 DEF Runs, TopFrame, Top
<1>3. SUFFICES ASSUME NEW S \in SUBSET Thunk, Forces(t) \subseteq S, Closed(S)
               PROVE  u \in S
  BY DEF Leads
<1>4. CASE i = Len(r)
  BY <1>2, <1>3, <1>4, ForcesNext
<1>5. CASE i # Len(r)
  <2>1. i < Len(r)
    BY <1>2, <1>5
  <2>2. TopFrame(q).name \in S
    BY <1>1, <1>2, <1>3, <2>1 DEF ChainInv, Linked
  <2>3. TopFrame(q).kind # "command"
    BY <1>1, <1>2, <2>1 DEF ChainInv, Deep
  <2>4. u \in Forces(TopFrame(q).name)
    BY <2>3, ForcesNext
  <2> QED BY <1>3, <2>2, <2>4 DEF Closed
<1> QED BY <1>4, <1>5

LEMMA LeadsOn ==
  ASSUME NEW t, NEW u \in Thunk, NEW v, Leads(t, u), Leads(u, v)
  PROVE  Leads(t, v)
BY DEF Leads, Closed

\* A thread forces one thunk at a time.
LEMMA ForcesOne ==
  ASSUME NEW p \in Thread, NEW t, NEW u, At(p, "force", t), At(p, "force", u)
  PROVE  t = u
<1>1. [op |-> "force", on |-> t] = [op |-> "force", on |-> u]
  BY DEF At
<1>2. [op |-> "force", on |-> t].on = t /\ [op |-> "force", on |-> u].on = u
  OBVIOUS
<1> QED BY <1>1, <1>2

LEMMA CircleIsLoop ==
  ASSUME TypeInv, ChainInv, OwnersWork, BusyFinite,
         NEW S \in SUBSET Thread, WaitCycle(S)
  PROVE  \E p \in S, t \in Thunk : At(p, "force", t) /\ DependsOnItself(t)
<1>1. S # {} /\ \A p \in S : \E q \in S : WaitsFor(p, q)
  BY DEF WaitCycle
<1> DEFINE Next2(p, q) == \E t, u \in Thunk :
             At(p, "force", t) /\ At(q, "force", u) /\ Leads(t, u)
           R == {pq \in S \X S : Next2(pq[1], pq[2])}
<1>2. IsFiniteSet(S)
  <2>1. \A p \in S : thread[p].stack # <<>>
    BY <1>1, BusyThread DEF WaitsFor, At, Running
  <2>2. S \in SUBSET Busy
    BY <2>1 DEF Busy
  <2> QED BY <2>2, FS_Subset DEF BusyFinite
<1>3. ASSUME NEW p \in S
      PROVE  \E q \in S : Next2(p, q)
  <2>1. PICK q \in S, t \in Thunk :
          At(p, "force", t) /\ tv[t].tag = "under" /\ tv[t].owner = q
    BY <1>1 DEF WaitsFor
  <2>2. PICK u \in Thunk : At(q, "force", u)
    BY <1>1 DEF WaitsFor
  <2>3. PICK i \in Nat : Runs(q, i, "main", t)
    BY <2>1 DEF OwnersWork
  <2>4. Leads(t, u)
    BY <2>2, <2>3, ForcedAbove
  <2> QED BY <2>1, <2>2, <2>4
<1>4. ASSUME NEW p \in S, NEW q \in S, NEW r \in S, Next2(p, q), Next2(q, r)
      PROVE  Next2(p, r)
  <2>1. PICK t, u \in Thunk : At(p, "force", t) /\ At(q, "force", u) /\ Leads(t, u)
    BY <1>4
  <2>2. PICK v, w \in Thunk : At(q, "force", v) /\ At(r, "force", w) /\ Leads(v, w)
    BY <1>4
  <2>3. u = v
    BY <2>1, <2>2, ForcesOne
  <2>4. Leads(t, w)
    BY <2>1, <2>2, <2>3, LeadsOn
  <2> QED BY <2>1, <2>2, <2>4
<1>5. PICK p \in S : Next2(p, p)
  <2> HIDE DEF Next2
  <2>1. \A x, y \in S : <<x, y>> \in R <=> Next2(x, y)
    OBVIOUS
  <2> HIDE DEF R
  <2>2. \A x \in S : \E y \in S : <<x, y>> \in R
    BY <1>3, <2>1
  <2>3. \A x, y, z \in S : <<x, y>> \in R /\ <<y, z>> \in R => <<x, z>> \in R
    BY <1>4, <2>1
  <2>4. \E x \in S : <<x, x>> \in R
    BY <1>1, <1>2, <2>2, <2>3, SomethingReturns
  <2> QED BY <2>1, <2>4
<1>6. PICK t, u \in Thunk : At(p, "force", t) /\ At(p, "force", u) /\ Leads(t, u)
  BY <1>5
<1>7. t = u
  BY <1>6, ForcesOne
<1> QED BY <1>6, <1>7 DEF Leads, DependsOnItself, Closed

\* As long as nothing is cut short, threads wait for each other in a circle only
\* if one of them forces a thunk that depends on itself, however many threads and
\* thunks there are: a circle of threads is a loop among the thunks, which one
\* thread alone would have found.
THEOREM CirclesAreLoops == Spec /\ []HolesFilledInTime => []WaitCycleIsLoop
<1>1. Init => BusyFinite
  <2>1. Init => Busy = {}
    BY DEF Init, Busy
  <2> QED BY <2>1, FS_EmptySet DEF BusyFinite
<1>2. IInv /\ IInv' /\ LoopInv /\ BusyFinite /\ [Next]_vars => BusyFinite'
  <2>1. UNCHANGED vars /\ BusyFinite => BusyFinite'
    BY DEF vars, Busy, BusyFinite
  <2> QED BY <2>1, BusyStep DEF IInv, LoopInv
<1>3. IInv /\ LoopInv /\ BusyFinite => WaitCycleIsLoop
  BY CircleIsLoop DEF IInv, LoopInv, Honest, WaitCycleIsLoop
<1> QED BY <1>1, <1>2, <1>3, LoopInvariant, PTL DEF Spec
-----------------------------------------------------------------------------
(***************************************************************************)
(* Holes are filled in time, when computations are lexically scoped.  Some *)
(* thunks are ready: evaluated, or to be computed from what is ready, and  *)
(* no computation that runs, or will, gets hold of any other.  What is     *)
(* said of a state is said of a table c, of threads th and of cells v, for *)
(* an action changes threads and cells one after the other.                *)
(***************************************************************************)

Fresh == {"none", "void"}

Sound(S, env, v) ==
  \A t \in S : /\ v[t].tag \notin Fresh
               /\ env.scope[t] \subseteq S
               /\ v[t].tag = "forced" => env.gives[t] \subseteq S

Ready(env, v) == {t \in Thunk : \E S \in SUBSET Thunk : t \in S /\ Sound(S, env, v)}

\* BodyOf, in table c, and what the body of a frame was given, knows and has made.
BodyIn(c, f) == IF f.kind = "command" THEN c.command[f.name]
              ELSE IF f.kind = "main" THEN c.main[f.name] ELSE c.backup[f.name]
Given(c, f, env) == IF f.kind = "command" THEN c.existing ELSE env.scope[f.name]
Knowing(c, f, env) == Knows(BodyIn(c, f), f.pc, Given(c, f, env), env)
Makes(c, f) == MadeBy(BodyIn(c, f), f.pc)

\* A frame knows what is ready, and what it has made is a hole as long as it has
\* not filled it.
FrameGood(f, env, c, v) ==
  /\ Knowing(c, f, env) \subseteq Ready(env, v)
  /\ \A t \in Makes(c, f) :
       /\ v[t].tag # "none"
       /\ v[t].tag = "void" <=> OpenHole(BodyIn(c, f), f.pc, t)
       /\ env.scope[t] \subseteq Ready(env, v) \cup Makes(c, f) \/ v[t].tag = "void"
       /\ v[t].tag = "forced" => env.gives[t] \subseteq Ready(env, v) \cup Makes(c, f)

FramesGood(th, env, c, v) ==
  \A p \in Thread : \A i \in 1..Len(th[p].stack) : FrameGood(th[p].stack[i], env, c, v)

\* No thunk was made by two of the computations in progress.
MadeApart(th, c) ==
  \A p, q \in Thread : \A i \in 1..Len(th[p].stack), j \in 1..Len(th[q].stack) :
    p # q \/ i # j => Makes(c, th[p].stack[i]) \cap Makes(c, th[q].stack[j]) = {}

\* A frame is at the force that started the one above it.
AtForce(c, f, g) ==
  /\ f.pc \in 1..Len(BodyIn(c, f).ops)
  /\ BodyIn(c, f).ops[f.pc] = [op |-> "force", on |-> g.name]
  /\ g.kind # "command"

Waiting(th, c) ==
  \A p \in Thread : \A i \in 1..(Len(th[p].stack) - 1) :
    AtForce(c, th[p].stack[i], th[p].stack[i + 1])

\* A spark that has yet to claim its thunk will find what it needs.
Prepared(th, env, v) ==
  \A p \in Thread : th[p].mode = "claim" => env.scope[th[p].target] \subseteq Ready(env, v)

Environments == [scope : [Thunk -> SUBSET Thunk], gives : [Thunk -> SUBSET Thunk]]

InScope(env, c, th, v) ==
  /\ c.existing \subseteq Ready(env, v)
  /\ FramesGood(th, env, c, v) /\ MadeApart(th, c) /\ Waiting(th, c)
  /\ Prepared(th, env, v)

ScopeInv == \E env \in Environments : Scoped(code, env) /\ InScope(env, code, thread, tv)

LEMMA ReadySound ==
  ASSUME NEW env \in Environments, NEW v
  PROVE  /\ Ready(env, v) \subseteq Thunk
         /\ Sound(Ready(env, v), env, v)
         /\ \A S \in SUBSET Thunk : Sound(S, env, v) => S \subseteq Ready(env, v)
<1>1. Ready(env, v) \subseteq Thunk
  BY DEF Ready
<1>2. ASSUME NEW t \in Ready(env, v)
      PROVE  /\ v[t].tag \notin Fresh
             /\ env.scope[t] \subseteq Ready(env, v)
             /\ v[t].tag = "forced" => env.gives[t] \subseteq Ready(env, v)
  <2>1. PICK S \in SUBSET Thunk : t \in S /\ Sound(S, env, v)
    BY DEF Ready
  <2>2. S \subseteq Ready(env, v)
    BY <2>1 DEF Ready
  <2> QED BY <2>1, <2>2 DEF Sound
<1> QED BY <1>1, <1>2 DEF Ready, Sound

\* A frame whose holes are all filled has made ready thunks.
LEMMA ReachReady ==
  ASSUME NEW env \in Environments, NEW v, NEW c, NEW f, FrameGood(f, env, c, v)
  PROVE  InReach(BodyIn(c, f), f.pc, Given(c, f, env), env) \subseteq Ready(env, v)
<1>1. Knowing(c, f, env) \subseteq Ready(env, v)
  BY DEF FrameGood
<1>2. ASSUME \A t \in Thunk : ~OpenHole(BodyIn(c, f), f.pc, t)
      PROVE  Makes(c, f) \subseteq Ready(env, v)
  <2> DEFINE S == Ready(env, v) \cup Makes(c, f)
  <2>1. Makes(c, f) \subseteq Thunk /\ S \in SUBSET Thunk
    BY ReadySound DEF Makes, MadeBy
  <2>2. ASSUME NEW t \in S
        PROVE  /\ v[t].tag \notin Fresh
               /\ env.scope[t] \subseteq S
               /\ v[t].tag = "forced" => env.gives[t] \subseteq S
    <3>1. CASE t \in Ready(env, v)
      BY <3>1, ReadySound DEF Sound
    <3>2. CASE t \in Makes(c, f)
      BY <1>2, <2>1, <3>2 DEF FrameGood, Fresh
    <3> QED BY <3>1, <3>2
  <2>3. Sound(S, env, v)
    BY <2>2 DEF Sound
  <2> QED BY <2>1, <2>3, ReadySound
<1>3. CASE \A t \in Thunk : ~OpenHole(BodyIn(c, f), f.pc, t)
  BY <1>1, <1>2, <1>3 DEF InReach, Knowing, Makes
<1>4. CASE \E t \in Thunk : OpenHole(BodyIn(c, f), f.pc, t)
  BY <1>1, <1>4 DEF InReach, Knowing
<1> QED BY <1>3, <1>4

\* What is ready stays so, if what comes to a value holds what is ready.
LEMMA ReadyGrows ==
  ASSUME NEW env \in Environments, NEW v, NEW w,
         \A t \in Thunk : v[t].tag \notin Fresh => w[t].tag \notin Fresh,
         \A t \in Thunk : w[t].tag = "forced" =>
           v[t].tag = "forced" \/ v[t].tag \in Fresh \/ env.gives[t] \subseteq Ready(env, v)
  PROVE  Ready(env, v) \subseteq Ready(env, w)
<1> DEFINE S == Ready(env, v)
<1>1. S \in SUBSET Thunk /\ Sound(S, env, v)
  BY ReadySound
<1>2. ASSUME NEW t \in S
      PROVE  /\ w[t].tag \notin Fresh
             /\ env.scope[t] \subseteq S
             /\ w[t].tag = "forced" => env.gives[t] \subseteq S
  <2>1. /\ t \in Thunk /\ v[t].tag \notin Fresh /\ env.scope[t] \subseteq S
        /\ v[t].tag = "forced" => env.gives[t] \subseteq S
    BY <1>1 DEF Sound
  <2> QED BY <2>1
<1>3. Sound(S, env, w)
  BY <1>2 DEF Sound
<1> QED BY <1>1, <1>3, ReadySound

\* The cells that change, none of them new or a hole before or after, and what
\* comes to a value holds what is ready.
CalmCells(env, v, w) ==
  \A t \in Thunk :
    \/ w[t] = v[t]
    \/ /\ v[t].tag \notin Fresh /\ w[t].tag \notin Fresh
       /\ w[t].tag = "forced" => env.gives[t] \subseteq Ready(env, v)

LEMMA CalmReady ==
  ASSUME NEW env \in Environments, NEW v, NEW w, CalmCells(env, v, w)
  PROVE  Ready(env, v) \subseteq Ready(env, w)
BY ReadyGrows DEF CalmCells

LEMMA FrameStays ==
  ASSUME NEW env \in Environments, NEW v, NEW w, NEW c, NEW f,
         FrameGood(f, env, c, v), Ready(env, v) \subseteq Ready(env, w),
         \A t \in Makes(c, f) :
           \/ w[t] = v[t]
           \/ /\ v[t].tag \notin Fresh /\ w[t].tag \notin Fresh
              /\ w[t].tag = "forced" => env.gives[t] \subseteq Ready(env, v)
  PROVE  FrameGood(f, env, c, w)
<1>1. Knowing(c, f, env) \subseteq Ready(env, w)
  BY DEF FrameGood
<1>2. ASSUME NEW t \in Makes(c, f)
      PROVE  /\ w[t].tag # "none"
             /\ w[t].tag = "void" <=> OpenHole(BodyIn(c, f), f.pc, t)
             /\ env.scope[t] \subseteq Ready(env, w) \cup Makes(c, f) \/ w[t].tag = "void"
             /\ w[t].tag = "forced" => env.gives[t] \subseteq Ready(env, w) \cup Makes(c, f)
  <2>1. CASE w[t] = v[t]
    BY <2>1 DEF FrameGood
  <2>2. CASE w[t] # v[t]
    BY <2>2 DEF FrameGood, Fresh
  <2> QED BY <2>1, <2>2
<1> QED BY <1>1, <1>2 DEF FrameGood

\* The threads change from th to th2: the stack of p up to its new top, frame n,
\* stays, and so do the others.
Changes(th, th2, p, n) ==
  /\ n = Len(th2[p].stack)
  /\ \A q \in Thread \ {p} : th2[q].stack = th[q].stack
  /\ \A i \in 1..(n - 1) : i \in 1..Len(th[p].stack) /\ th2[p].stack[i] = th[p].stack[i]
  /\ n > 1 => AtForce(code, th[p].stack[n - 1], th2[p].stack[n])

Beside(th, p, n) == {f \in Frame : \E q \in Thread : \E i \in 1..Len(th[q].stack) :
                                      (q # p \/ i # n) /\ f = th[q].stack[i]}

LEMMA ChangeFrames ==
  ASSUME NEW env, NEW v, NEW th \in [Thread -> ThreadState], NEW th2 \in [Thread -> ThreadState],
         NEW p \in Thread, NEW n \in Nat, Changes(th, th2, p, n),
         MadeApart(th, code), Waiting(th, code),
         \A f \in Beside(th, p, n) : FrameGood(f, env, code, v),
         n # 0 => FrameGood(th2[p].stack[n], env, code, v),
         n # 0 => \A f \in Beside(th, p, n) :
                    Makes(code, th2[p].stack[n]) \cap Makes(code, f) = {}
  PROVE  FramesGood(th2, env, code, v) /\ MadeApart(th2, code) /\ Waiting(th2, code)
<1>1. \A q \in Thread : th[q].stack \in Seq(Frame) /\ th2[q].stack \in Seq(Frame)
  BY DEF ThreadState
<1>2. ASSUME NEW q \in Thread, NEW i \in 1..Len(th2[q].stack), q # p \/ i # n
      PROVE  /\ i \in 1..Len(th[q].stack) /\ th2[q].stack[i] = th[q].stack[i]
             /\ th2[q].stack[i] \in Beside(th, p, n)
  <2>1. i \in 1..Len(th[q].stack) /\ th2[q].stack[i] = th[q].stack[i]
    <3>1. CASE q # p
      BY <3>1 DEF Changes
    <3>2. CASE q = p
      <4>1. i \in 1..(n - 1)
        BY <1>1, <1>2, <3>2 DEF Changes
      <4> QED BY <3>2, <4>1 DEF Changes
    <3> QED BY <3>1, <3>2
  <2>2. th[q].stack[i] \in Frame
    BY <1>1, <2>1
  <2> QED BY <1>2, <2>1, <2>2 DEF Beside
<1>3. ASSUME NEW q \in Thread, NEW i \in 1..Len(th2[q].stack), ~(q # p \/ i # n)
      PROVE  n # 0 /\ th2[q].stack[i] = th2[p].stack[n]
  BY <1>1, <1>3 DEF Changes
<1>4. FramesGood(th2, env, code, v)
  <2> SUFFICES ASSUME NEW q \in Thread, NEW i \in 1..Len(th2[q].stack)
               PROVE  FrameGood(th2[q].stack[i], env, code, v)
    BY DEF FramesGood
  <2>1. CASE q # p \/ i # n
    BY <1>2, <2>1
  <2>2. CASE ~(q # p \/ i # n)
    BY <1>3, <2>2
  <2> QED BY <2>1, <2>2
<1>5. MadeApart(th2, code)
  <2> SUFFICES ASSUME NEW q \in Thread, NEW r \in Thread,
                      NEW i \in 1..Len(th2[q].stack), NEW j \in 1..Len(th2[r].stack),
                      q # r \/ i # j
               PROVE  Makes(code, th2[q].stack[i]) \cap Makes(code, th2[r].stack[j]) = {}
    BY DEF MadeApart
  <2>1. CASE (q # p \/ i # n) /\ (r # p \/ j # n)
    BY <1>2, <2>1 DEF MadeApart
  <2>2. CASE (q # p \/ i # n) /\ ~(r # p \/ j # n)
    BY <1>2, <1>3, <2>2
  <2>3. CASE ~(q # p \/ i # n) /\ (r # p \/ j # n)
    BY <1>2, <1>3, <2>3
  <2>4. CASE ~(q # p \/ i # n) /\ ~(r # p \/ j # n)
    BY <2>4
  <2> QED BY <2>1, <2>2, <2>3, <2>4
<1>6. Waiting(th2, code)
  <2> SUFFICES ASSUME NEW q \in Thread, NEW i \in 1..(Len(th2[q].stack) - 1)
               PROVE  AtForce(code, th2[q].stack[i], th2[q].stack[i + 1])
    BY DEF Waiting
  <2>1. Len(th2[q].stack) \in Nat /\ Len(th[q].stack) \in Nat
    BY <1>1
  <2>2. CASE q # p
    BY <2>2 DEF Changes, Waiting
  <2>3. CASE q = p /\ i + 1 # n
    <3>1. i \in 1..(n - 1) /\ i + 1 \in 1..(n - 1)
      BY <2>1, <2>3 DEF Changes
    <3>2. /\ i + 1 \in 1..Len(th[p].stack)
          /\ th2[p].stack[i] = th[p].stack[i] /\ th2[p].stack[i + 1] = th[p].stack[i + 1]
      BY <3>1 DEF Changes
    <3>3. i \in 1..(Len(th[p].stack) - 1)
      BY <2>1, <2>3, <3>1, <3>2
    <3> QED BY <2>3, <3>2, <3>3 DEF Waiting
  <2>4. CASE q = p /\ i + 1 = n
    <3>1. i = n - 1 /\ n > 1 /\ i \in 1..(n - 1)
      BY <2>1, <2>4
    <3> QED BY <2>4, <3>1 DEF Changes
  <2> QED BY <2>2, <2>3, <2>4
<1> QED BY <1>4, <1>5, <1>6

\* A step that makes no thunk: stacks first, then cells.
LEMMA ControlStep ==
  ASSUME NEW env \in Environments, NEW v, NEW w, CalmCells(env, v, w),
         NEW th \in [Thread -> ThreadState], NEW th2 \in [Thread -> ThreadState],
         NEW p \in Thread, NEW n \in Nat, Changes(th, th2, p, n), InScope(env, code, th, v),
         n # 0 => FrameGood(th2[p].stack[n], env, code, v),
         n # 0 => \/ Makes(code, th2[p].stack[n]) = {}
                  \/ /\ n \in 1..Len(th[p].stack)
                     /\ Makes(code, th2[p].stack[n]) = Makes(code, th[p].stack[n]),
         Prepared(th2, env, v)
  PROVE  InScope(env, code, th2, w)
<1>1. Ready(env, v) \subseteq Ready(env, w)
  BY CalmReady
<1>2. ASSUME NEW f, FrameGood(f, env, code, v)
      PROVE  FrameGood(f, env, code, w)
  <2>1. Makes(code, f) \subseteq Thunk
    BY DEF Makes, MadeBy
  <2> QED BY <1>1, <1>2, <2>1, FrameStays DEF CalmCells
<1>3. \A f \in Beside(th, p, n) : FrameGood(f, env, code, v)
  BY DEF Beside, InScope, FramesGood
<1>4. n # 0 => \A f \in Beside(th, p, n) :
                 Makes(code, th2[p].stack[n]) \cap Makes(code, f) = {}
  BY DEF Beside, InScope, MadeApart
<1>5. MadeApart(th, code) /\ Waiting(th, code)
  BY DEF InScope
<1>6. FramesGood(th2, env, code, w) /\ MadeApart(th2, code) /\ Waiting(th2, code)
  <2>1. \A f \in Beside(th, p, n) : FrameGood(f, env, code, w)
    BY <1>2, <1>3
  <2>2. n # 0 => FrameGood(th2[p].stack[n], env, code, w)
    BY <1>2
  <2> QED BY <1>4, <1>5, <2>1, <2>2, ChangeFrames
<1> QED BY <1>1, <1>6 DEF InScope, Prepared

\* A step that makes or fills thunk u.
Makeup(v, w, u) == v[u].tag \in Fresh /\ \A t \in Thunk \ {u} : w[t] = v[t]

LEMMA MakeStep ==
  ASSUME NEW env \in Environments, NEW v, NEW w, NEW u \in Thunk, Makeup(v, w, u),
         NEW th \in [Thread -> ThreadState], NEW th2 \in [Thread -> ThreadState],
         NEW p \in Thread, NEW n \in Nat \ {0}, n = Len(th[p].stack), Changes(th, th2, p, n),
         InScope(env, code, th, v),
         \A f \in Beside(th, p, n) : u \notin Makes(code, f),
         Ready(env, v) \subseteq Ready(env, w) => FrameGood(th2[p].stack[n], env, code, w),
         Makes(code, th2[p].stack[n]) \subseteq Makes(code, th[p].stack[n]) \cup {u},
         Ready(env, v) \subseteq Ready(env, w) => Prepared(th2, env, w)
  PROVE  InScope(env, code, th2, w)
<1>1. Ready(env, v) \subseteq Ready(env, w)
  <2>1. \A t \in Thunk : v[t].tag \notin Fresh => w[t].tag \notin Fresh
    BY DEF Makeup
  <2>2. ASSUME NEW t \in Thunk, w[t].tag = "forced"
        PROVE  v[t].tag = "forced" \/ v[t].tag \in Fresh \/ env.gives[t] \subseteq Ready(env, v)
    BY <2>2 DEF Makeup
  <2> QED BY <2>1, <2>2, ReadyGrows
<1>2. ASSUME NEW f \in Beside(th, p, n) PROVE FrameGood(f, env, code, w)
  <2>1. FrameGood(f, env, code, v)
    BY DEF Beside, InScope, FramesGood
  <2>2. \A t \in Makes(code, f) : w[t] = v[t]
    BY DEF Makes, MadeBy, Makeup
  <2> QED BY <1>1, <2>1, <2>2, FrameStays
<1>3. \A f \in Beside(th, p, n) : Makes(code, th2[p].stack[n]) \cap Makes(code, f) = {}
  <2> SUFFICES ASSUME NEW f \in Beside(th, p, n)
               PROVE  Makes(code, th2[p].stack[n]) \cap Makes(code, f) = {}
    OBVIOUS
  <2>1. n \in 1..Len(th[p].stack)
    OBVIOUS
  <2>2. Makes(code, th[p].stack[n]) \cap Makes(code, f) = {}
    BY <2>1 DEF Beside, InScope, MadeApart
  <2> QED BY <2>2
<1>4. FramesGood(th2, env, code, w) /\ MadeApart(th2, code) /\ Waiting(th2, code)
  <2>1. MadeApart(th, code) /\ Waiting(th, code)
    BY DEF InScope
  <2>2. n \in Nat /\ FrameGood(th2[p].stack[n], env, code, w)
    BY <1>1
  <2>3. \A f \in Beside(th, p, n) : FrameGood(f, env, code, w)
    BY <1>2
  <2>4. Changes(th, th2, p, n)
    OBVIOUS
  <2> QED BY ONLY <1>3, <2>1, <2>2, <2>3, <2>4, ChangeFrames, p \in Thread,
                  th \in [Thread -> ThreadState], th2 \in [Thread -> ThreadState]
<1>5. code.existing \subseteq Ready(env, w)
  BY <1>1 DEF InScope
<1>6. Prepared(th2, env, w)
  BY <1>1
<1> QED BY <1>4, <1>5, <1>6 DEF InScope

\* What a body has done after its k-th operation.
LEMMA DidNext ==
  ASSUME NEW body \in Body, NEW k \in 1..Len(body.ops), NEW o, NEW t,
         body.ops[k] = [op |-> o, on |-> t]
  PROVE  \A o2, t2 : Did(body, k + 1, o2, t2) <=> Did(body, k, o2, t2) \/ (o2 = o /\ t2 = t)
<1> SUFFICES ASSUME NEW o2, NEW t2
             PROVE  Did(body, k + 1, o2, t2) <=> Did(body, k, o2, t2) \/ (o2 = o /\ t2 = t)
  OBVIOUS
<1>1. Len(body.ops) \in Nat
  BY DEF Body
<1>2. \A i \in 1..Len(body.ops) : i < k + 1 <=> i < k \/ i = k
  BY <1>1
<1>3. body.ops[k] = [op |-> o2, on |-> t2] <=> o2 = o /\ t2 = t
  <2>1. [op |-> o, on |-> t].op = o /\ [op |-> o, on |-> t].on = t
    OBVIOUS
  <2>2. [op |-> o2, on |-> t2].op = o2 /\ [op |-> o2, on |-> t2].on = t2
    OBVIOUS
  <2> QED BY <2>1, <2>2
<1> QED BY <1>2, <1>3 DEF Did

\* Frame g has done one operation more than f.
OneMore(f, g) == g.kind = f.kind /\ g.name = f.name /\ g.pc = f.pc + 1

LEMMA SameBody ==
  ASSUME NEW f, NEW g, OneMore(f, g), NEW env
  PROVE  BodyIn(code, g) = BodyIn(code, f) /\ Given(code, g, env) = Given(code, f, env)
BY DEF OneMore, BodyIn, Given

\* The next operation of frame f.
NextOp(f, o, t) ==
  /\ BodyIn(code, f) \in Body /\ f.pc \in 1..Len(BodyIn(code, f).ops)
  /\ BodyIn(code, f).ops[f.pc] = [op |-> o, on |-> t]

LEMMA AfterOp ==
  ASSUME NEW f, NEW g, OneMore(f, g), NEW o, NEW t, NextOp(f, o, t)
  PROVE  \A o2, t2 : Did(BodyIn(code, g), g.pc, o2, t2) <=>
                       Did(BodyIn(code, f), f.pc, o2, t2) \/ (o2 = o /\ t2 = t)
<1> DEFINE body == BodyIn(code, f)  k == f.pc
<1>1. BodyIn(code, g) = body /\ g.pc = k + 1
  BY SameBody DEF OneMore
<1>2. body \in Body /\ k \in 1..Len(body.ops) /\ body.ops[k] = [op |-> o, on |-> t]
  BY DEF NextOp
<1> HIDE DEF body, k
<1>3. \A o2, t2 : Did(body, k + 1, o2, t2) <=> Did(body, k, o2, t2) \/ (o2 = o /\ t2 = t)
  BY <1>2, DidNext
<1> QED BY <1>1, <1>3 DEF body, k

SameHoles(f, g) ==
  \A u : OpenHole(BodyIn(code, g), g.pc, u) <=> OpenHole(BodyIn(code, f), f.pc, u)

LEMMA AfterForce ==
  ASSUME NEW env, NEW f, NEW g, OneMore(f, g), NEW t \in Thunk,
         NEW o \in {"force", "spark"}, NextOp(f, o, t)
  PROVE  /\ Makes(code, g) = Makes(code, f)
         /\ SameHoles(f, g)
         /\ \/ Knowing(code, g, env) = Knowing(code, f, env)
            \/ o = "force" /\ Knowing(code, g, env) = Knowing(code, f, env) \cup env.gives[t]
<1>1. Given(code, g, env) = Given(code, f, env)
  BY SameBody
<1>2. \A o2, t2 : Did(BodyIn(code, g), g.pc, o2, t2) <=>
                    Did(BodyIn(code, f), f.pc, o2, t2) \/ (o2 = o /\ t2 = t)
  BY AfterOp
<1>3. Makes(code, g) = Makes(code, f)
  BY <1>2 DEF Makes, MadeBy
<1>4. SameHoles(f, g)
  BY <1>2 DEF OpenHole, SameHoles
<1>5. CASE o = "spark"
  <2>1. \A u : Did(BodyIn(code, g), g.pc, "force", u) <=> Did(BodyIn(code, f), f.pc, "force", u)
    BY <1>2, <1>5
  <2> QED BY <1>1, <1>3, <1>4, <2>1 DEF Knowing, Knows
<1>6. CASE o = "force"
  <2>1. \A u : Did(BodyIn(code, g), g.pc, "force", u) <=>
                 Did(BodyIn(code, f), f.pc, "force", u) \/ u = t
    BY <1>2, <1>6
  <2>2. Knowing(code, g, env) = Knowing(code, f, env) \cup env.gives[t]
    BY <1>1, <2>1 DEF Knowing, Knows
  <2> QED BY <1>3, <1>4, <1>6, <2>2
<1> QED BY <1>5, <1>6

LEMMA AfterMake ==
  ASSUME NEW env, NEW f, NEW g, OneMore(f, g), NEW t \in Thunk,
         NEW o \in {"delay", "sparkNew", "hole"}, NextOp(f, o, t)
  PROVE  /\ Makes(code, g) = Makes(code, f) \cup {t}
         /\ \A u : u # t \/ o # "hole" =>
              (OpenHole(BodyIn(code, g), g.pc, u) <=> OpenHole(BodyIn(code, f), f.pc, u))
         /\ Knowing(code, g, env) = Knowing(code, f, env)
<1>1. Given(code, g, env) = Given(code, f, env)
  BY SameBody
<1>2. \A o2, t2 : Did(BodyIn(code, g), g.pc, o2, t2) <=>
                    Did(BodyIn(code, f), f.pc, o2, t2) \/ (o2 = o /\ t2 = t)
  BY AfterOp
<1>3. Makes(code, g) = Makes(code, f) \cup {t}
  BY <1>2 DEF Makes, MadeBy
<1>4. \A u : Did(BodyIn(code, g), g.pc, "force", u) <=> Did(BodyIn(code, f), f.pc, "force", u)
  BY <1>2
<1>5. Knowing(code, g, env) = Knowing(code, f, env)
  BY <1>1, <1>4 DEF Knowing, Knows
<1> QED BY <1>2, <1>3, <1>5 DEF OpenHole

OneHoleLess(f, g, t) ==
  \A u : OpenHole(BodyIn(code, g), g.pc, u) <=> OpenHole(BodyIn(code, f), f.pc, u) /\ u # t

LEMMA AfterFill ==
  ASSUME NEW env, NEW f, NEW g, OneMore(f, g), NEW t \in Thunk,
         NEW o \in {"fill", "fillReady"}, NextOp(f, o, t)
  PROVE  /\ Makes(code, g) = Makes(code, f)
         /\ OneHoleLess(f, g, t)
         /\ Knowing(code, g, env) = Knowing(code, f, env)
<1>1. Given(code, g, env) = Given(code, f, env)
  BY SameBody
<1>2. \A o2, t2 : Did(BodyIn(code, g), g.pc, o2, t2) <=>
                    Did(BodyIn(code, f), f.pc, o2, t2) \/ (o2 = o /\ t2 = t)
  BY AfterOp
<1>3. Makes(code, g) = Makes(code, f)
  BY <1>2 DEF Makes, MadeBy
<1>4. \A u : Did(BodyIn(code, g), g.pc, "force", u) <=> Did(BodyIn(code, f), f.pc, "force", u)
  BY <1>2
<1>5. Knowing(code, g, env) = Knowing(code, f, env)
  BY <1>1, <1>4 DEF Knowing, Knows
<1>6. OneHoleLess(f, g, t)
  BY <1>2 DEF OpenHole, OneHoleLess
<1> QED BY <1>3, <1>5, <1>6

\* A body that begins has made nothing and knows what it was given.
LEMMA FrameBegins ==
  ASSUME NEW env, NEW k, NEW x
  PROVE  /\ Makes(code, NewFrame(k, x)) = {}
         /\ Knowing(code, NewFrame(k, x), env) = Given(code, NewFrame(k, x), env)
<1>1. NewFrame(k, x).pc = 1
  BY DEF NewFrame
<1>2. ASSUME NEW body, NEW o, NEW t PROVE ~Did(body, 1, o, t)
  <2>1. \A i \in 1..Len(body.ops) : ~(i < 1)
    OBVIOUS
  <2> QED BY <2>1 DEF Did
<1> QED BY <1>1, <1>2 DEF Makes, MadeBy, Knowing, Knows

\* All that is known before a step.
AllInv(env) ==
  /\ IInv /\ NoBackups /\ env \in Environments
  /\ Scoped(code, env) /\ InScope(env, code, thread, tv)

\* A thunk is filled after it was made.
LEMMA FilledIsMade ==
  ASSUME NEW env, NEW body \in Body, NEW known, KeepsScope(body, known, env), NEW t \in Thunk,
         NEW k \in Nat, NEW o \in {"fill", "fillReady"}, Did(body, k, o, t)
  PROVE  t \in MadeBy(body, k)
<1>1. PICK i \in 1..Len(body.ops) : i < k /\ body.ops[i] = [op |-> o, on |-> t]
  BY DEF Did
<1>2. OpenHole(body, i, t)
  BY <1>1 DEF KeepsScope
<1>3. PICK j \in 1..Len(body.ops) : j < i /\ body.ops[j] = [op |-> "hole", on |-> t]
  BY <1>2 DEF OpenHole, Did
<1>4. j < k
  BY <1>1, <1>3 DEF Body
<1> QED BY <1>3, <1>4 DEF MadeBy, Did

\* What is known of the top frame.
LEMMA TopFacts ==
  ASSUME NEW env, AllInv(env), NEW p \in Thread, thread[p].mode \in {"run", "raise"}
  PROVE  /\ Len(thread[p].stack) \in Nat \ {0}
         /\ TopFrame(p) = thread[p].stack[Len(thread[p].stack)]
         /\ TopFrame(p) \in Frame /\ TopFrame(p).pc \in Nat \ {0}
         /\ TopFrame(p).kind # "command" => TopFrame(p).name \in Thunk
         /\ BodyOf(TopFrame(p)) = BodyIn(code, TopFrame(p))
         /\ BodyIn(code, TopFrame(p)) \in Body
         /\ FrameGood(TopFrame(p), env, code, tv)
         /\ KeepsScope(BodyIn(code, TopFrame(p)), Given(code, TopFrame(p), env), env)
<1> DEFINE r == thread[p].stack
           f == TopFrame(p)
<1>1. TypeInv /\ r \in Seq(Frame) /\ r # <<>> /\ f \in Frame
  BY BusyThread DEF AllInv, IInv
<1>2. Len(r) \in Nat \ {0} /\ Len(r) \in 1..Len(r) /\ f = r[Len(r)]
  BY <1>1 DEF TopFrame, Top
<1>3. BodyOf(f) = BodyIn(code, f) /\ BodyOf(f) \in Body
  BY <1>1, BodyType DEF BodyOf, BodyIn
<1>4. FrameGood(f, env, code, tv)
  BY <1>2 DEF AllInv, InScope, FramesGood
<1>5. /\ f.kind \in {"command", "main", "backup"} /\ f.pc \in Nat \ {0}
      /\ f.kind = "command" => f.name \in Command
      /\ f.kind # "command" => f.name \in Thunk
  BY <1>1 DEF Frame
<1>6. f.kind = "backup" => f.name \in code.hasBackup
  BY <1>2, <1>5 DEF AllInv, NoBackups, Plain, Runs
<1>7. KeepsScope(BodyIn(code, f), Given(code, f, env), env)
  <2>1. CASE f.kind = "command"
    BY <1>5, <2>1 DEF AllInv, Scoped, BodyIn, Given
  <2>2. CASE f.kind = "main"
    BY <1>5, <2>2 DEF AllInv, Scoped, BodyIn, Given
  <2>3. CASE f.kind = "backup"
    BY <1>5, <1>6, <2>3 DEF AllInv, Scoped, BodyIn, Given
  <2> QED BY <1>5, <2>1, <2>2, <2>3
<1> HIDE DEF f
<1>8. /\ Len(r) \in Nat \ {0} /\ f = r[Len(r)] /\ f \in Frame /\ f.pc \in Nat \ {0}
      /\ f.kind # "command" => f.name \in Thunk
      /\ BodyOf(f) = BodyIn(code, f) /\ BodyIn(code, f) \in Body
      /\ FrameGood(f, env, code, tv) /\ KeepsScope(BodyIn(code, f), Given(code, f, env), env)
  BY <1>1, <1>2, <1>3, <1>4, <1>5, <1>7
<1> QED BY ONLY <1>8, Zenon DEF f

LEMMA TopAt ==
  ASSUME NEW env, AllInv(env), NEW p \in Thread, NEW o, NEW t, At(p, o, t)
  PROVE  /\ thread[p].mode \in {"run", "raise"}
         /\ NextOp(TopFrame(p), o, t)
<1>1. thread[p].mode = "run"
  BY DEF At, Running
<1>2. /\ TopFrame(p).pc \in Nat \ {0}
      /\ BodyOf(TopFrame(p)) = BodyIn(code, TopFrame(p)) /\ BodyIn(code, TopFrame(p)) \in Body
  BY <1>1, TopFacts
<1>3. Len(BodyIn(code, TopFrame(p)).ops) \in Nat
  BY <1>2 DEF Body
<1> QED BY <1>1, <1>2, <1>3 DEF At, AtEnd, NextOp

\* The top frame of p has done one operation more.
LEMMA Advances ==
  ASSUME NEW env, AllInv(env), NEW p \in Thread, NEW o, NEW t, At(p, o, t),
         thread'[p].stack = Advance(thread[p].stack),
         \A q \in Thread \ {p} : thread'[q].stack = thread[q].stack,
         NEW n, n = Len(thread[p].stack)
  PROVE  Changes(thread, thread', p, n) /\ OneMore(TopFrame(p), thread'[p].stack[n])
<1> DEFINE r == thread[p].stack
           s == Advance(r)
<1>1. r \in Seq(Frame) /\ r # <<>> /\ n \in Nat \ {0} /\ n \in 1..n /\ TopFrame(p) = r[n]
  <2>1. TypeInv /\ thread[p].mode \in {"run", "raise"}
    BY TopAt DEF AllInv, IInv
  <2>2. n \in Nat \ {0} /\ TopFrame(p) = r[n]
    BY <2>1, TopFacts
  <2> QED BY <2>1, <2>2, BusyThread
<1>2. Len(s) = n /\ \A i \in 1..n : s[i].kind = r[i].kind /\ s[i].name = r[i].name
  BY <1>1, AdvanceStack
<1>3. \A i \in 1..(n - 1) : s[i] = r[i]
  BY <1>1 DEF Advance
<1>4. s[n].pc = r[n].pc + 1
  <2>1. r[n] \in Frame
    BY <1>1
  <2>2. s[n] = [r[n] EXCEPT !.pc = @ + 1]
    BY <1>1 DEF Advance
  <2>3. CASE r[n] \in [kind : {"command"}, name : Command, pc : Nat \ {0}]
    BY <2>2, <2>3
  <2>4. CASE r[n] \in [kind : {"main", "backup"}, name : Thunk, pc : Nat \ {0}]
    BY <2>2, <2>4
  <2> QED BY <2>1, <2>3, <2>4 DEF Frame
<1>5. n > 1 => AtForce(code, r[n - 1], s[n])
  <2> SUFFICES ASSUME n > 1 PROVE AtForce(code, r[n - 1], s[n])
    OBVIOUS
  <2>1. n - 1 \in 1..(n - 1) /\ (n - 1) + 1 = n
    BY <1>1
  <2>2. AtForce(code, r[n - 1], r[n])
    BY <2>1 DEF AllInv, InScope, Waiting
  <2> QED BY <1>1, <1>2, <2>2 DEF AtForce
<1>6. OneMore(TopFrame(p), s[n])
  BY <1>1, <1>2, <1>4 DEF OneMore
<1>7. \A i \in 1..(n - 1) : i \in 1..n
  BY <1>1
<1> HIDE DEF s
<1> QED BY <1>2, <1>3, <1>5, <1>6, <1>7 DEF Changes, s

\* What the next operation of a thread gets hold of is ready.
LEMMA ReachAt ==
  ASSUME NEW env, AllInv(env), NEW p \in Thread, thread[p].mode \in {"run", "raise"}
  PROVE  /\ InReach(BodyIn(code, TopFrame(p)), TopFrame(p).pc, Given(code, TopFrame(p), env), env)
              \subseteq Ready(env, tv)
         /\ Knowing(code, TopFrame(p), env) \subseteq Ready(env, tv)
<1>1. FrameGood(TopFrame(p), env, code, tv) /\ env \in Environments
  BY TopFacts DEF AllInv
<1> QED BY <1>1, ReachReady DEF FrameGood

LEMMA ForcedReady ==
  ASSUME NEW env, AllInv(env), NEW p \in Thread, NEW t \in Thunk, At(p, "force", t)
  PROVE  /\ t \in Ready(env, tv) /\ tv[t].tag \notin Fresh
         /\ env.scope[t] \subseteq Ready(env, tv)
         /\ tv[t].tag = "forced" => env.gives[t] \subseteq Ready(env, tv)
<1> DEFINE f == TopFrame(p)
           body == BodyIn(code, f)
           known == Given(code, f, env)
<1>1. f.pc \in 1..Len(body.ops) /\ body.ops[f.pc] = [op |-> "force", on |-> t]
  BY TopAt DEF NextOp
<1>2. KeepsScope(body, known, env)
  BY TopAt, TopFacts
<1>3. InReach(body, f.pc, known, env) \subseteq Ready(env, tv)
  BY TopAt, ReachAt
<1> HIDE DEF f, body, known
<1>4. t \in InReach(body, f.pc, known, env)
  BY <1>1, <1>2 DEF KeepsScope
<1>5. t \in Ready(env, tv)
  BY <1>3, <1>4
<1> QED BY <1>5, ReadySound DEF AllInv, Sound

\* Steps that leave every stack as it is.
LEMMA ScopeQuiet ==
  ASSUME NEW env, AllInv(env), TypeInv', NEW p \in Thread,
         \A q \in Thread : thread'[q].stack = thread[q].stack,
         CalmCells(env, tv, tv'), Prepared(thread', env, tv)
  PROVE  InScope(env, code, thread', tv')
<1> DEFINE n == Len(thread[p].stack)
<1>1. /\ env \in Environments /\ InScope(env, code, thread, tv)
      /\ thread \in [Thread -> ThreadState] /\ thread' \in [Thread -> ThreadState]
  BY DEF AllInv, IInv, TypeInv, VarTypes
<1>2. n \in Nat
  BY <1>1, Stacks DEF StacksTyped, AllInv, IInv
<1>3. Changes(thread, thread', p, n)
  <2>1. \A i \in 1..(n - 1) : i \in 1..n
    BY <1>2
  <2>2. ASSUME n > 1
        PROVE  AtForce(code, thread[p].stack[n - 1], thread[p].stack[n])
    <3>1. n - 1 \in 1..(n - 1) /\ (n - 1) + 1 = n
      BY <1>2, <2>2
    <3> QED BY <1>1, <3>1 DEF InScope, Waiting
  <2> QED BY <2>1, <2>2 DEF Changes
<1>4. n # 0 => n \in 1..n /\ FrameGood(thread'[p].stack[n], env, code, tv)
  BY <1>1, <1>2 DEF InScope, FramesGood
<1> QED BY <1>1, <1>2, <1>3, <1>4, ControlStep

\* Steps that move a thread past a force or a spark.
LEMMA ScopeAdvance ==
  ASSUME NEW env, AllInv(env), TypeInv', NEW p \in Thread, NEW t \in Thunk,
         NEW o \in {"force", "spark"}, At(p, o, t),
         thread'[p].stack = Advance(thread[p].stack),
         \A q \in Thread \ {p} : thread'[q].stack = thread[q].stack,
         o = "force" => env.gives[t] \subseteq Ready(env, tv),
         CalmCells(env, tv, tv'), Prepared(thread', env, tv)
  PROVE  InScope(env, code, thread', tv')
<1> DEFINE n == Len(thread[p].stack)
           f == TopFrame(p)
           g == thread'[p].stack[n]
<1>1. /\ env \in Environments /\ InScope(env, code, thread, tv)
      /\ thread \in [Thread -> ThreadState] /\ thread' \in [Thread -> ThreadState]
  BY DEF AllInv, IInv, TypeInv, VarTypes
<1>2. /\ n \in Nat \ {0} /\ n \in 1..n /\ f = thread[p].stack[n]
      /\ BodyIn(code, f) \in Body /\ FrameGood(f, env, code, tv)
  <2>1. thread[p].mode \in {"run", "raise"}
    BY TopAt
  <2>2. /\ n \in Nat \ {0} /\ f = thread[p].stack[n]
        /\ BodyIn(code, f) \in Body /\ FrameGood(f, env, code, tv)
    BY <2>1, TopFacts, Zenon
  <2> HIDE DEF n
  <2>3. n \in 1..n
    BY <2>2
  <2> QED BY <2>2, <2>3, Zenon
<1>3. Changes(thread, thread', p, n) /\ OneMore(f, g)
  BY Advances
<1>4. NextOp(f, o, t)
  BY TopAt
<1> HIDE DEF g, f
<1>5. /\ Makes(code, g) = Makes(code, f)
      /\ SameHoles(f, g)
      /\ \/ Knowing(code, g, env) = Knowing(code, f, env)
         \/ o = "force" /\ Knowing(code, g, env) = Knowing(code, f, env) \cup env.gives[t]
  BY <1>3, <1>4, AfterForce
<1>6. FrameGood(g, env, code, tv)
  BY <1>2, <1>5 DEF FrameGood, SameHoles
<1>7. /\ n # 0 => FrameGood(thread'[p].stack[n], env, code, tv)
      /\ n \in 1..Len(thread[p].stack)
      /\ Makes(code, thread'[p].stack[n]) = Makes(code, thread[p].stack[n])
  BY <1>2, <1>5, <1>6 DEF g
<1> HIDE DEF n
<1> QED BY <1>1, <1>2, <1>3, <1>7, ControlStep

\* Raising an exception leaves the stacks as they are.
LEMMA ScopeRaise ==
  ASSUME NEW env, AllInv(env), TypeInv', NEW p \in Thread, NEW e,
         SetThread(p, Raise(p, e)), CalmCells(env, tv, tv')
  PROVE  InScope(env, code, thread', tv')
<1>1. TypeInv /\ Prepared(thread, env, tv)
  BY DEF AllInv, IInv, InScope
<1>2. /\ thread'[p] = Raise(p, e)
      /\ \A q \in Thread : q # p => thread'[q] = thread[q]
  BY <1>1, OthersStay
<1>3. Raise(p, e).mode = "raise" /\ Raise(p, e).stack = thread[p].stack
  BY <1>1 DEF Raise, TypeInv, VarTypes, ThreadState
<1>4. \A q \in Thread : thread'[q].stack = thread[q].stack
  BY <1>2, <1>3
<1>5. Prepared(thread', env, tv)
  BY <1>1, <1>2, <1>3 DEF Prepared
<1> QED BY <1>4, <1>5, ScopeQuiet

LEMMA CalmSame ==
  ASSUME NEW env, UNCHANGED tv
  PROVE  CalmCells(env, tv, tv')
BY DEF CalmCells

LEMMA CalmWrite ==
  ASSUME NEW env, TypeInv, NEW t \in Thunk, NEW s, SetThunk(t, s),
         tv[t].tag \notin Fresh, s.tag \notin Fresh,
         s.tag = "forced" => env.gives[t] \subseteq Ready(env, tv)
  PROVE  CalmCells(env, tv, tv')
<1>1. tv'[t] = s /\ \A u \in Thunk : u # t => tv'[u] = tv[u]
  BY DEF TypeInv, VarTypes, SetThunk
<1> QED BY <1>1 DEF CalmCells

LEMMA ScopeForceHere ==
  ASSUME NEW env, AllInv(env), TypeInv', NEW p \in Thread, NEW t \in Thunk,
         ForceEvaluated(p, t) \/ ForceLoop(p, t) \/ ForceVoid(p, t)
  PROVE  InScope(env, code, thread', tv')
<1>1. /\ TypeInv /\ Prepared(thread, env, tv) /\ At(p, "force", t)
  BY DEF AllInv, IInv, InScope, ForceEvaluated, ForceLoop, ForceVoid
<1>2. CASE ForceEvaluated(p, t) /\ tv[t].tag = "forced"
  <2>1. Running(p) /\ SetThread(p, Continue(p)) /\ UNCHANGED tv
    BY <1>2 DEF ForceEvaluated, At
  <2>2. /\ thread'[p] = Continue(p) /\ \A q \in Thread : q # p => thread'[q] = thread[q]
    BY <1>1, <2>1, OthersStay
  <2>3. thread'[p].stack = Advance(thread[p].stack) /\ thread'[p].mode = "run"
    BY <1>1, <2>1, <2>2 DEF Continue, TypeInv, VarTypes, ThreadState, Running
  <2>4. Prepared(thread', env, tv)
    BY <1>1, <2>2, <2>3 DEF Prepared
  <2>5. env.gives[t] \subseteq Ready(env, tv) /\ CalmCells(env, tv, tv')
    BY <1>1, <1>2, <2>1, ForcedReady, CalmSame
  <2> QED BY <1>1, <2>2, <2>3, <2>4, <2>5, ScopeAdvance
<1>3. CASE ForceEvaluated(p, t) /\ tv[t].tag # "forced"
  <2>1. SetThread(p, Raise(p, tv[t].result)) /\ UNCHANGED tv
    BY <1>3 DEF ForceEvaluated
  <2> QED BY <2>1, CalmSame, ScopeRaise
<1>4. CASE ForceLoop(p, t)
  <2>1. /\ tv[t].tag \notin Fresh /\ SetThunk(t, ForcedErr(Result("loop", t)))
        /\ SetThread(p, Raise(p, Result("loop", t)))
    BY <1>4 DEF ForceLoop, Fresh
  <2>2. ForcedErr(Result("loop", t)).tag = "forcedErr"
    BY CellTags
  <2>3. CalmCells(env, tv, tv')
    BY <1>1, <2>1, <2>2, CalmWrite DEF Fresh
  <2> QED BY <2>1, <2>3, ScopeRaise
<1>5. CASE ForceVoid(p, t)
  <2>1. SetThread(p, Raise(p, Result("foreign", t))) /\ UNCHANGED tv
    BY <1>5 DEF ForceVoid
  <2> QED BY <2>1, CalmSame, ScopeRaise
<1> QED BY <1>2, <1>3, <1>4, <1>5

LEMMA ScopeThrow ==
  ASSUME NEW env, AllInv(env), TypeInv', NEW p \in Thread, Throw(p) \/ Interrupt
  PROVE  InScope(env, code, thread', tv')
<1>1. CASE Throw(p)
  <2>1. UNCHANGED tv /\ \E e : SetThread(p, Raise(p, e))
    BY <1>1 DEF Throw
  <2> QED BY <2>1, CalmSame, ScopeRaise
<1>2. CASE Interrupt
  <2>1. Main \in Thread /\ UNCHANGED tv /\ \E e : SetThread(Main, Raise(Main, e))
    BY <1>2, ThreadAssumption DEF ThreadAssumption, Interrupt
  <2> QED BY <2>1, CalmSame, ScopeRaise
<1> QED BY <1>1, <1>2

\* A body that begins on ready thunks is in good order.
LEMMA NewFrameGood ==
  ASSUME NEW env, NEW k, NEW x, NEW v,
         Given(code, NewFrame(k, x), env) \subseteq Ready(env, v)
  PROVE  FrameGood(NewFrame(k, x), env, code, v)
BY FrameBegins DEF FrameGood

LEMMA ScopeStarts ==
  ASSUME NEW env, AllInv(env), TypeInv', NEW p \in Thread, NEW k, NEW x,
         thread'[p].stack = <<NewFrame(k, x)>>, thread'[p].mode = "run",
         \A q \in Thread : q # p => thread'[q] = thread[q],
         Given(code, NewFrame(k, x), env) \subseteq Ready(env, tv),
         CalmCells(env, tv, tv')
  PROVE  InScope(env, code, thread', tv')
<1> DEFINE g == NewFrame(k, x)
<1>1. /\ env \in Environments /\ InScope(env, code, thread, tv)
      /\ thread \in [Thread -> ThreadState] /\ thread' \in [Thread -> ThreadState]
  BY DEF AllInv, IInv, TypeInv, VarTypes
<1>2. FrameGood(g, env, code, tv) /\ Makes(code, g) = {}
  BY NewFrameGood, FrameBegins
<1> HIDE DEF g
<1>3. thread'[p].stack[1] = g /\ Len(thread'[p].stack) = 1
  BY DEF g
<1>4. Changes(thread, thread', p, 1)
  BY <1>3 DEF Changes
<1>5. Prepared(thread', env, tv)
  BY <1>1 DEF InScope, Prepared
<1> QED BY <1>1, <1>2, <1>3, <1>4, <1>5, ControlStep

LEMMA ScopeCommand ==
  ASSUME NEW env, AllInv(env), TypeInv', NEW c \in Command, RunCommand(c)
  PROVE  InScope(env, code, thread', tv')
<1> DEFINE s == [thread[Main] EXCEPT !.mode = "run", !.stack = <<NewFrame("command", c)>>]
<1>1. TypeInv /\ Main \in Thread /\ SetThread(Main, s) /\ UNCHANGED tv
  BY ThreadAssumption DEF ThreadAssumption, RunCommand, AllInv, IInv
<1>2. s.mode = "run" /\ s.stack = <<NewFrame("command", c)>>
  BY <1>1 DEF TypeInv, VarTypes, ThreadState
<1>3. thread'[Main] = s /\ \A q \in Thread : q # Main => thread'[q] = thread[q]
  BY <1>1, OthersStay
<1>4. Given(code, NewFrame("command", c), env) \subseteq Ready(env, tv)
  BY DEF Given, NewFrame, AllInv, InScope
<1>5. CalmCells(env, tv, tv')
  BY <1>1, CalmSame
<1> QED BY <1>1, <1>2, <1>3, <1>4, <1>5, ScopeStarts

LEMMA ScopeSparkThunk ==
  ASSUME NEW env, AllInv(env), TypeInv', NEW p \in Thread, SparkThunk(p)
  PROVE  InScope(env, code, thread', tv')
<1> DEFINE t == thread[p].target
<1>1. TypeInv /\ Prepared(thread, env, tv) /\ thread[p].mode = "claim" /\ t \in Thunk
  BY DEF AllInv, IInv, InScope, SparkThunk, SparkThunkIn, TypeInv, StackInv, WellFormed
<1>2. CASE tv[t].tag = "unforced"
  <2> DEFINE s == [thread[p] EXCEPT !.mode = "run", !.stack = <<NewFrame("main", t)>>]
  <2>1. SetThread(p, s) /\ SetThunk(t, UnderEvaluation(p, tv[t].backup))
    BY <1>2 DEF SparkThunk, SparkThunkIn
  <2>2. s.mode = "run" /\ s.stack = <<NewFrame("main", t)>>
    BY <1>1 DEF TypeInv, VarTypes, ThreadState
  <2>3. thread'[p] = s /\ \A q \in Thread : q # p => thread'[q] = thread[q]
    BY <1>1, <2>1, OthersStay
  <2>4. Given(code, NewFrame("main", t), env) \subseteq Ready(env, tv)
    BY <1>1 DEF Given, NewFrame, Prepared
  <2>5. CalmCells(env, tv, tv')
    BY <1>1, <1>2, <2>1, CellTags, CalmWrite DEF Fresh
  <2> QED BY <2>2, <2>3, <2>4, <2>5, ScopeStarts
<1>3. CASE tv[t].tag # "unforced"
  <2> DEFINE d == [thread[p] EXCEPT !.mode = "done"]
  <2>1. SetThread(p, d) /\ UNCHANGED tv
    BY <1>3 DEF SparkThunk, SparkThunkIn
  <2>2. d.stack = thread[p].stack /\ d.mode = "done"
    BY <1>1 DEF TypeInv, VarTypes, ThreadState
  <2>3. thread'[p] = d /\ \A q \in Thread : q # p => thread'[q] = thread[q]
    BY <1>1, <2>1, OthersStay
  <2>4. Prepared(thread', env, tv) /\ \A q \in Thread : thread'[q].stack = thread[q].stack
    BY <1>1, <2>2, <2>3 DEF Prepared
  <2> QED BY <2>1, <2>4, CalmSame, ScopeQuiet
<1> QED BY <1>2, <1>3

LEMMA ScopePush ==
  ASSUME NEW env, AllInv(env), TypeInv', NEW p \in Thread, NEW t \in Thunk,
         ForceClaim(p, t) \/ ForceBackup(p, t)
  PROVE  InScope(env, code, thread', tv')
<1> DEFINE r == thread[p].stack
           m == Len(r)
<1>1. /\ env \in Environments /\ InScope(env, code, thread, tv) /\ TypeInv
      /\ thread \in [Thread -> ThreadState] /\ thread' \in [Thread -> ThreadState]
  BY DEF AllInv, IInv, TypeInv, VarTypes
<1>2. At(p, "force", t) /\ Running(p) /\ thread[p].mode \in {"run", "raise"}
  BY DEF ForceClaim, ForceBackup, At, Running
<1>3. PICK k \in {"main", "backup"} :
        SetThread(p, [thread[p] EXCEPT !.stack = Push(@, NewFrame(k, t))])
  BY DEF ForceClaim, ForceBackup
<1> DEFINE g == NewFrame(k, t)
           s == [thread[p] EXCEPT !.stack = Push(@, g)]
<1>4. thread'[p] = s /\ \A q \in Thread : q # p => thread'[q] = thread[q]
  BY <1>1, <1>3, OthersStay
<1>5. s.mode = "run" /\ s.stack = Push(r, g)
  BY <1>1, <1>2 DEF Running, ThreadState
<1>6. r \in Seq(Frame) /\ m \in Nat \ {0} /\ TopFrame(p) = r[m]
  BY <1>1, <1>2, BusyThread, TopFacts
<1>7. /\ FrameGood(g, env, code, tv) /\ Makes(code, g) = {} /\ g \in Frame
      /\ g.name = t /\ g.kind # "command"
  <2>1. Given(code, g, env) \subseteq Ready(env, tv) /\ g.name = t /\ g.kind # "command"
    BY <1>2, ForcedReady DEF Given, NewFrame
  <2> QED BY <2>1, NewFrameGood, FrameBegins, NewFrameType
<1>8. CalmCells(env, tv, tv')
  <2>1. \E b : SetThunk(t, UnderEvaluation(p, b))
    BY DEF ForceClaim, ForceBackup
  <2> QED BY <1>1, <1>2, <2>1, ForcedReady, CellTags, CalmWrite DEF Fresh
<1>9. Prepared(thread', env, tv)
  BY <1>1, <1>4, <1>5 DEF InScope, Prepared
<1>10. AtForce(code, r[m], g)
  BY <1>2, <1>6, <1>7, TopAt DEF NextOp, AtForce
<1> HIDE DEF g, m
<1>11. /\ Len(thread'[p].stack) = m + 1 /\ thread'[p].stack[m + 1] = g
       /\ \A i \in 1..m : thread'[p].stack[i] = r[i]
  <2>1. thread'[p].stack = Push(r, g)
    BY <1>4, <1>5
  <2>2. r \in Seq(Frame) /\ g \in Frame
    BY <1>6, <1>7
  <2> DEFINE r2 == thread'[p].stack
  <2> HIDE DEF r, r2
  <2>3. r2 = Append(r, g)
    BY <2>1 DEF Push, r2
  <2> QED BY <2>2, <2>3 DEF m, r2
<1>12. Changes(thread, thread', p, m + 1)
  <2>1. (m + 1) - 1 = m /\ m + 1 > 1
    BY <1>6
  <2> QED BY <1>4, <1>6, <1>10, <1>11, <2>1 DEF Changes, m
<1>13. m + 1 \in Nat
  BY <1>6
<1> QED BY <1>1, <1>7, <1>8, <1>9, <1>11, <1>12, <1>13, ControlStep

\* A spark of a thunk that exists.
LEMMA ScopeSpark ==
  ASSUME NEW env, AllInv(env), TypeInv', NEW p \in Thread, NEW t \in Thunk, Spark(p, t)
  PROVE  InScope(env, code, thread', tv')
<1>1. /\ TypeInv /\ Prepared(thread, env, tv) /\ env \in Environments
      /\ At(p, "spark", t) /\ Running(p) /\ UNCHANGED tv
  BY DEF AllInv, IInv, InScope, Spark, At
<1>2. CalmCells(env, tv, tv')
  BY <1>1, CalmSame
<1>3. Continue(p).stack = Advance(thread[p].stack) /\ Continue(p).mode = "run"
  BY <1>1 DEF Continue, TypeInv, VarTypes, ThreadState, Running
<1>4. CASE Evaluated(t)
  <2>1. thread'[p] = Continue(p) /\ \A q \in Thread : q # p => thread'[q] = thread[q]
    BY <1>1, <1>4, OthersStay DEF Spark
  <2>2. Prepared(thread', env, tv)
    BY <1>1, <1>3, <2>1 DEF Prepared
  <2> QED BY <1>1, <1>2, <1>3, <2>1, <2>2, ScopeAdvance
<1>5. CASE ~Evaluated(t)
  <2>1. PICK q \in Thread : Fork(p, q, t)
    BY <1>5 DEF Spark
  <2>2. /\ p # q /\ thread'[p] = Continue(p) /\ thread'[q].stack = thread[q].stack
        /\ \A r \in Thread \ {p, q} : thread'[r] = thread[r]
    BY <1>1, <2>1, ForkSame
  <2>3. thread'[q].target = t
    BY <1>1, <2>1 DEF Fork, TypeInv, VarTypes, ThreadState
  <2>4. env.scope[t] \subseteq Ready(env, tv)
    <3> DEFINE f == TopFrame(p)
               body == BodyIn(code, f)
               known == Given(code, f, env)
    <3>1. f.pc \in 1..Len(body.ops) /\ body.ops[f.pc] = [op |-> "spark", on |-> t]
      BY <1>1, TopAt DEF NextOp
    <3>2. KeepsScope(body, known, env)
      BY <1>1, TopAt, TopFacts
    <3>3. InReach(body, f.pc, known, env) \subseteq Ready(env, tv)
      BY <1>1, TopAt, ReachAt
    <3> HIDE DEF f, body, known
    <3>4. t \in InReach(body, f.pc, known, env)
          \/ env.scope[t] \subseteq InReach(body, f.pc, known, env)
      BY <3>1, <3>2 DEF KeepsScope
    <3>5. t \in Ready(env, tv) => env.scope[t] \subseteq Ready(env, tv)
      BY <1>1, ReadySound DEF Sound
    <3> QED BY <3>3, <3>4, <3>5
  <2>5. Prepared(thread', env, tv)
    BY <1>1, <1>3, <2>2, <2>3, <2>4 DEF Prepared
  <2>6. \A r \in Thread \ {p} : thread'[r].stack = thread[r].stack
    BY <2>2
  <2> QED BY <1>1, <1>2, <1>3, <2>2, <2>5, <2>6, ScopeAdvance
<1> QED BY <1>4, <1>5

\* The operations that make a thunk.
LEMMA ScopeMakes ==
  ASSUME NEW env, AllInv(env), TypeInv', NEW p \in Thread, NEW t \in Thunk,
         NEW o \in {"delay", "sparkNew", "hole"}, At(p, o, t), tv[t].tag = "none",
         tv'[t].tag = IF o = "hole" THEN "void" ELSE "unforced",
         \A u \in Thunk \ {t} : tv'[u] = tv[u],
         thread'[p].stack = Advance(thread[p].stack),
         \A q \in Thread \ {p} : thread'[q].stack = thread[q].stack,
         Ready(env, tv) \subseteq Ready(env, tv') => Prepared(thread', env, tv')
  PROVE  InScope(env, code, thread', tv')
<1> DEFINE n == Len(thread[p].stack)
           f == TopFrame(p)
           g == thread'[p].stack[n]
<1>1. /\ env \in Environments /\ InScope(env, code, thread, tv)
      /\ thread \in [Thread -> ThreadState] /\ thread' \in [Thread -> ThreadState]
      /\ thread[p].mode \in {"run", "raise"}
  BY TopAt DEF AllInv, IInv, TypeInv, VarTypes
<1>2. /\ n \in Nat \ {0} /\ f = thread[p].stack[n] /\ f.pc \in Nat
      /\ BodyIn(code, f) \in Body /\ FrameGood(f, env, code, tv)
      /\ KeepsScope(BodyIn(code, f), Given(code, f, env), env)
  BY <1>1, TopFacts
<1>3. Changes(thread, thread', p, n) /\ OneMore(f, g)
  BY Advances
<1>4. NextOp(f, o, t)
  BY TopAt
<1>5. /\ InReach(BodyIn(code, f), f.pc, Given(code, f, env), env) \subseteq Ready(env, tv)
      /\ Knowing(code, f, env) \subseteq Ready(env, tv)
  BY <1>1, ReachAt
<1> HIDE DEF g, f
<1>6. Makes(code, g) = Makes(code, f) \cup {t} /\ Knowing(code, g, env) = Knowing(code, f, env)
  BY <1>3, <1>4, AfterMake
<1>7. \A o2, t2 : Did(BodyIn(code, g), g.pc, o2, t2) <=>
                    Did(BodyIn(code, f), f.pc, o2, t2) \/ (o2 = o /\ t2 = t)
  BY <1>3, <1>4, AfterOp
<1>8. ASSUME NEW h, FrameGood(h, env, code, tv)
      PROVE  t \notin Makes(code, h)
  BY <1>8 DEF FrameGood
<1>9. t \notin Makes(code, f)
  BY <1>2, <1>8
<1>10. \A u : u # t => (OpenHole(BodyIn(code, g), g.pc, u) <=> OpenHole(BodyIn(code, f), f.pc, u))
  BY <1>7 DEF OpenHole
<1>11. OpenHole(BodyIn(code, g), g.pc, t) <=> o = "hole"
  <2>1. ~Did(BodyIn(code, f), f.pc, "hole", t)
    BY <1>9 DEF Makes, MadeBy
  <2>2. ~Did(BodyIn(code, f), f.pc, "fill", t) /\ ~Did(BodyIn(code, f), f.pc, "fillReady", t)
    BY <1>2, <1>9, FilledIsMade DEF Makes
  <2> QED BY <1>7, <2>1, <2>2 DEF OpenHole
<1>12. o = "hole" \/ env.scope[t] \subseteq Ready(env, tv) \cup Makes(code, f)
  <2> DEFINE body == BodyIn(code, f)
             known == Given(code, f, env)
  <2>1. f.pc \in 1..Len(body.ops) /\ body.ops[f.pc] = [op |-> o, on |-> t]
    BY <1>4 DEF NextOp
  <2>2. KeepsScope(body, known, env)
    BY <1>2
  <2>3. /\ InReach(body, f.pc, known, env) \subseteq Ready(env, tv)
        /\ Knows(body, f.pc, known, env) \subseteq Ready(env, tv)
        /\ MadeBy(body, f.pc) = Makes(code, f)
    BY <1>5 DEF Makes, Knowing
  <2> HIDE DEF body, known
  <2>4. o = "delay" => env.scope[t] \subseteq Knows(body, f.pc, known, env) \cup MadeBy(body, f.pc)
    BY <2>1, <2>2 DEF KeepsScope
  <2>5. o = "sparkNew" => env.scope[t] \subseteq InReach(body, f.pc, known, env)
    BY <2>1, <2>2 DEF KeepsScope
  <2> QED BY <2>3, <2>4, <2>5
<1>13. ASSUME Ready(env, tv) \subseteq Ready(env, tv')
       PROVE  FrameGood(g, env, code, tv')
  <2>1. Knowing(code, g, env) \subseteq Ready(env, tv')
    BY <1>5, <1>6, <1>13
  <2>2. ASSUME NEW u \in Makes(code, g)
        PROVE  /\ tv'[u].tag # "none"
               /\ tv'[u].tag = "void" <=> OpenHole(BodyIn(code, g), g.pc, u)
               /\ env.scope[u] \subseteq Ready(env, tv') \cup Makes(code, g) \/ tv'[u].tag = "void"
               /\ tv'[u].tag = "forced" => env.gives[u] \subseteq Ready(env, tv') \cup Makes(code, g)
    <3>1. CASE u = t
      BY <1>6, <1>11, <1>12, <1>13, <3>1
    <3>2. CASE u # t
      <4>1. u \in Makes(code, f) /\ u \in Thunk
        BY <1>6, <2>2, <3>2 DEF Makes, MadeBy
      <4>2. tv'[u] = tv[u]
        BY <3>2, <4>1
      <4> QED BY <1>2, <1>6, <1>10, <1>13, <3>2, <4>1, <4>2 DEF FrameGood
    <3> QED BY <3>1, <3>2
  <2> QED BY <2>1, <2>2 DEF FrameGood
<1>14. \A h \in Beside(thread, p, n) : t \notin Makes(code, h)
  BY <1>1, <1>8 DEF Beside, InScope, FramesGood
<1>15. Makes(code, thread'[p].stack[n]) \subseteq Makes(code, thread[p].stack[n]) \cup {t}
  BY <1>2, <1>6 DEF g
<1>16. Ready(env, tv) \subseteq Ready(env, tv') => FrameGood(thread'[p].stack[n], env, code, tv')
  BY <1>13 DEF g
<1>17. Makeup(tv, tv', t)
  BY DEF Makeup, Fresh
<1>18. n = Len(thread[p].stack)
  OBVIOUS
<1> HIDE DEF n
<1> QED BY <1>1, <1>2, <1>3, <1>14, <1>15, <1>16, <1>17, <1>18, MakeStep

LEMMA ScopeNew ==
  ASSUME NEW env, AllInv(env), TypeInv', NEW p \in Thread, NEW t \in Thunk,
         Delay(p, t) \/ Blackhole(p, t) \/ SparkNew(p, t)
  PROVE  InScope(env, code, thread', tv')
<1>1. /\ TypeInv /\ InScope(env, code, thread, tv) /\ env \in Environments /\ Running(p)
      /\ thread' \in [Thread -> ThreadState]
  BY DEF AllInv, IInv, TypeInv, VarTypes, Delay, Blackhole, SparkNew, At
<1>2. Continue(p).stack = Advance(thread[p].stack) /\ Continue(p).mode = "run"
  BY <1>1 DEF Continue, TypeInv, VarTypes, ThreadState, Running
<1>3. ASSUME NEW s, SetThunk(t, s)
      PROVE  tv'[t] = s /\ \A u \in Thunk \ {t} : tv'[u] = tv[u]
  BY <1>1, <1>3 DEF TypeInv, VarTypes, SetThunk
<1>4. ASSUME SetThread(p, Continue(p))
      PROVE  /\ thread'[p].stack = Advance(thread[p].stack)
             /\ \A q \in Thread \ {p} : thread'[q].stack = thread[q].stack
             /\ Ready(env, tv) \subseteq Ready(env, tv') => Prepared(thread', env, tv')
  <2>1. thread'[p] = Continue(p) /\ \A q \in Thread : q # p => thread'[q] = thread[q]
    BY <1>1, <1>4, OthersStay
  <2> QED BY <1>1, <1>2, <2>1 DEF InScope, Prepared
<1>5. CASE Delay(p, t)
  <2>1. /\ At(p, "delay", t) /\ tv[t] = None /\ SetThread(p, Continue(p))
        /\ SetThunk(t, Unforced(t \in code.hasBackup))
    BY <1>5 DEF Delay
  <2>2. tv[t].tag = "none" /\ tv'[t].tag = "unforced"
    BY <1>3, <2>1, CellTags
  <2>3. \A u \in Thunk \ {t} : tv'[u] = tv[u]
    BY <1>3, <2>1
  <2> QED BY <1>4, <2>1, <2>2, <2>3, ScopeMakes
<1>6. CASE Blackhole(p, t)
  <2>1. /\ At(p, "hole", t) /\ tv[t] = None /\ SetThread(p, Continue(p))
        /\ SetThunk(t, Void)
    BY <1>6 DEF Blackhole
  <2>2. tv[t].tag = "none" /\ tv'[t].tag = "void"
    BY <1>3, <2>1, CellTags
  <2>3. \A u \in Thunk \ {t} : tv'[u] = tv[u]
    BY <1>3, <2>1
  <2> QED BY <1>4, <2>1, <2>2, <2>3, ScopeMakes
<1>7. CASE SparkNew(p, t)
  <2>1. At(p, "sparkNew", t) /\ tv[t] = None /\ SetThunk(t, Unforced(FALSE))
    BY <1>7 DEF SparkNew
  <2>2. PICK q \in Thread : Fork(p, q, t)
    BY <1>7 DEF SparkNew
  <2>3. tv[t].tag = "none" /\ tv'[t].tag = "unforced"
    <3>1. Unforced(FALSE).tag = "unforced" /\ None.tag = "none"
      BY DEF Unforced, None
    <3> QED BY <1>3, <2>1, <3>1
  <2>4. \A u \in Thunk \ {t} : tv'[u] = tv[u]
    BY <1>3, <2>1
  <2>5. /\ p # q /\ thread'[p] = Continue(p) /\ thread'[q].stack = thread[q].stack
        /\ \A r \in Thread \ {p, q} : thread'[r] = thread[r]
    BY <1>1, <2>2, ForkSame
  <2>6. thread'[q].target = t
    BY <1>1, <2>2 DEF Fork, TypeInv, VarTypes, ThreadState
  <2>7. env.scope[t] \subseteq Ready(env, tv)
    <3> DEFINE f == TopFrame(p)
               body == BodyIn(code, f)
               known == Given(code, f, env)
    <3>1. f.pc \in 1..Len(body.ops) /\ body.ops[f.pc] = [op |-> "sparkNew", on |-> t]
      BY <2>1, TopAt DEF NextOp
    <3>2. KeepsScope(body, known, env)
      BY <2>1, TopAt, TopFacts
    <3>3. InReach(body, f.pc, known, env) \subseteq Ready(env, tv)
      BY <2>1, TopAt, ReachAt
    <3> HIDE DEF f, body, known
    <3>4. env.scope[t] \subseteq InReach(body, f.pc, known, env)
      BY <3>1, <3>2 DEF KeepsScope
    <3> QED BY <3>3, <3>4
  <2>8. Ready(env, tv) \subseteq Ready(env, tv') => Prepared(thread', env, tv')
    BY <1>1, <1>2, <2>5, <2>6, <2>7 DEF InScope, Prepared
  <2>9. /\ thread'[p].stack = Advance(thread[p].stack)
        /\ \A r \in Thread \ {p} : thread'[r].stack = thread[r].stack
    BY <1>2, <2>5
  <2>10. At(p, "sparkNew", t)
    BY <2>1
  <2> QED BY <2>3, <2>4, <2>8, <2>9, <2>10, ScopeMakes
<1> QED BY <1>5, <1>6, <1>7

\* A thread that is about to fill a thunk has made it, as a hole, and has not
\* filled it yet.
LEMMA FillFacts ==
  ASSUME NEW env, AllInv(env), NEW p \in Thread, NEW t \in Thunk,
         NEW o \in {"fill", "fillReady"}, At(p, o, t)
  PROVE  /\ tv[t].tag = "void" /\ t \in Makes(code, TopFrame(p))
         /\ env.scope[t] \subseteq Ready(env, tv) \cup Makes(code, TopFrame(p))
         /\ o = "fillReady" =>
              env.gives[t] \subseteq Ready(env, tv) \cup Makes(code, TopFrame(p))
<1> DEFINE f == TopFrame(p)
           body == BodyIn(code, f)
           known == Given(code, f, env)
<1>1. f.pc \in 1..Len(body.ops) /\ body.ops[f.pc] = [op |-> o, on |-> t]
  BY TopAt DEF NextOp
<1>2. KeepsScope(body, known, env) /\ FrameGood(f, env, code, tv)
  BY TopAt, TopFacts
<1>3. /\ Knows(body, f.pc, known, env) \subseteq Ready(env, tv)
      /\ MadeBy(body, f.pc) = Makes(code, f)
  BY TopAt, ReachAt DEF Knowing, Makes
<1> HIDE DEF f, known
<1>4. tv[t].tag = "void" /\ t \in Makes(code, f)
  <2>1. OpenHole(body, f.pc, t)
    <3> HIDE DEF body
    <3> QED BY <1>1, <1>2 DEF KeepsScope
  <2>2. t \in Makes(code, f)
    BY <2>1 DEF OpenHole, Makes, MadeBy
  <2> QED BY <1>2, <2>1, <2>2 DEF FrameGood
<1> HIDE DEF body
<1>5. /\ env.scope[t] \subseteq Knows(body, f.pc, known, env) \cup MadeBy(body, f.pc)
      /\ o = "fillReady" =>
           env.gives[t] \subseteq Knows(body, f.pc, known, env) \cup MadeBy(body, f.pc)
  BY <1>1, <1>2 DEF KeepsScope
<1> QED BY <1>3, <1>4, <1>5 DEF f

LEMMA ScopeFill ==
  ASSUME NEW env, AllInv(env), TypeInv', NEW p \in Thread, NEW t \in Thunk, Fill(p, t)
  PROVE  InScope(env, code, thread', tv')
<1> DEFINE n == Len(thread[p].stack)
           f == TopFrame(p)
           g == thread'[p].stack[n]
<1>1. PICK o \in {"fill", "fillReady"} :
        /\ At(p, o, t)
        /\ o = "fill" => SetThunk(t, Unforced(FALSE))
        /\ o = "fillReady" => SetThunk(t, Forced(Result("main", t)))
  BY DEF Fill
<1>2. /\ env \in Environments /\ InScope(env, code, thread, tv)
      /\ thread \in [Thread -> ThreadState] /\ thread' \in [Thread -> ThreadState]
      /\ TypeInv /\ Running(p) /\ thread[p].mode \in {"run", "raise"}
  BY <1>1 DEF AllInv, IInv, TypeInv, VarTypes, At, Running
<1>3. /\ thread'[p].stack = Advance(thread[p].stack) /\ thread'[p].mode = "run"
      /\ \A q \in Thread \ {p} : thread'[q] = thread[q]
  <2>1. thread'[p] = Continue(p) /\ \A q \in Thread : q # p => thread'[q] = thread[q]
    BY <1>2, OthersStay DEF Fill
  <2>2. Continue(p).stack = Advance(thread[p].stack) /\ Continue(p).mode = "run"
    BY <1>2 DEF Continue, ThreadState, Running
  <2> QED BY <2>1, <2>2
<1>4. /\ n \in Nat \ {0} /\ f = thread[p].stack[n] /\ FrameGood(f, env, code, tv)
  BY <1>2, TopFacts
<1>5. Changes(thread, thread', p, n) /\ OneMore(f, g)
  <2>1. \A q \in Thread \ {p} : thread'[q].stack = thread[q].stack
    BY <1>3
  <2> QED BY <1>1, <1>3, <2>1, Advances
<1>6. NextOp(f, o, t)
  BY <1>1, TopAt
<1>7. /\ tv[t].tag = "void" /\ t \in Makes(code, f)
      /\ env.scope[t] \subseteq Ready(env, tv) \cup Makes(code, f)
      /\ o = "fillReady" => env.gives[t] \subseteq Ready(env, tv) \cup Makes(code, f)
  BY <1>1, FillFacts
<1>8. Knowing(code, f, env) \subseteq Ready(env, tv)
  BY <1>4 DEF FrameGood
<1> HIDE DEF f, g
<1>9. Makes(code, g) = Makes(code, f) /\ Knowing(code, g, env) = Knowing(code, f, env)
  BY <1>5, <1>6, AfterFill
<1>10. OneHoleLess(f, g, t)
  BY <1>5, <1>6, AfterFill
<1>11. /\ tv'[t].tag = IF o = "fill" THEN "unforced" ELSE "forced"
       /\ \A u \in Thunk \ {t} : tv'[u] = tv[u]
  <2>1. Unforced(FALSE).tag = "unforced" /\ Forced(Result("main", t)).tag = "forced"
    BY DEF Unforced, None, Forced
  <2> QED BY <1>1, <1>2, <2>1 DEF TypeInv, VarTypes, SetThunk
<1>12. ASSUME Ready(env, tv) \subseteq Ready(env, tv')
       PROVE  FrameGood(g, env, code, tv')
  <2>1. Knowing(code, g, env) \subseteq Ready(env, tv')
    BY <1>8, <1>9, <1>12
  <2>2. ASSUME NEW u \in Makes(code, g)
        PROVE  /\ tv'[u].tag # "none"
               /\ tv'[u].tag = "void" <=> OpenHole(BodyIn(code, g), g.pc, u)
               /\ env.scope[u] \subseteq Ready(env, tv') \cup Makes(code, g) \/ tv'[u].tag = "void"
               /\ tv'[u].tag = "forced" => env.gives[u] \subseteq Ready(env, tv') \cup Makes(code, g)
    <3>1. CASE u = t
      BY <1>7, <1>9, <1>10, <1>11, <1>12, <3>1 DEF OneHoleLess
    <3>2. CASE u # t
      <4>1. u \in Makes(code, f) /\ u \in Thunk
        BY <1>9, <2>2 DEF Makes, MadeBy
      <4>2. tv'[u] = tv[u]
        BY <1>11, <3>2, <4>1
      <4> QED BY <1>4, <1>9, <1>10, <1>12, <3>2, <4>1, <4>2 DEF FrameGood, OneHoleLess
    <3> QED BY <3>1, <3>2
  <2> QED BY <2>1, <2>2 DEF FrameGood
<1>13. \A h \in Beside(thread, p, n) : t \notin Makes(code, h)
  <2> SUFFICES ASSUME NEW h \in Beside(thread, p, n) PROVE t \notin Makes(code, h)
    OBVIOUS
  <2>1. PICK q \in Thread : \E i \in 1..Len(thread[q].stack) :
                              (q # p \/ i # n) /\ h = thread[q].stack[i]
    BY DEF Beside
  <2>2. n \in 1..Len(thread[p].stack)
    BY <1>4
  <2>3. Makes(code, f) \cap Makes(code, h) = {}
    BY <1>2, <1>4, <2>1, <2>2 DEF InScope, MadeApart
  <2> QED BY <1>7, <2>3
<1>14. Makes(code, thread'[p].stack[n]) \subseteq Makes(code, thread[p].stack[n]) \cup {t}
  BY <1>4, <1>9 DEF g
<1>15. Ready(env, tv) \subseteq Ready(env, tv') => FrameGood(thread'[p].stack[n], env, code, tv')
  BY <1>12 DEF g
<1>16. Makeup(tv, tv', t)
  BY <1>7, <1>11 DEF Makeup, Fresh
<1>17. Ready(env, tv) \subseteq Ready(env, tv') => Prepared(thread', env, tv')
  BY <1>2, <1>3 DEF InScope, Prepared
<1>18. n = Len(thread[p].stack)
  OBVIOUS
<1> HIDE DEF n
<1> QED BY <1>2, <1>4, <1>5, <1>13, <1>14, <1>15, <1>16, <1>17, <1>18, MakeStep

\* After its last operation a body has the same in its reach wherever it is.
LEMMA EndReach ==
  ASSUME NEW body \in Body, NEW k \in Nat, k > Len(body.ops), NEW known, NEW env
  PROVE  InReach(body, k, known, env) = InReach(body, Len(body.ops) + 1, known, env)
<1>1. Len(body.ops) \in Nat
  BY DEF Body
<1>2. \A i \in 1..Len(body.ops) : i < k /\ i < Len(body.ops) + 1
  BY <1>1
<1> DEFINE n == Len(body.ops) + 1
<1>3. \A i \in 1..Len(body.ops) : i < k /\ i < n
  BY <1>2
<1> HIDE DEF n
<1>4. \A o, t : Did(body, k, o, t) <=> Did(body, n, o, t)
  BY <1>3, Zenon DEF Did
<1>5. InReach(body, k, known, env) = InReach(body, n, known, env)
  BY <1>4 DEF InReach, Knows, MadeBy, OpenHole
<1> QED BY <1>5 DEF n

\* The value of a thunk holds what is ready.
LEMMA ValueReady ==
  ASSUME NEW env, AllInv(env), NEW p \in Thread, Return(p), TopFrame(p).kind # "command"
  PROVE  /\ TopFrame(p).name \in Thunk /\ tv[TopFrame(p).name].tag \notin Fresh
         /\ env.gives[TopFrame(p).name] \subseteq Ready(env, tv)
<1> DEFINE f == TopFrame(p)
           t == f.name
           m == Len(thread[p].stack)
           body == BodyIn(code, f)
<1>1. thread[p].mode \in {"run", "raise"}
  BY DEF Return, Running
<1>2. /\ m \in Nat \ {0} /\ f = thread[p].stack[m] /\ f \in Frame /\ f.pc \in Nat \ {0}
      /\ t \in Thunk /\ BodyOf(f) = body /\ body \in Body
  BY <1>1, TopFacts
<1>3. f.kind \in {"main", "backup"}
  BY <1>2 DEF Frame
<1>4. Runs(p, m, f.kind, t)
  BY <1>2 DEF Runs
<1>5. tv[t].tag \notin Fresh
  BY <1>2, <1>3, <1>4 DEF AllInv, IInv, SharingInv, Kinds, Unclaimed, Fresh, Runs
<1>6. f.kind = "backup" => t \in code.hasBackup
  BY <1>2, <1>4 DEF AllInv, NoBackups, Plain
<1>7. body.end = "value" /\ f.pc > Len(body.ops)
  BY <1>2 DEF Return, AtEnd
<1>8. env.gives[t] \subseteq InReach(body, Len(body.ops) + 1, env.scope[t], env)
  <2>1. body = code.main[t] \/ (body = code.backup[t] /\ t \in code.hasBackup)
    BY <1>3, <1>6 DEF BodyIn
  <2>2. Scoped(code, env)
    BY DEF AllInv
  <2> HIDE DEF body, t
  <2>3. t \in Thunk
    BY <1>2
  <2> QED BY <1>7, <2>1, <2>2, <2>3 DEF Scoped
<1>9. InReach(body, f.pc, env.scope[t], env) \subseteq Ready(env, tv)
  BY <1>1, <1>3, ReachAt DEF Given
<1>10. InReach(body, f.pc, env.scope[t], env) = InReach(body, Len(body.ops) + 1, env.scope[t], env)
  <2> HIDE DEF body, f
  <2>1. body \in Body /\ f.pc \in Nat /\ f.pc > Len(body.ops)
    BY <1>2, <1>7
  <2> QED BY <2>1, EndReach, Zenon
<1> QED BY <1>2, <1>5, <1>8, <1>9, <1>10

\* The stack of p without its top frame; the frame that is then on top stays at
\* its force or is past it.
LEMMA ScopePop ==
  ASSUME NEW env, AllInv(env), TypeInv', NEW p \in Thread, thread[p].mode \in {"run", "raise"},
         NEW rest, rest = Pop(thread[p].stack),
         \/ thread'[p].stack = rest
         \/ /\ rest # <<>> /\ thread'[p].stack = Advance(rest)
            /\ env.gives[TopFrame(p).name] \subseteq Ready(env, tv),
         thread'[p].mode # "claim",
         \A q \in Thread : q # p => thread'[q] = thread[q],
         CalmCells(env, tv, tv')
  PROVE  InScope(env, code, thread', tv')
<1> DEFINE r == thread[p].stack
           m == Len(r)
           n == Len(rest)
           s == thread'[p].stack
<1>1. /\ env \in Environments /\ InScope(env, code, thread, tv) /\ TypeInv
      /\ thread \in [Thread -> ThreadState] /\ thread' \in [Thread -> ThreadState]
  BY DEF AllInv, IInv, TypeInv, VarTypes
<1>2. r \in Seq(Frame) /\ r # <<>> /\ m \in Nat \ {0} /\ TopFrame(p) = r[m]
  BY <1>1, BusyThread, TopFacts
<1>3. rest \in Seq(Frame) /\ n = m - 1 /\ \A i \in 1..(m - 1) : rest[i] = r[i]
  BY <1>2, PopStack
<1>4. Prepared(thread', env, tv)
  BY <1>1 DEF InScope, Prepared
<1> HIDE DEF m, n, r
<1>5. n \in Nat /\ m = n + 1 /\ m = Len(r) /\ \A i \in 1..n : rest[i] = r[i] /\ i \in 1..m
  BY <1>2, <1>3 DEF m, n
<1>6. n # 0 => FrameGood(r[n], env, code, tv) /\ n \in 1..m
  BY <1>1, <1>5 DEF InScope, FramesGood, r
<1>7. ASSUME n > 1
      PROVE  AtForce(code, r[n - 1], r[n])
  <2>1. n - 1 \in 1..(m - 1) /\ (n - 1) + 1 = n
    BY <1>5, <1>7
  <2> QED BY <1>1, <1>5, <2>1 DEF InScope, Waiting, r
<1>8. CASE s = rest
  <2>1. Len(s) = n /\ \A i \in 1..n : s[i] = r[i] /\ i \in 1..m
    BY <1>5, <1>8 DEF n
  <2>2. n > 1 => AtForce(code, r[n - 1], s[n])
    BY <1>5, <1>7, <2>1
  <2>3. Changes(thread, thread', p, n)
    BY <1>5, <2>1, <2>2 DEF Changes, r, n
  <2>4. n # 0 => /\ FrameGood(s[n], env, code, tv) /\ n \in 1..Len(r)
                 /\ Makes(code, s[n]) = Makes(code, r[n])
    BY <1>5, <1>6, <2>1
  <2> HIDE DEF s
  <2> QED BY <1>1, <1>4, <1>5, <2>3, <2>4, ControlStep DEF r, s
<1>9. CASE s # rest
  <2> DEFINE f == r[n]
             g == s[n]
             t == TopFrame(p).name
  <2>1. rest # <<>> /\ s = Advance(rest) /\ env.gives[t] \subseteq Ready(env, tv)
    BY <1>9
  <2>2. n \in Nat \ {0} /\ n \in 1..n
    BY <1>3, <1>5, <2>1 DEF n
  <2>3. /\ Len(s) = n
        /\ \A i \in 1..n : s[i].kind = r[i].kind /\ s[i].name = r[i].name
        /\ \A i \in 1..(n - 1) : s[i] = r[i]
        /\ s[n].pc = r[n].pc + 1
    <3>1. /\ Len(Advance(rest)) = n
          /\ \A i \in 1..n : /\ Advance(rest)[i].kind = rest[i].kind
                             /\ Advance(rest)[i].name = rest[i].name
      BY <1>3, <2>1, AdvanceStack DEF n
    <3>2. \A i \in 1..(n - 1) : Advance(rest)[i] = rest[i]
      BY <1>3, <2>2 DEF Advance, n
    <3>3. Advance(rest)[n].pc = rest[n].pc + 1
      <4>1. Advance(rest)[n] = [rest[n] EXCEPT !.pc = @ + 1] /\ rest[n] \in Frame
        BY <1>3, <2>2 DEF Advance, n
      <4>2. CASE rest[n] \in [kind : {"command"}, name : Command, pc : Nat \ {0}]
        BY <4>1, <4>2
      <4>3. CASE rest[n] \in [kind : {"main", "backup"}, name : Thunk, pc : Nat \ {0}]
        BY <4>1, <4>3
      <4> QED BY <4>1, <4>2, <4>3 DEF Frame
    <3>4. \A i \in 1..(n - 1) : i \in 1..n
      BY <2>2
    <3> QED BY <1>5, <2>1, <2>2, <3>1, <3>2, <3>3, <3>4
  <2>4. OneMore(f, g)
    BY <2>2, <2>3 DEF OneMore
  <2>5. AtForce(code, f, TopFrame(p)) /\ t \in Thunk
    <3>1. n \in 1..(m - 1) /\ n + 1 = m
      BY <1>5, <2>2
    <3>2. AtForce(code, r[n], r[n + 1])
      BY <1>1, <1>5, <3>1 DEF InScope, Waiting, r
    <3>3. AtForce(code, f, TopFrame(p))
      BY <1>2, <3>1, <3>2
    <3> QED BY <3>3, TopFacts DEF AtForce
  <2>6. NextOp(f, "force", t)
    <3>1. f \in Frame
      BY <1>2, <1>6, <2>2 DEF m
    <3>2. BodyIn(code, f) \in Body
      <4> HIDE DEF f
      <4>1. BodyOf(f) = BodyIn(code, f)
        BY DEF BodyOf, BodyIn
      <4> QED BY <1>1, <3>1, <4>1, BodyType
    <3> HIDE DEF f
    <3> QED BY <2>5, <3>2 DEF NextOp, AtForce
  <2>7. FrameGood(f, env, code, tv)
    BY <1>6, <2>2
  <2> HIDE DEF f, g, t
  <2>8. /\ Makes(code, g) = Makes(code, f)
        /\ SameHoles(f, g)
        /\ \/ Knowing(code, g, env) = Knowing(code, f, env)
           \/ Knowing(code, g, env) = Knowing(code, f, env) \cup env.gives[t]
    BY <2>4, <2>5, <2>6, AfterForce
  <2>9. FrameGood(g, env, code, tv)
    BY <2>1, <2>7, <2>8 DEF FrameGood, SameHoles
  <2>10. n > 1 => AtForce(code, r[n - 1], g)
    <3>1. g.kind = r[n].kind /\ g.name = r[n].name
      BY <2>2, <2>3 DEF g
    <3> QED BY <1>7, <3>1 DEF AtForce
  <2>11. Changes(thread, thread', p, n)
    <3>1. \A i \in 1..(n - 1) : i \in 1..Len(r)
      BY <1>5
    <3> QED BY <2>3, <2>10, <3>1 DEF Changes, r, g
  <2>12. /\ n # 0 => FrameGood(s[n], env, code, tv)
         /\ n \in 1..Len(r) /\ Makes(code, s[n]) = Makes(code, r[n])
    BY <1>5, <2>2, <2>8, <2>9 DEF f, g
  <2> HIDE DEF s
  <2> QED BY <1>1, <1>4, <1>5, <2>11, <2>12, ControlStep DEF r, s
<1> QED BY <1>8, <1>9

LEMMA ScopeReturn ==
  ASSUME NEW env, AllInv(env), TypeInv', NEW p \in Thread, Return(p)
  PROVE  InScope(env, code, thread', tv')
<1> DEFINE rest == Pop(thread[p].stack)
           f == TopFrame(p)
<1>1. /\ TypeInv /\ Running(p) /\ SetThread(p, Resume(p)) /\ thread[p] \in ThreadState
      /\ thread[p].mode \in {"run", "raise"}
  BY DEF Return, AllInv, IInv, TypeInv, VarTypes, Running
<1>2. thread'[p] = Resume(p) /\ \A q \in Thread : q # p => thread'[q] = thread[q]
  BY <1>1, OthersStay
<1>3. CalmCells(env, tv, tv')
  <2>1. CASE f.kind = "command"
    BY <2>1, CalmSame DEF Return
  <2>2. CASE f.kind # "command"
    <3>1. SetThunk(f.name, Forced(Result(f.kind, f.name)))
      BY <2>2 DEF Return
    <3>2. /\ f.name \in Thunk /\ tv[f.name].tag \notin Fresh
          /\ env.gives[f.name] \subseteq Ready(env, tv)
      BY <2>2, ValueReady
    <3>3. Forced(Result(f.kind, f.name)).tag \notin Fresh
      BY DEF Forced, None, Fresh
    <3> HIDE DEF f
    <3> QED BY <1>1, <3>1, <3>2, <3>3, CalmWrite
  <2> QED BY <2>1, <2>2
<1>4. CASE rest = <<>>
  <2>1. Resume(p).stack = <<>> /\ Resume(p).mode # "claim"
    BY <1>1, <1>4 DEF Resume, ThreadState
  <2> QED BY <1>1, <1>2, <1>3, <1>4, <2>1, ScopePop
<1>5. CASE rest # <<>>
  <2>1. Resume(p).stack = Advance(rest) /\ Resume(p).mode # "claim"
    BY <1>1, <1>5 DEF Resume, ThreadState, Running
  <2>2. f.kind # "command"
    <3> DEFINE m == Len(thread[p].stack)
    <3>1. thread[p].stack \in Seq(Frame) /\ m \in Nat \ {0} /\ f = thread[p].stack[m]
      BY <1>1, BusyThread, TopFacts
    <3>2. Len(rest) = m - 1 /\ rest \in Seq(Frame)
      BY <1>1, BusyThread, PopStack
    <3> HIDE DEF m
    <3>3. m - 1 \in 1..(m - 1) /\ (m - 1) + 1 = m
      BY <1>5, <3>1, <3>2
    <3>4. AtForce(code, thread[p].stack[m - 1], thread[p].stack[m])
      BY <3>3 DEF AllInv, InScope, Waiting, m
    <3> QED BY <3>1, <3>4 DEF AtForce
  <2>3. env.gives[f.name] \subseteq Ready(env, tv)
    BY <2>2, ValueReady
  <2> QED BY <1>1, <1>2, <1>3, <1>5, <2>1, <2>3, ScopePop
<1> QED BY <1>4, <1>5

LEMMA ScopeUnwind ==
  ASSUME NEW env, AllInv(env), TypeInv', NEW p \in Thread, Unwind(p)
  PROVE  InScope(env, code, thread', tv')
<1> DEFINE rest == Pop(thread[p].stack)
           f == TopFrame(p)
           e == thread[p].exc
           s == IF rest # <<>>
                THEN [thread[p] EXCEPT !.stack = rest]
                ELSE [thread[p] EXCEPT
                        !.stack = <<>>, !.exc = NoResult,
                        !.mode = IF p = Main THEN "idle" ELSE "done"]
<1>1. /\ TypeInv /\ thread[p].mode = "raise" /\ SetThread(p, s) /\ thread[p] \in ThreadState
  BY DEF Unwind, UnwindWith, AllInv, IInv, TypeInv, VarTypes
<1>2. thread'[p] = s /\ \A q \in Thread : q # p => thread'[q] = thread[q]
  BY <1>1, OthersStay
<1>3. s.stack = rest /\ s.mode # "claim"
  BY <1>1 DEF ThreadState
<1>4. CalmCells(env, tv, tv')
  <2>1. CASE Stores(p)
    <3> DEFINE m == Len(thread[p].stack)
    <3>1. SetThunk(f.name, ForcedErr(e)) /\ f.kind # "command"
      BY <2>1 DEF Unwind, UnwindWith, Stores
    <3>2. m \in Nat \ {0} /\ f = thread[p].stack[m] /\ f \in Frame /\ f.name \in Thunk
      BY <1>1, <3>1, TopFacts
    <3>3. f.kind \in {"main", "backup"} /\ Runs(p, m, f.kind, f.name)
      BY <3>1, <3>2 DEF Frame, Runs
    <3>4. tv[f.name].tag \notin Fresh
      BY <3>2, <3>3 DEF AllInv, IInv, SharingInv, Kinds, Unclaimed, Fresh, Runs
    <3>5. ForcedErr(e).tag = "forcedErr"
      BY DEF ForcedErr, None
    <3> HIDE DEF f, e
    <3>6. ForcedErr(e).tag \notin Fresh /\ ForcedErr(e).tag # "forced"
      BY <3>5 DEF Fresh
    <3> QED BY <1>1, <3>1, <3>2, <3>4, <3>6, CalmWrite
  <2>2. CASE ~Stores(p)
    BY <2>2, CalmSame DEF Unwind, UnwindWith
  <2> QED BY <2>1, <2>2
<1> HIDE DEF s
<1> QED BY <1>1, <1>2, <1>3, <1>4, ScopePop

LEMMA ScopeNext ==
  ASSUME NEW env, AllInv(env), TypeInv', Next
  PROVE  InScope(env, code, thread', tv')
<1>1. ASSUME NEW p \in Thread, NEW t \in Thunk,
             \/ Delay(p, t) \/ Blackhole(p, t) \/ Fill(p, t)
             \/ Spark(p, t) \/ SparkNew(p, t)
             \/ ForceEvaluated(p, t) \/ ForceClaim(p, t) \/ ForceBackup(p, t)
             \/ ForceLoop(p, t) \/ ForceVoid(p, t)
      PROVE  InScope(env, code, thread', tv')
  BY <1>1, ScopeNew, ScopeFill, ScopeSpark, ScopeForceHere, ScopePush
<1>2. ASSUME NEW p \in Thread, SparkThunk(p) \/ Return(p) \/ Throw(p) \/ Unwind(p)
      PROVE  InScope(env, code, thread', tv')
  BY <1>2, ScopeSparkThunk, ScopeReturn, ScopeThrow, ScopeUnwind
<1>3. ASSUME NEW c \in Command, RunCommand(c)
      PROVE  InScope(env, code, thread', tv')
  BY <1>3, ScopeCommand
<1>4. CASE Interrupt
  <2>1. Main \in Thread
    BY ThreadAssumption DEF ThreadAssumption
  <2> QED BY <1>4, <2>1, ScopeThrow
<1>5. CASE Quiescent
  BY <1>5 DEF Quiescent, vars, AllInv
<1> QED BY <1>1, <1>2, <1>3, <1>4, <1>5 DEF Next, Step

LEMMA ScopeStep == IInv /\ NoBackups /\ ScopeInv /\ TypeInv' /\ [Next]_vars => ScopeInv'
<1> SUFFICES ASSUME IInv, NoBackups, ScopeInv, TypeInv', [Next]_vars
             PROVE  ScopeInv'
  OBVIOUS
<1>1. PICK env \in Environments : Scoped(code, env) /\ InScope(env, code, thread, tv)
  BY DEF ScopeInv
<1>2. AllInv(env)
  BY <1>1 DEF AllInv
<1>3. CASE Next
  <2>1. InScope(env, code, thread', tv') /\ code' = code
    BY <1>2, <1>3, ScopeNext, SameCode
  <2> QED BY <1>1, <2>1 DEF ScopeInv
<1>4. CASE UNCHANGED vars
  BY <1>1, <1>4 DEF ScopeInv, vars
<1> QED BY <1>3, <1>4

LEMMA ScopeInit == Init /\ LexicallyScoped(code) => ScopeInv
<1> SUFFICES ASSUME Init, LexicallyScoped(code)
             PROVE  ScopeInv
  OBVIOUS
<1>1. PICK env \in Environments : Scoped(code, env)
  <2>1. PICK scope \in [Thunk -> SUBSET Thunk], gives \in [Thunk -> SUBSET Thunk] :
          Scoped(code, [scope |-> scope, gives |-> gives])
    BY DEF LexicallyScoped
  <2>2. [scope |-> scope, gives |-> gives] \in Environments
    BY DEF Environments
  <2> QED BY <2>1, <2>2
<1>2. \A p \in Thread : thread[p].stack = <<>> /\ thread[p].mode # "claim"
  BY DEF Init
<1>3. \A p \in Thread : 1..Len(thread[p].stack) = {}
  BY <1>2
<1>4. \A p \in Thread : 1..(Len(thread[p].stack) - 1) = {}
  BY <1>2
<1>5. code.existing \subseteq Ready(env, tv)
  <2>1. code.existing \in SUBSET Thunk
    BY CodeAssumption DEF CodeAssumption, CodeTable, Init
  <2>2. ASSUME NEW t \in code.existing
        PROVE  tv[t].tag = "unforced" /\ env.scope[t] \subseteq code.existing
    <3>1. tv[t] = Unforced(t \in code.hasBackup)
      BY <2>1 DEF Init
    <3>2. tv[t].tag = "unforced"
      BY <3>1 DEF Unforced, None
    <3> QED BY <1>1, <3>2 DEF Scoped
  <2>3. Sound(code.existing, env, tv)
    BY <2>2 DEF Sound, Fresh
  <2> QED BY <2>1, <2>3, ReadySound
<1>6. FramesGood(thread, env, code, tv) /\ MadeApart(thread, code)
  BY <1>3 DEF FramesGood, MadeApart
<1>7. Waiting(thread, code) /\ Prepared(thread, env, tv)
  BY <1>2, <1>4 DEF Waiting, Prepared
<1> QED BY <1>1, <1>5, <1>6, <1>7 DEF ScopeInv, InScope

\* The proviso of the theorems above, discharged: in every table whose
\* computations get hold of thunks as those of the evaluator do, from their
\* environment, from values and from a recursive group that is complete, a hole
\* is filled once and nobody forces it before, whichever threads run them,
\* whoever is interrupted and whatever exceptions they throw.
THEOREM HolesAreFilled == Spec /\ LexicallyScoped(code) => []HolesFilledInTime
<1>1. IInv /\ NoBackups /\ ScopeInv => HolesFilledInTime
  <2> SUFFICES ASSUME IInv, NoBackups, ScopeInv
               PROVE  HolesFilledInTime
    OBVIOUS
  <2>1. PICK env \in Environments : Scoped(code, env) /\ InScope(env, code, thread, tv)
    BY DEF ScopeInv
  <2>2. AllInv(env)
    BY <2>1 DEF AllInv
  <2>3. FillsHole
    BY <2>2, FillFacts DEF FillsHole
  <2>4. \A p \in Thread, t \in Thunk : At(p, "force", t) => tv[t].tag # "void"
    BY <2>2, ForcedReady DEF Fresh
  <2> QED BY <2>3, <2>4 DEF HolesFilledInTime
<1>2. Init /\ LexicallyScoped(code) => IInv /\ FinalInv /\ ScopeInv
  BY TypeInit, SharingInit, FinalInit, ScopeInit DEF IInv
<1>3. IInv /\ FinalInv /\ ScopeInv /\ [Next]_vars => (IInv /\ FinalInv /\ ScopeInv)'
  <2> SUFFICES ASSUME IInv, FinalInv, ScopeInv, [Next]_vars
               PROVE  (IInv /\ FinalInv /\ ScopeInv)'
    OBVIOUS
  <2>1. FillsHole /\ NoBackups
    BY <1>1 DEF HolesFilledInTime, FinalInv
  <2>2. IInv' /\ FinalInv'
    BY <2>1, TypeStep, SharingStep, FinalStep DEF IInv
  <2>3. ScopeInv'
    BY <2>1, <2>2, ScopeStep DEF IInv
  <2> QED BY <2>2, <2>3
<1>4. IInv /\ FinalInv /\ ScopeInv => HolesFilledInTime
  BY <1>1 DEF FinalInv
<1> QED BY <1>2, <1>3, <1>4, PTL DEF Spec

\* What these proofs show together, without a proviso on how the execution goes:
\* evaluation of lexically scoped computations is shared, goes one way, keeps its
\* outcomes, runs a backup inside its main computation and reports only real
\* loops; while nothing is cut short, what is claimed is being worked on, and
\* only a loop makes threads wait in a circle.
COROLLARY ScopedEvaluation ==
  Spec /\ LexicallyScoped(code) =>
    /\ [](OneEvaluator /\ BackupInsideMain /\ LoopIsReal /\ WaitCycleIsLoop)
    /\ LifecycleOrder /\ ResultFinal
    /\ [](NothingCutShort => OwnerWorks)
<1>1. HolesFilledInTime => FillsHole
  BY DEF HolesFilledInTime
<1> QED BY <1>1, HolesAreFilled, Sharing, Lifecycle, Outcomes, LoopsAreReal, BackupsInside,
           ClaimantsWork, CirclesAreLoops, PTL

=============================================================================
