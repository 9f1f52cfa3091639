-------------------------- MODULE MemoSeqMapProofs --------------------------
(***************************************************************************)
(* Proofs about MemoSeqMap, for every length and every number of threads:  *)
(* the evaluator is given up only when the table is full, and the closure  *)
(* that replaces it is never run when the sequence is infinite or when the *)
(* threads take turns.  (Two threads that share a finite one do run it.)   *)
(***************************************************************************)
EXTENDS MemoSeqMap, FiniteSetTheorems, TLAPS

\* A table that holds as many elements as the sequence holds all of them.
LEMMA FullTable ==
  ASSUME NEW S \in SUBSET Index, Cardinality(S) >= Size
  PROVE  S = Index
<1>1. Size \in Nat
  BY SizeAssumption DEF SizeAssumption
<1>2. IsFiniteSet(Index) /\ Cardinality(Index) = Size
  <2>1. /\ IsFiniteSet(0 .. (Size - 1))
        /\ Cardinality(0 .. (Size - 1)) = IF 0 > Size - 1 THEN 0 ELSE (Size - 1) - 0 + 1
    BY <1>1, FS_Interval
  <2> QED BY <1>1, <2>1 DEF Index
<1>3. IsFiniteSet(S) /\ Cardinality(S) <= Size
  BY <1>2, FS_Subset
<1>4. Cardinality(S) \in Nat
  BY <1>3, FS_CardinalityType
<1>5. Cardinality(S) = Cardinality(Index)
  BY <1>1, <1>2, <1>3, <1>4
<1> QED BY <1>2, <1>5, FS_Subset

-----------------------------------------------------------------------------
(***************************************************************************)
(* Stacks of lookups.                                                      *)
(***************************************************************************)

LEMMA LookupType == \A i \in Index : Lookup(i) \in Frame
  BY NeedsAssumption DEF NeedsAssumption, Lookup, Frame, Places

\* A thread that is somewhere has a top frame.
LEMMA TopType ==
  ASSUME TypeOK, NEW p \in Thread, stack[p] # <<>>
  PROVE  /\ stack[p] \in Seq(Frame)
         /\ Len(stack[p]) \in 1..Len(stack[p])
         /\ Top(p) \in Frame
<1>1. stack[p] \in Seq(Frame)
  BY DEF TypeOK
<1>2. Len(stack[p]) \in 1..Len(stack[p])
  BY <1>1
<1> QED BY <1>1, <1>2 DEF Top

\* Changing the top frame.
LEMMA ChangeTop ==
  ASSUME TypeOK, NEW p \in Thread, stack[p] # <<>>, NEW f \in Frame,
         stack' = [stack EXCEPT ![p] = WithTop(p, f)]
  PROVE  /\ stack' \in [Thread -> Seq(Frame)]
         /\ Len(stack'[p]) = Len(stack[p])
         /\ stack'[p][Len(stack[p])] = f
         /\ \A i \in 1..Len(stack[p]) : i # Len(stack[p]) => stack'[p][i] = stack[p][i]
         /\ \A q \in Thread : q # p => stack'[q] = stack[q]
<1> DEFINE s == stack[p]
<1>1. /\ stack \in [Thread -> Seq(Frame)]
      /\ s \in Seq(Frame) /\ Len(s) \in 1..Len(s)
  BY TopType DEF TypeOK
<1>2. stack' = [stack EXCEPT ![p] = [s EXCEPT ![Len(s)] = f]]
  BY DEF WithTop
<1>3. /\ [s EXCEPT ![Len(s)] = f] \in Seq(Frame)
      /\ Len([s EXCEPT ![Len(s)] = f]) = Len(s)
  BY <1>1
<1> QED BY <1>1, <1>2, <1>3

\* Leaving the innermost lookup.
LEMMA DropTop ==
  ASSUME TypeOK, NEW p \in Thread, stack[p] # <<>>,
         stack' = [stack EXCEPT ![p] = Below(p)]
  PROVE  /\ stack' \in [Thread -> Seq(Frame)]
         /\ Len(stack'[p]) = Len(stack[p]) - 1
         /\ \A i \in 1..(Len(stack[p]) - 1) : stack'[p][i] = stack[p][i]
         /\ \A q \in Thread : q # p => stack'[q] = stack[q]
<1> DEFINE s == stack[p]
<1>1. /\ stack \in [Thread -> Seq(Frame)]
      /\ s \in Seq(Frame) /\ Len(s) \in 1..Len(s)
  BY TopType DEF TypeOK
<1>2. Below(p) = [i \in 1..(Len(s) - 1) |-> s[i]]
  BY <1>1 DEF Below
<1>3. Below(p) \in Seq(Frame)
  <2>1. \A i \in 1..(Len(s) - 1) : s[i] \in Frame
    BY <1>1
  <2> QED BY <1>1, <1>2, <2>1
<1>4. Len(Below(p)) = Len(s) - 1
  BY <1>1, <1>2, <1>3
<1> QED BY <1>1, <1>2, <1>3, <1>4

LEMMA DropAll ==
  ASSUME TypeOK, NEW p \in Thread, stack' = [stack EXCEPT ![p] = <<>>]
  PROVE  /\ stack' \in [Thread -> Seq(Frame)]
         /\ stack'[p] = <<>>
         /\ \A q \in Thread : q # p => stack'[q] = stack[q]
BY DEF TypeOK

\* Going into a lookup of an element that is needed.
LEMMA GoDeeper ==
  ASSUME TypeOK, NEW p \in Thread, stack[p] # <<>>,
         NEW f \in Frame, NEW g \in Frame,
         stack' = [stack EXCEPT ![p] = Append(WithTop(p, f), g)]
  PROVE  /\ stack' \in [Thread -> Seq(Frame)]
         /\ Len(stack'[p]) = Len(stack[p]) + 1
         /\ stack'[p][Len(stack[p]) + 1] = g
         /\ stack'[p][Len(stack[p])] = f
         /\ \A i \in 1..Len(stack[p]) : i # Len(stack[p]) => stack'[p][i] = stack[p][i]
         /\ \A q \in Thread : q # p => stack'[q] = stack[q]
<1> DEFINE s == stack[p]
           r == [s EXCEPT ![Len(s)] = f]
<1>1. /\ stack \in [Thread -> Seq(Frame)]
      /\ s \in Seq(Frame) /\ Len(s) \in 1..Len(s)
  BY TopType DEF TypeOK
<1>2. r \in Seq(Frame) /\ Len(r) = Len(s) /\ r[Len(s)] = f
      /\ \A i \in 1..Len(s) : i # Len(s) => r[i] = s[i]
  BY <1>1
<1>3. stack' = [stack EXCEPT ![p] = Append(r, g)]
  BY DEF WithTop
<1>4. /\ Append(r, g) \in Seq(Frame)
      /\ Len(Append(r, g)) = Len(s) + 1
      /\ Append(r, g)[Len(s) + 1] = g
      /\ \A i \in 1..Len(s) : Append(r, g)[i] = r[i]
  BY <1>2
<1>5. /\ stack'[p] = Append(r, g)
      /\ \A q \in Thread : q # p => stack'[q] = stack[q]
      /\ stack' \in [Thread -> Seq(Frame)]
  BY <1>1, <1>3, <1>4
<1>6. Len(s) \in 1..Len(s)
  BY <1>1
<1> QED BY <1>2, <1>4, <1>5, <1>6

-----------------------------------------------------------------------------
(***************************************************************************)
(* The invariant.  A lookup that is about to overwrite the evaluator saw a *)
(* full table, which stays full; one that holds the closure that panics    *)
(* read it after it was overwritten.                                       *)
(***************************************************************************)

Good(f, c, e, s) ==
  /\ f.at = "overwrite" => ~s.infinite /\ c = Index
  /\ f.closure = "panic" => e = "panic"

FramesInv ==
  \A p \in Thread : \A i \in 1..Len(stack[p]) : Good(stack[p][i], cache, eval, sequence)

IInv == TypeOK /\ FramesInv /\ ReapedWhenFull

\* Steps keep frames good: the table only grows and the evaluator only goes.
LEMMA StaysGood ==
  ASSUME cache \subseteq cache', cache' \in SUBSET Index,
         eval' = eval \/ eval' = "panic", sequence' = sequence,
         NEW f, Good(f, cache, eval, sequence)
  PROVE  Good(f, cache', eval', sequence')
BY DEF Good

\* The stack of one thread changes, in one of the ways a step changes it.
LEMMA FramesStep ==
  ASSUME TypeOK, FramesInv, NEW p \in Thread,
         cache \subseteq cache', cache' \in SUBSET Index,
         eval' = eval \/ eval' = "panic", sequence' = sequence,
         \A q \in Thread : q # p => stack'[q] = stack[q],
         stack'[p] \in Seq(Frame),
         \A i \in 1..Len(stack'[p]) :
           \/ i \in 1..Len(stack[p]) /\ stack'[p][i] = stack[p][i]
           \/ Good(stack'[p][i], cache', eval', sequence')
  PROVE  FramesInv'
<1>1. ASSUME NEW q \in Thread, NEW i \in 1..Len(stack[q])
      PROVE  Good(stack[q][i], cache', eval', sequence')
  BY StaysGood DEF FramesInv
<1>2. ASSUME NEW q \in Thread, NEW i \in 1..Len(stack'[q])
      PROVE  Good(stack'[q][i], cache', eval', sequence')
  BY <1>1
<1> QED BY <1>2 DEF FramesInv

\* Finish: the frames that are left were there before.
LEMMA FinishStep ==
  ASSUME TypeOK, NEW p \in Thread, stack[p] # <<>>, Finish(p)
  PROVE  /\ stack' \in [Thread -> Seq(Frame)]
         /\ \A q \in Thread : q # p => stack'[q] = stack[q]
         /\ \A i \in 1..Len(stack'[p]) :
              i \in 1..Len(stack[p]) /\ stack'[p][i] = stack[p][i]
         /\ request' \in [Thread -> [index : Index \cup {0}, busy : BOOLEAN]]
         /\ reply' \in [Thread -> {"none", "value", "error", "panic"}]
<1>1. stack' = [stack EXCEPT ![p] = Below(p)]
  BY DEF Finish
<1>2. Len(stack[p]) \in Nat /\ Len(stack[p]) >= 1
  BY TopType
<1>3. Pure!Nobody \in [index : Index \cup {0}, busy : BOOLEAN]
  BY DEF Pure!Nobody
<1>4. /\ request' \in [Thread -> [index : Index \cup {0}, busy : BOOLEAN]]
      /\ reply' \in [Thread -> {"none", "value", "error", "panic"}]
  BY <1>3 DEF Finish, TypeOK
<1>5. /\ stack' \in [Thread -> Seq(Frame)]
      /\ Len(stack'[p]) = Len(stack[p]) - 1
      /\ \A i \in 1..(Len(stack[p]) - 1) : stack'[p][i] = stack[p][i]
      /\ \A q \in Thread : q # p => stack'[q] = stack[q]
  BY <1>1, DropTop
<1>6. \A i \in 1..Len(stack'[p]) :
        i \in 1..Len(stack[p]) /\ stack'[p][i] = stack[p][i]
  BY <1>2, <1>5
<1> QED BY <1>4, <1>5, <1>6

LEMMA EscapeStep ==
  ASSUME TypeOK, NEW p \in Thread,
         NEW e \in {"none", "value", "error", "panic"}, Escape(p, e)
  PROVE  /\ stack' \in [Thread -> Seq(Frame)]
         /\ \A q \in Thread : q # p => stack'[q] = stack[q]
         /\ stack'[p] = <<>>
         /\ request' \in [Thread -> [index : Index \cup {0}, busy : BOOLEAN]]
         /\ reply' \in [Thread -> {"none", "value", "error", "panic"}]
<1>1. stack' = [stack EXCEPT ![p] = <<>>]
  BY DEF Escape
<1>2. /\ request' \in [Thread -> [index : Index \cup {0}, busy : BOOLEAN]]
      /\ reply' \in [Thread -> {"none", "value", "error", "panic"}]
  BY DEF Escape, TypeOK, Pure!Nobody
<1> QED BY <1>1, <1>2, DropAll

\* Goto: only the place of the top frame changes.
LEMMA GotoStep ==
  ASSUME TypeOK, NEW p \in Thread, stack[p] # <<>>, NEW w \in Places, Goto(p, w)
  PROVE  /\ stack' \in [Thread -> Seq(Frame)]
         /\ \A q \in Thread : q # p => stack'[q] = stack[q]
         /\ Len(stack'[p]) = Len(stack[p])
         /\ stack'[p][Len(stack[p])] = [Top(p) EXCEPT !.at = w]
         /\ \A i \in 1..Len(stack[p]) : i # Len(stack[p]) => stack'[p][i] = stack[p][i]
<1>1. [Top(p) EXCEPT !.at = w] \in Frame
  BY TopType DEF Frame
<1>2. stack' = [stack EXCEPT ![p] = WithTop(p, [Top(p) EXCEPT !.at = w])]
  BY DEF Goto
<1> QED BY <1>1, <1>2, ChangeTop

LEMMA Init_IInv == Init => IInv
<1> SUFFICES ASSUME Init
             PROVE  IInv
  OBVIOUS
<1>1. /\ stack \in [Thread -> Seq(Frame)]
      /\ \A p \in Thread : 1..Len(stack[p]) = {}
  BY DEF Init
<1>2. TypeOK
  BY <1>1 DEF Init, TypeOK, Pure!Init, Pure!Nobody
<1> QED BY <1>1, <1>2 DEF Init, IInv, FramesInv, ReapedWhenFull

LEMMA Step_IInv == IInv /\ [Next]_vars => IInv'
<1> SUFFICES ASSUME IInv, [Next]_vars
             PROVE  IInv'
  OBVIOUS
<1> USE DEF IInv
<1>0. TypeOK /\ FramesInv /\ ReapedWhenFull
  OBVIOUS
<1>a. ASSUME UNCHANGED <<sequence, cache, eval, alone>>
      PROVE  ReapedWhenFull' /\ cache' \in SUBSET Index /\ eval' \in {"element", "panic"}
             /\ cache \subseteq cache' /\ (eval' = eval \/ eval' = "panic")
  BY <1>a DEF ReapedWhenFull, TypeOK
<1>b. ASSUME UNCHANGED <<request, reply>>
      PROVE  /\ request' \in [Thread -> [index : Index \cup {0}, busy : BOOLEAN]]
             /\ reply' \in [Thread -> {"none", "value", "error", "panic"}]
  BY <1>b DEF TypeOK
\* A step of p after which every frame of p is an old one, or none is left.
<1>c. ASSUME NEW p \in Thread, UNCHANGED <<sequence, cache, eval, alone>>,
             stack' \in [Thread -> Seq(Frame)],
             \A q \in Thread : q # p => stack'[q] = stack[q],
             \A i \in 1..Len(stack'[p]) :
               \/ i \in 1..Len(stack[p]) /\ stack'[p][i] = stack[p][i]
               \/ Good(stack'[p][i], cache', eval', sequence'),
             request' \in [Thread -> [index : Index \cup {0}, busy : BOOLEAN]],
             reply' \in [Thread -> {"none", "value", "error", "panic"}]
      PROVE  IInv'
  <2>1. FramesInv'
    BY <1>a, <1>c, FramesStep
  <2> QED BY <1>a, <1>c, <2>1 DEF TypeOK
<1>1. ASSUME NEW p \in Thread, NEW i \in Index, Ask(p, i)
      PROVE  IInv'
  <2>1. /\ stack' \in [Thread -> Seq(Frame)]
        /\ \A q \in Thread : q # p => stack'[q] = stack[q]
        /\ stack'[p] = <<Lookup(i)>>
    BY <1>1, LookupType DEF Ask, TypeOK
  <2>2. \A k \in 1..Len(stack'[p]) : Good(stack'[p][k], cache', eval', sequence')
    BY <2>1 DEF Good, Lookup
  <2>3. Pure!Request(i) \in [index : Index \cup {0}, busy : BOOLEAN]
    BY DEF Pure!Request
  <2>4. /\ request' \in [Thread -> [index : Index \cup {0}, busy : BOOLEAN]]
        /\ reply' \in [Thread -> {"none", "value", "error", "panic"}]
    BY <1>1, <2>3 DEF Ask, TypeOK
  <2> QED BY <1>1, <1>c, <2>1, <2>2, <2>4 DEF Ask
<1>2. ASSUME NEW p \in Thread, ReadCache(p)
      PROVE  IInv'
  <2>1. stack[p] # <<>>
    BY <1>2 DEF ReadCache, At
  <2>2. CASE Finish(p)
    BY <1>2, <1>c, <2>1, <2>2, FinishStep DEF ReadCache
  <2>3. CASE Goto(p, "eval") /\ UNCHANGED <<request, reply>>
    <3>1. Good(stack'[p][Len(stack[p])], cache', eval', sequence')
      <4>1. /\ stack'[p][Len(stack[p])] = [Top(p) EXCEPT !.at = "eval"]
            /\ Top(p) \in Frame /\ Good(Top(p), cache, eval, sequence)
        BY <2>1, <2>3, GotoStep, TopType DEF Places, FramesInv, Top
      <4>2. /\ stack'[p][Len(stack[p])].at = "eval"
            /\ stack'[p][Len(stack[p])].closure = Top(p).closure
        BY <4>1 DEF Frame
      <4> QED BY <1>2, <4>1, <4>2 DEF Good, ReadCache
    <3> QED BY <1>2, <1>b, <1>c, <2>1, <2>3, <3>1, GotoStep DEF ReadCache, Places
  <2> QED BY <1>2, <2>2, <2>3 DEF ReadCache
<1>3. ASSUME NEW p \in Thread, ReadEval(p)
      PROVE  IInv'
  <2> DEFINE f == [Top(p) EXCEPT !.at = "element", !.closure = eval]
  <2>1. stack[p] # <<>> /\ Top(p) \in Frame /\ eval \in {"element", "panic"}
    BY <1>3, TopType DEF ReadEval, At, TypeOK
  <2>2. f \in Frame /\ f.at = "element" /\ f.closure = eval
    BY <2>1 DEF Frame, Places
  <2>3. stack' = [stack EXCEPT ![p] = WithTop(p, f)]
    BY <1>3 DEF ReadEval
  <2>4. Good(f, cache', eval', sequence')
    BY <1>3, <2>2 DEF Good, ReadEval
  <2>5. /\ stack' \in [Thread -> Seq(Frame)]
        /\ Len(stack'[p]) = Len(stack[p])
        /\ stack'[p][Len(stack[p])] = f
        /\ \A i \in 1..Len(stack[p]) : i # Len(stack[p]) => stack'[p][i] = stack[p][i]
        /\ \A q \in Thread : q # p => stack'[q] = stack[q]
    BY <2>1, <2>2, <2>3, ChangeTop
  <2>6. \A i \in 1..Len(stack'[p]) :
          \/ i \in 1..Len(stack[p]) /\ stack'[p][i] = stack[p][i]
          \/ Good(stack'[p][i], cache', eval', sequence')
    BY <2>4, <2>5
  <2> QED BY <1>3, <1>b, <1>c, <2>5, <2>6 DEF ReadEval
<1>4. ASSUME NEW p \in Thread, Panic(p) \/ Fail(p) \/ Interrupt(p)
      PROVE  IInv'
  <2>1. \E e \in {"none", "value", "error", "panic"} : Escape(p, e)
    BY <1>4 DEF Panic, Fail, Interrupt, TypeOK
  <2> QED BY <1>4, <1>c, <2>1, EscapeStep DEF Panic, Fail, Interrupt
<1>5. ASSUME NEW p \in Thread, NEW j \in Index, Need(p, j)
      PROVE  IInv'
  <2> DEFINE f == [Top(p) EXCEPT !.todo = @ \ {j}]
             g == Lookup(j)
  <2>1. stack[p] # <<>> /\ Top(p) \in Frame /\ Good(Top(p), cache, eval, sequence)
    BY <1>5, TopType DEF Need, At, FramesInv, Top
  <2>2. /\ f \in Frame /\ f.at = Top(p).at /\ f.closure = Top(p).closure
        /\ g \in Frame /\ g.at = "cache" /\ g.closure = "element"
    BY <2>1, LookupType DEF Frame, Lookup
  <2>3. stack' = [stack EXCEPT ![p] = Append(WithTop(p, f), g)]
    BY <1>5 DEF Need
  <2>4. Good(f, cache', eval', sequence') /\ Good(g, cache', eval', sequence')
    BY <1>5, <2>1, <2>2 DEF Good, Need
  <2>5. /\ stack' \in [Thread -> Seq(Frame)]
        /\ Len(stack'[p]) = Len(stack[p]) + 1
        /\ stack'[p][Len(stack[p]) + 1] = g
        /\ stack'[p][Len(stack[p])] = f
        /\ \A i \in 1..Len(stack[p]) : i # Len(stack[p]) => stack'[p][i] = stack[p][i]
        /\ \A q \in Thread : q # p => stack'[q] = stack[q]
    BY <2>1, <2>2, <2>3, GoDeeper
  <2>6. Len(stack[p]) \in Nat
    BY <2>1, TopType
  <2>7. \A i \in 1..Len(stack'[p]) :
          \/ i \in 1..Len(stack[p]) /\ stack'[p][i] = stack[p][i]
          \/ Good(stack'[p][i], cache', eval', sequence')
    BY <2>4, <2>5, <2>6
  <2> QED BY <1>5, <1>b, <1>c, <2>5, <2>7 DEF Need
<1>6. ASSUME NEW p \in Thread, Value(p)
      PROVE  IInv'
  <2>1. stack[p] # <<>> /\ Top(p) \in Frame /\ Good(Top(p), cache, eval, sequence)
    BY <1>6, TopType DEF Value, At, FramesInv, Top
  <2>2. Good([Top(p) EXCEPT !.at = "insert"], cache', eval', sequence')
    BY <1>6, <2>1 DEF Good, Value, Frame
  <2>3. /\ stack' \in [Thread -> Seq(Frame)]
        /\ \A q \in Thread : q # p => stack'[q] = stack[q]
        /\ Len(stack'[p]) = Len(stack[p])
        /\ stack'[p][Len(stack[p])] = [Top(p) EXCEPT !.at = "insert"]
        /\ \A i \in 1..Len(stack[p]) : i # Len(stack[p]) => stack'[p][i] = stack[p][i]
    BY <1>6, <2>1, GotoStep DEF Value, Places
  <2>4. \A i \in 1..Len(stack'[p]) :
          \/ i \in 1..Len(stack[p]) /\ stack'[p][i] = stack[p][i]
          \/ Good(stack'[p][i], cache', eval', sequence')
    BY <2>2, <2>3
  <2> QED BY <1>6, <1>b, <1>c, <2>3, <2>4 DEF Value
<1>7. ASSUME NEW p \in Thread, Insert(p)
      PROVE  IInv'
  <2>1. /\ stack[p] # <<>> /\ Top(p) \in Frame /\ Good(Top(p), cache, eval, sequence)
        /\ cache' = cache \cup {Top(p).index} /\ eval' = eval /\ alone' = alone /\ sequence' = sequence
    BY <1>7, TopType DEF Insert, InsertUpTo, Filled, At, FramesInv, Top
  <2>2. cache' \in SUBSET Index /\ cache \subseteq cache'
    BY <2>1 DEF TypeOK, Frame
  <2>3. ReapedWhenFull' /\ eval' \in {"element", "panic"}
    BY <2>1, <2>2 DEF ReapedWhenFull, TypeOK
  <2>4. CASE Finish(p)
    <3>1. FramesInv'
      BY <2>1, <2>2, <2>4, FinishStep, FramesStep
    <3> QED BY <2>1, <2>2, <2>3, <2>4, <3>1, FinishStep DEF TypeOK
  <2>5. CASE /\ ~sequence.infinite /\ Cardinality(Filled(p)) >= Size
             /\ Goto(p, "overwrite") /\ UNCHANGED <<request, reply>>
    <3>1. cache' = Index
      BY <2>1, <2>2, <2>5, FullTable DEF Filled
    <3>2. Good([Top(p) EXCEPT !.at = "overwrite"], cache', eval', sequence')
      BY <2>1, <2>5, <3>1 DEF Good, Frame
    <3>3. /\ stack' \in [Thread -> Seq(Frame)]
          /\ \A q \in Thread : q # p => stack'[q] = stack[q]
          /\ Len(stack'[p]) = Len(stack[p])
          /\ stack'[p][Len(stack[p])] = [Top(p) EXCEPT !.at = "overwrite"]
          /\ \A i \in 1..Len(stack[p]) : i # Len(stack[p]) => stack'[p][i] = stack[p][i]
      BY <2>1, <2>5, GotoStep DEF Places
    <3>4. \A i \in 1..Len(stack'[p]) :
            \/ i \in 1..Len(stack[p]) /\ stack'[p][i] = stack[p][i]
            \/ Good(stack'[p][i], cache', eval', sequence')
      BY <3>2, <3>3
    <3>5. FramesInv'
      BY <2>1, <2>2, <3>3, <3>4, FramesStep
    <3> QED BY <1>b, <2>1, <2>2, <2>3, <2>5, <3>3, <3>5 DEF TypeOK
  <2> QED BY <1>7, <2>4, <2>5 DEF Insert, InsertUpTo
<1>8. ASSUME NEW p \in Thread, Overwrite(p)
      PROVE  IInv'
  <2>1. stack[p] # <<>> /\ ~sequence.infinite /\ cache = Index
    BY <1>8, TopType DEF Overwrite, At, FramesInv, Good, Top
  <2>2. /\ cache' = cache /\ eval' = "panic" /\ alone' = alone /\ sequence' = sequence /\ Finish(p)
        /\ cache' \in SUBSET Index
    BY <1>8 DEF Overwrite, TypeOK
  <2>3. FramesInv'
    BY <2>1, <2>2, FinishStep, FramesStep
  <2> QED BY <2>1, <2>2, <2>3, FinishStep DEF ReapedWhenFull, TypeOK
<1>9. CASE UNCHANGED vars
  BY <1>9 DEF vars, TypeOK, FramesInv, ReapedWhenFull
<1> QED
  BY <1>1, <1>2, <1>3, <1>4, <1>5, <1>6, <1>7, <1>8, <1>9 DEF Next, Step

\* The evaluator is given up only when every element is in the table, whatever
\* the number of threads and wherever they are interrupted.
THEOREM ReapedOnlyWhenFull == Spec => []ReapedWhenFull
<1>1. IInv => ReapedWhenFull
  BY DEF IInv
<1> QED BY <1>1, Init_IInv, Step_IInv, PTL DEF Spec

-----------------------------------------------------------------------------
(***************************************************************************)
(* Threads that take turns.  Then nobody fills the table between the miss  *)
(* and the reading of the closure: a lookup that is about to read the      *)
(* closure has an index that is not in the table, so the table is not full *)
(* and the closure is still the evaluator.                                 *)
(***************************************************************************)

\* Frame i of stack s.
Turn(s, i, c) ==
  /\ s[i].closure = "element"
  /\ i # Len(s) => s[i].at = "element"
  /\ s[i].at = "eval" => s[i].index \notin c

AloneInv ==
  alone =>
    /\ \A p, q \in Thread : stack[p] # <<>> /\ stack[q] # <<>> => p = q
    /\ \A p \in Thread : \A i \in 1..Len(stack[p]) : Turn(stack[p], i, cache)

LEMMA AloneStep == IInv /\ AloneInv /\ [Next]_vars => AloneInv'
<1> SUFFICES ASSUME IInv, AloneInv, [Next]_vars
             PROVE  AloneInv'
  OBVIOUS
<1>a. alone' = alone
  <2>1. ASSUME NEW p \in Thread, Step(p) \/ Interrupt(p) \/ \E i \in Index : Ask(p, i)
        PROVE  UNCHANGED alone
    <3>1. CASE ReadCache(p) \/ ReadEval(p) \/ Panic(p) \/ \E j \in Index : Need(p, j)
      BY <3>1 DEF ReadCache, ReadEval, Panic, Need
    <3>2. CASE Fail(p) \/ Value(p) \/ Insert(p) \/ Overwrite(p)
      BY <3>2 DEF Fail, Value, Insert, InsertUpTo, Overwrite
    <3>3. CASE Interrupt(p) \/ \E i \in Index : Ask(p, i)
      BY <3>3 DEF Interrupt, Ask
    <3> QED BY <2>1, <3>1, <3>2, <3>3 DEF Step
  <2> QED BY <2>1 DEF Next, vars
<1> SUFFICES ASSUME alone
             PROVE  AloneInv'
  BY <1>a DEF AloneInv
<1>0. TypeOK /\ FramesInv /\ ReapedWhenFull
  BY DEF IInv
<1>t. ASSUME NEW p \in Thread, stack[p] # <<>>
      PROVE  /\ Len(stack[p]) \in 1..Len(stack[p]) /\ Top(p) \in Frame
             /\ Top(p) = stack[p][Len(stack[p])]
             /\ Top(p).closure = "element"
             /\ Top(p).at = "eval" => Top(p).index \notin cache
  BY <1>0, <1>t, TopType DEF AloneInv, Turn, Top
\* A step of a thread p while no other is in a lookup.
<1>g. ASSUME NEW p \in Thread,
             \A q \in Thread : q # p => stack[q] = <<>> /\ stack'[q] = <<>>,
             \A i \in 1..Len(stack'[p]) : Turn(stack'[p], i, cache')
      PROVE  AloneInv'
  <2>1. ASSUME NEW q \in Thread, NEW i \in 1..Len(stack'[q])
        PROVE  Turn(stack'[q], i, cache')
    BY <1>g, <2>1
  <2>2. ASSUME NEW q \in Thread, NEW r \in Thread, stack'[q] # <<>>, stack'[r] # <<>>
        PROVE  q = r
    BY <1>g, <2>2
  <2> QED BY <2>1, <2>2 DEF AloneInv
\* ... of a thread that is in one.
<1>h. ASSUME NEW p \in Thread, stack[p] # <<>>,
             \A q \in Thread : q # p => stack'[q] = stack[q],
             \A i \in 1..Len(stack'[p]) : Turn(stack'[p], i, cache')
      PROVE  AloneInv'
  BY <1>g, <1>h DEF AloneInv
\* What is below the innermost lookup, whatever the table has become.
<1>b. ASSUME NEW p \in Thread, NEW i \in 1..Len(stack[p]), i # Len(stack[p])
      PROVE  stack[p][i].closure = "element" /\ stack[p][i].at = "element"
  BY <1>b DEF AloneInv, Turn
<1>f. ASSUME NEW p \in Thread, stack[p] # <<>>, Finish(p)
      PROVE  AloneInv'
  <2>1. stack' = [stack EXCEPT ![p] = Below(p)]
    BY <1>f DEF Finish
  <2>2. /\ Len(stack'[p]) = Len(stack[p]) - 1
        /\ \A i \in 1..(Len(stack[p]) - 1) : stack'[p][i] = stack[p][i]
        /\ \A q \in Thread : q # p => stack'[q] = stack[q]
    BY <1>0, <1>f, <2>1, DropTop
  <2>3. Len(stack[p]) \in Nat /\ Len(stack[p]) >= 1
    BY <1>f, <1>t
  <2>4. ASSUME NEW i \in 1..Len(stack'[p])
        PROVE  Turn(stack'[p], i, cache')
    <3>1. i \in 1..Len(stack[p]) /\ i # Len(stack[p]) /\ stack'[p][i] = stack[p][i]
      BY <2>2, <2>3
    <3> QED BY <1>b, <3>1 DEF Turn
  <2> QED BY <1>f, <1>h, <2>2, <2>4
<1>e. ASSUME NEW p \in Thread, stack[p] # <<>>, NEW e, Escape(p, e)
      PROVE  AloneInv'
  <2>1. stack' = [stack EXCEPT ![p] = <<>>]
    BY <1>e DEF Escape
  <2>2. stack'[p] = <<>> /\ \A q \in Thread : q # p => stack'[q] = stack[q]
    BY <1>0, <2>1, DropAll
  <2> QED BY <1>e, <1>h, <2>2
\* The innermost lookup becomes f.
<1>c. ASSUME NEW p \in Thread, stack[p] # <<>>, NEW f \in Frame,
             stack' = [stack EXCEPT ![p] = WithTop(p, f)],
             f.closure = "element", f.at = "eval" => f.index \notin cache'
      PROVE  AloneInv'
  <2>1. /\ Len(stack'[p]) = Len(stack[p])
        /\ stack'[p][Len(stack[p])] = f
        /\ \A i \in 1..Len(stack[p]) : i # Len(stack[p]) => stack'[p][i] = stack[p][i]
        /\ \A q \in Thread : q # p => stack'[q] = stack[q]
    BY <1>0, <1>c, ChangeTop
  <2>2. ASSUME NEW i \in 1..Len(stack'[p])
        PROVE  Turn(stack'[p], i, cache')
    BY <1>b, <1>c, <2>1 DEF Turn
  <2> QED BY <1>c, <1>h, <2>1, <2>2
<1>to. ASSUME NEW p \in Thread, stack[p] # <<>>, NEW w \in Places, Goto(p, w),
              w = "eval" => Top(p).index \notin cache'
       PROVE  AloneInv'
  <2> DEFINE f == [Top(p) EXCEPT !.at = w]
  <2>1. f \in Frame /\ f.at = w /\ f.index = Top(p).index /\ f.closure = "element"
    BY <1>t, <1>to DEF Frame
  <2>2. stack' = [stack EXCEPT ![p] = WithTop(p, f)]
    BY <1>to DEF Goto
  <2> HIDE DEF f
  <2> QED BY <1>c, <1>to, <2>1, <2>2
<1>1. ASSUME NEW p \in Thread, NEW i \in Index, Ask(p, i)
      PROVE  AloneInv'
  <2>1. /\ stack'[p] = <<Lookup(i)>>
        /\ \A q \in Thread : q # p => stack[q] = <<>> /\ stack'[q] = <<>>
    BY <1>0, <1>1 DEF Ask, TypeOK
  <2>2. \A k \in 1..Len(stack'[p]) : Turn(stack'[p], k, cache')
    BY <2>1 DEF Turn, Lookup
  <2> QED BY <1>g, <2>1, <2>2
<1>2. ASSUME NEW p \in Thread, ReadCache(p)
      PROVE  AloneInv'
  <2>1. stack[p] # <<>> /\ cache' = cache
    BY <1>2 DEF ReadCache, At
  <2>2. CASE Finish(p)
    BY <1>f, <2>1, <2>2
  <2>3. CASE Top(p).index \notin cache /\ Goto(p, "eval")
    BY <1>to, <2>1, <2>3 DEF Places
  <2> QED BY <1>2, <2>2, <2>3 DEF ReadCache
<1>3. ASSUME NEW p \in Thread, ReadEval(p)
      PROVE  AloneInv'
  <2> DEFINE f == [Top(p) EXCEPT !.at = "element", !.closure = eval]
  <2>1. stack[p] # <<>> /\ Top(p).at = "eval"
    BY <1>3 DEF ReadEval, At
  <2>2. eval = "element"
    BY <1>0, <1>t, <2>1 DEF ReapedWhenFull, Frame, TypeOK
  <2>3. f \in Frame /\ f.at = "element" /\ f.closure = "element"
    BY <1>t, <2>1, <2>2 DEF Frame, Places
  <2>4. stack' = [stack EXCEPT ![p] = WithTop(p, f)]
    BY <1>3 DEF ReadEval
  <2> HIDE DEF f
  <2> QED BY <1>c, <2>1, <2>3, <2>4
<1>4. ASSUME NEW p \in Thread, Panic(p) \/ Fail(p) \/ Interrupt(p)
      PROVE  AloneInv'
  <2>1. stack[p] # <<>>
    BY <1>4 DEF Panic, Fail, Interrupt, At
  <2>2. \E e : Escape(p, e)
    BY <1>4 DEF Panic, Fail, Interrupt
  <2> QED BY <1>e, <2>1, <2>2
<1>5. ASSUME NEW p \in Thread, NEW j \in Index, Need(p, j)
      PROVE  AloneInv'
  <2>1. stack[p] # <<>> /\ Top(p).at = "element"
    BY <1>5 DEF Need, At
  <2>2. PICK f \in Frame, g \in Frame :
          /\ f.at = "element" /\ f.closure = "element"
          /\ g.at = "cache" /\ g.closure = "element"
          /\ stack' = [stack EXCEPT ![p] = Append(WithTop(p, f), g)]
    <3> DEFINE f == [Top(p) EXCEPT !.todo = @ \ {j}]
               g == Lookup(j)
    <3>1. /\ f \in Frame /\ f.at = "element" /\ f.closure = "element"
          /\ g \in Frame /\ g.at = "cache" /\ g.closure = "element"
      BY <1>t, <2>1, LookupType DEF Frame, Lookup
    <3>2. stack' = [stack EXCEPT ![p] = Append(WithTop(p, f), g)]
      BY <1>5 DEF Need
    <3> HIDE DEF f, g
    <3> QED BY <3>1, <3>2
  <2>4. /\ stack' \in [Thread -> Seq(Frame)]
        /\ Len(stack'[p]) = Len(stack[p]) + 1
        /\ stack'[p][Len(stack[p]) + 1] = g
        /\ stack'[p][Len(stack[p])] = f
        /\ \A i \in 1..Len(stack[p]) : i # Len(stack[p]) => stack'[p][i] = stack[p][i]
        /\ \A q \in Thread : q # p => stack'[q] = stack[q]
    BY <1>0, <2>1, <2>2, GoDeeper
  <2>5. Len(stack[p]) \in Nat /\ Len(stack[p]) >= 1
    BY <1>t, <2>1
  <2>6. ASSUME NEW i \in 1..Len(stack'[p])
        PROVE  Turn(stack'[p], i, cache')
    <3>1. CASE i = Len(stack[p]) + 1
      BY <2>2, <2>4, <3>1 DEF Turn
    <3>2. CASE i = Len(stack[p])
      BY <2>2, <2>4, <2>5, <3>2 DEF Turn
    <3>3. CASE i \in 1..Len(stack[p]) /\ i # Len(stack[p])
      BY <1>b, <2>4, <3>3 DEF Turn
    <3> QED BY <2>4, <2>5, <3>1, <3>2, <3>3
  <2> QED BY <1>h, <2>1, <2>4, <2>6
<1>6. ASSUME NEW p \in Thread, Value(p)
      PROVE  AloneInv'
  BY <1>6, <1>to DEF Value, At, Places
<1>7. ASSUME NEW p \in Thread, Insert(p)
      PROVE  AloneInv'
  <2>1. stack[p] # <<>>
    BY <1>7 DEF Insert, InsertUpTo, At
  <2>2. Finish(p) \/ Goto(p, "overwrite")
    BY <1>7 DEF Insert, InsertUpTo
  <2> QED BY <1>f, <1>to, <2>1, <2>2 DEF Places
<1>8. ASSUME NEW p \in Thread, Overwrite(p)
      PROVE  AloneInv'
  BY <1>8, <1>f DEF Overwrite, At
<1>9. CASE UNCHANGED vars
  BY <1>9 DEF vars, AloneInv, Turn
<1> QED
  BY <1>1, <1>2, <1>3, <1>4, <1>5, <1>6, <1>7, <1>8, <1>9 DEF Next, Step

\* The closure that panics is never run for an infinite sequence, whatever the
\* threads that share it, nor for a finite one by threads that take turns.
THEOREM NeverPanicsUnlessShared == Spec => []NoPanicUnlessShared
<1>1. ASSUME IInv, AloneInv, alone \/ sequence.infinite
      PROVE  NoSizePanic
  <2> SUFFICES ASSUME NEW p \in Thread, At(p, "element"), Top(p).closure = "panic"
               PROVE  FALSE
    BY DEF NoSizePanic
  <2>1. Len(stack[p]) \in 1..Len(stack[p])
    BY <1>1, TopType DEF At, IInv
  <2>2. CASE alone
    BY <1>1, <2>1, <2>2 DEF AloneInv, Turn, Top
  <2>3. CASE sequence.infinite
    BY <1>1, <2>1, <2>3 DEF IInv, FramesInv, Good, ReapedWhenFull, Top
  <2> QED BY <1>1, <2>2, <2>3
<1>2. IInv /\ AloneInv => NoPanicUnlessShared
  BY <1>1 DEF NoPanicUnlessShared
<1>3. Init => AloneInv
  BY DEF Init, AloneInv
<1> QED BY <1>2, <1>3, Init_IInv, Step_IInv, AloneStep, PTL DEF Spec

-----------------------------------------------------------------------------
(***************************************************************************)
(* The elements.  Element is defined by recursion; that there is such a    *)
(* function is shown by induction on the number of elements, in the form   *)
(* of a set of numbers that has each number whose predecessors it has.     *)
(***************************************************************************)
LEMMA SetInduction ==
  ASSUME NEW S \in SUBSET Nat,
         \A n \in Nat : (\A m \in Nat : m < n => m \in S) => n \in S
  PROVE  S = Nat
<1> DEFINE R == {ss \in Nat \X Nat : ss[1] < ss[2]}
           T == Nat \ S
<1>1. IsWellFoundedOn(R, Nat)
  BY NatLessThanWellFounded DEF OpToRel
<1>2. ASSUME T # {} PROVE FALSE
  <2>1. PICK x \in T : \A y \in T : <<y, x>> \notin R
    BY <1>1, <1>2, WFMin
  <2> QED BY <2>1
<1> QED BY <1>2

\* An element is an error if computing it fails or if one that it is computed
\* from is an error, and a value otherwise.
LEMMA ElementDef ==
  \A i \in Index :
    Element[i] = IF i \in sequence.fails \/ (\E j \in Needs[i] : Element[j] = "error")
                 THEN "error" ELSE "value"
<1> DEFINE Part(n) == 0 .. (n - 1)
           Elements(n, f) ==
             [i \in Part(n) |->
                IF i \in sequence.fails \/ (\E j \in Needs[i] : f[j] = "error")
                THEN "error" ELSE "value"]
           S == {n \in Nat : n <= Size => \E f : f = Elements(n, f)}
<1>0. Size \in Nat /\ \A i \in Index : \A j \in Needs[i] : j \in Index /\ j < i
  BY SizeAssumption, NeedsAssumption DEF SizeAssumption, NeedsAssumption
<1>1. ASSUME NEW n \in Nat, n < Size, NEW f, f = Elements(n, f)
      PROVE  \E g : g = Elements(n + 1, g)
  <2> DEFINE g == [i \in Part(n + 1) |->
                     IF i < n THEN f[i]
                     ELSE IF i \in sequence.fails \/ (\E j \in Needs[i] : f[j] = "error")
                          THEN "error" ELSE "value"]
  <2>1. ASSUME NEW i \in Part(n + 1)
        PROVE  g[i] = IF i \in sequence.fails \/ (\E j \in Needs[i] : g[j] = "error")
                      THEN "error" ELSE "value"
    <3>1. i \in Index /\ i <= n
      BY <1>0, <1>1 DEF Index
    <3>2. \A j \in Needs[i] : j \in Part(n + 1) /\ j < n /\ g[j] = f[j]
      BY <1>0, <1>1, <3>1 DEF Index
    <3>3. i < n => f[i] = IF i \in sequence.fails \/ (\E j \in Needs[i] : f[j] = "error")
                          THEN "error" ELSE "value"
      <4>1. i < n => i \in Part(n)
        BY <3>1
      <4>2. ASSUME i \in Part(n)
            PROVE  Elements(n, f)[i] =
                     IF i \in sequence.fails \/ (\E j \in Needs[i] : f[j] = "error")
                     THEN "error" ELSE "value"
        BY <4>2
      <4> HIDE DEF Elements, Part
      <4> QED BY <1>1, <4>1, <4>2
    <3> QED BY <3>2, <3>3
  <2>2. g = Elements(n + 1, g)
    BY <2>1
  <2> HIDE DEF g, Elements
  <2> QED BY <2>2
<1>2. 0 \in S
  <2> DEFINE f == [i \in {} |-> "value"]
  <2>1. f = Elements(0, f)
    OBVIOUS
  <2> QED BY <2>1
<1>3. S = Nat
  <2>1. \A n \in Nat : (\A m \in Nat : m < n => m \in S) => n \in S
    <3> SUFFICES ASSUME NEW n \in Nat, \A m \in Nat : m < n => m \in S
                 PROVE  n \in S
      OBVIOUS
    <3>1. CASE n = 0
      BY <1>2, <3>1
    <3>2. CASE n # 0
      <4>1. n - 1 \in Nat /\ n - 1 < n /\ (n - 1) + 1 = n
        BY <3>2
      <4>2. n - 1 \in S
        BY <4>1
      <4> SUFFICES ASSUME n <= Size
                   PROVE  \E g : g = Elements(n, g)
        OBVIOUS
      <4>3. PICK f : f = Elements(n - 1, f)
        BY <1>0, <4>1, <4>2
      <4>4. n - 1 < Size
        BY <1>0, <4>1
      <4> HIDE DEF Elements
      <4>5. \E g : g = Elements((n - 1) + 1, g)
        BY <1>1, <4>1, <4>3, <4>4
      <4> QED BY <4>1, <4>5
    <3> QED BY <3>1, <3>2
  <2>2. S \in SUBSET Nat
    OBVIOUS
  <2> HIDE DEF S
  <2> QED BY <2>1, <2>2, SetInduction
<1>4. \E f : f = Elements(Size, f)
  <2> HIDE DEF Elements
  <2> QED BY <1>0, <1>3
<1>5. Element = [i \in Index |->
                   IF i \in sequence.fails \/ (\E j \in Needs[i] : Element[j] = "error")
                   THEN "error" ELSE "value"]
  BY <1>4 DEF Element, Index
<1> QED BY <1>5

LEMMA ElementKept ==
  ASSUME sequence' = sequence
  PROVE  Element' = Element
BY DEF Element

-----------------------------------------------------------------------------
(***************************************************************************)
(* Answers.  What is in the table is a value, a lookup has come as far as  *)
(* it has because the elements it needed were values, and an error in the  *)
(* innermost lookup is one in the element that was asked for.              *)
(***************************************************************************)

\* Frame k of stack s, when the elements are e.
Told(s, k, e) ==
  /\ k # Len(s) => s[k].at = "element"
  /\ s[k].todo \subseteq Needs[s[k].index]
  /\ \A j \in Needs[s[k].index] \ s[k].todo :
       e[j] = "value" \/ (k < Len(s) /\ j = s[k + 1].index)
  /\ s[k].at \in {"insert", "overwrite"} => e[s[k].index] = "value"
  /\ e[s[k].index] = "error" => e[s[1].index] = "error"

AskedFor(s) == IF s = <<>> THEN Pure!Nobody ELSE Pure!Request(s[1].index)

ReplyInv ==
  /\ \A i \in cache : Element[i] = "value"
  /\ \A p \in Thread : \A k \in 1..Len(stack[p]) : Told(stack[p], k, Element)
  /\ \A p \in Thread : request[p] = AskedFor(stack[p])

Answers == <<sequence, request, reply>>

\* What the top frame of a thread tells.
LEMMA TopTold ==
  ASSUME TypeOK, ReplyInv, NEW p \in Thread, stack[p] # <<>>
  PROVE  /\ Len(stack[p]) \in Nat /\ Len(stack[p]) >= 1
         /\ Len(stack[p]) \in 1..Len(stack[p])
         /\ Top(p) = stack[p][Len(stack[p])]
         /\ Top(p) \in Frame /\ Top(p).index \in Index
         /\ Told(stack[p], Len(stack[p]), Element)
         /\ \A j \in Needs[Top(p).index] \ Top(p).todo : Element[j] = "value"
         /\ request[p] = Pure!Request(stack[p][1].index)
         /\ stack[p][1].index \in Index
<1>1. /\ stack[p] \in Seq(Frame) /\ Len(stack[p]) \in 1..Len(stack[p]) /\ Top(p) \in Frame
  BY TopType
<1>2. 1 \in 1..Len(stack[p]) /\ Len(stack[p]) \in Nat /\ Len(stack[p]) >= 1
  BY <1>1
<1>3. stack[p][1] \in Frame /\ Top(p) = stack[p][Len(stack[p])]
  BY <1>1, <1>2 DEF Top
<1>4. Told(stack[p], Len(stack[p]), Element)
  BY <1>2 DEF ReplyInv
<1>5. \A j \in Needs[Top(p).index] \ Top(p).todo : Element[j] = "value"
  BY <1>2, <1>3, <1>4 DEF Told
<1>6. request[p] = Pure!Request(stack[p][1].index)
  BY DEF ReplyInv, AskedFor
<1>7. Top(p).index \in Index /\ stack[p][1].index \in Index
  BY <1>1, <1>3 DEF Frame
<1> QED BY <1>1, <1>2, <1>3, <1>4, <1>5, <1>6, <1>7

\* The frames of p are told, those of other threads are as they were.
LEMMA ReplyStep ==
  ASSUME ReplyInv, NEW p \in Thread, sequence' = sequence,
         \A i \in cache' : i \in cache \/ Element[i] = "value",
         \A q \in Thread : q # p => stack'[q] = stack[q] /\ request'[q] = request[q],
         \A k \in 1..Len(stack'[p]) : Told(stack'[p], k, Element),
         request'[p] = AskedFor(stack'[p])
  PROVE  ReplyInv'
<1>1. Element' = Element
  BY ElementKept
<1>2. \A q \in Thread : \A k \in 1..Len(stack'[q]) : Told(stack'[q], k, Element)
  BY DEF ReplyInv
<1>3. \A q \in Thread : request'[q] = AskedFor(stack'[q])
  BY DEF ReplyInv
<1>4. \A i \in cache' : Element[i] = "value"
  BY DEF ReplyInv
<1>5. \A q \in Thread : \A k \in 1..Len(stack'[q]) : Told(stack[q], k, Element)' <=>
                                                 Told(stack'[q], k, Element)
  BY <1>1 DEF Told
<1> QED BY <1>1, <1>2, <1>3, <1>4, <1>5 DEF ReplyInv, AskedFor, Told

\* A frame that is not the innermost one.
LEMMA BelowTold ==
  ASSUME TypeOK, ReplyInv, NEW p \in Thread, NEW k \in 1..Len(stack[p]), k # Len(stack[p]),
         NEW s, Len(s) > k, s[k] = stack[p][k], s[k + 1].index = stack[p][k + 1].index,
         s[1].index = stack[p][1].index
  PROVE  Told(s, k, Element)
<1>1. Told(stack[p], k, Element) /\ k < Len(stack[p])
  BY DEF ReplyInv, TypeOK
<1> QED BY <1>1 DEF Told

\* A lookup that comes to a value ends.
LEMMA FinishTold ==
  ASSUME TypeOK, ReplyInv, NEW p \in Thread, stack[p] # <<>>, Finish(p),
         sequence' = sequence, Element[Top(p).index] = "value",
         \A i \in cache' : i \in cache \/ Element[i] = "value"
  PROVE  ReplyInv' /\ (Pure!Next \/ UNCHANGED Answers)
<1>1. stack' = [stack EXCEPT ![p] = Below(p)]
  BY DEF Finish
<1>2. /\ Len(stack'[p]) = Len(stack[p]) - 1
      /\ \A i \in 1..(Len(stack[p]) - 1) : stack'[p][i] = stack[p][i]
      /\ \A q \in Thread : q # p => stack'[q] = stack[q]
      /\ stack'[p] \in Seq(Frame)
  BY <1>1, DropTop
<1>3. /\ Len(stack[p]) \in Nat /\ Len(stack[p]) >= 1
      /\ Top(p) = stack[p][Len(stack[p])] /\ stack[p][1].index \in Index
      /\ request[p] = Pure!Request(stack[p][1].index)
  BY TopTold
<1>4. /\ DOMAIN request = Thread /\ DOMAIN reply = Thread
  BY DEF TypeOK
<1>5. CASE Len(stack[p]) = 1
  <2>1. /\ request' = [request EXCEPT ![p] = Pure!Nobody]
        /\ reply' = [reply EXCEPT ![p] = "value"]
    BY <1>5 DEF Finish
  <2>2. stack'[p] = <<>>
    BY <1>2, <1>5
  <2>3. ReplyInv'
    BY <1>2, <1>4, <2>1, <2>2, ReplyStep DEF AskedFor
  <2>4. Element' = Element
    BY ElementKept
  <2>5. Element[request[p].index] = "value" /\ request[p].busy
    BY <1>3, <1>5 DEF Pure!Request
  <2>6. Pure!Answer(p)
    BY <2>1, <2>5 DEF Pure!Answer
  <2> QED BY <2>3, <2>4, <2>6 DEF Pure!Next
<1>6. CASE Len(stack[p]) # 1
  <2>1. UNCHANGED <<request, reply>>
    BY <1>6 DEF Finish
  <2>2. Len(stack[p]) - 1 >= 1 /\ stack'[p] # <<>> /\ stack'[p][1] = stack[p][1]
    <3>1. ASSUME NEW n \in Nat, n >= 1, n # 1 PROVE 1 \in 1..(n - 1) /\ n - 1 >= 1
      BY <3>1
    <3>2. 1 \in 1..(Len(stack[p]) - 1) /\ Len(stack[p]) - 1 >= 1
      BY <1>3, <1>6, <3>1
    <3>3. stack'[p] # <<>>
      BY <1>2, <3>2
    <3> QED BY <1>2, <3>2, <3>3
  <2>3. request'[p] = AskedFor(stack'[p])
    BY <1>3, <2>1, <2>2 DEF AskedFor
  <2>4. ASSUME NEW k \in 1..Len(stack'[p]) PROVE Told(stack'[p], k, Element)
    <3>0. /\ k \in 1..Len(stack[p]) /\ k # Len(stack[p]) /\ stack'[p][k] = stack[p][k]
          /\ k \in Nat /\ k + 1 <= Len(stack[p]) /\ k + 1 \in 1..Len(stack[p])
          /\ k \in 1..(Len(stack[p]) - 1)
      BY <1>2, <1>3
    <3>1. CASE k = Len(stack'[p])
      <4>1. /\ Told(stack[p], k, Element) /\ stack[p][k + 1].index = Top(p).index
            /\ k < Len(stack[p])
        BY <1>2, <1>3, <3>0, <3>1 DEF ReplyInv
      <4>2. stack[p][k].at = "element"
        BY <3>0, <4>1 DEF Told
      <4> QED BY <2>2, <3>0, <3>1, <4>1, <4>2 DEF Told
    <3>2. CASE k # Len(stack'[p])
      <4> DEFINE n == Len(stack[p])
      <4>0. n \in Nat /\ Len(stack'[p]) = n - 1 /\ k \in 1..(n - 1) /\ k # n - 1
        BY <1>2, <1>3, <3>0, <3>2
      <4>3. k < n - 1 /\ k + 1 \in 1..(n - 1)
        <5> HIDE DEF n
        <5> QED BY <4>0
      <4>1. k < Len(stack'[p]) /\ stack'[p][k + 1] = stack[p][k + 1]
        BY <1>2, <4>0, <4>3
      <4>2. /\ Len(stack'[p]) > k /\ stack'[p][k] = stack[p][k]
            /\ stack'[p][k + 1].index = stack[p][k + 1].index
            /\ stack'[p][1].index = stack[p][1].index
        BY <2>2, <3>0, <4>1
      <4> QED BY <3>0, <4>2, BelowTold
    <3> QED BY <3>1, <3>2
  <2>5. ReplyInv'
    BY <1>2, <2>1, <2>3, <2>4, ReplyStep
  <2> QED BY <2>1, <2>5 DEF Answers
<1> QED BY <1>5, <1>6

\* An exception leaves all lookups: of a thread that was interrupted, or one in
\* which an element is an error.
LEMMA EscapeTold ==
  ASSUME TypeOK, ReplyInv, NEW p \in Thread, stack[p] # <<>>, NEW e, Escape(p, e),
         UNCHANGED <<sequence, cache>>
  PROVE  /\ ReplyInv'
         /\ e = reply[p] \/ (e = "error" /\ Element[Top(p).index] = "error") => Pure!Next
<1>1. /\ stack' = [stack EXCEPT ![p] = <<>>]
      /\ request' = [request EXCEPT ![p] = Pure!Nobody]
      /\ reply' = [reply EXCEPT ![p] = e]
  BY DEF Escape
<1>2. DOMAIN request = Thread /\ reply \in [Thread -> {"none", "value", "error", "panic"}]
      /\ stack'[p] = <<>> /\ \A q \in Thread : q # p => stack'[q] = stack[q]
  BY <1>1, DropAll DEF TypeOK
<1>3. ReplyInv'
  BY <1>1, <1>2, ReplyStep DEF AskedFor
<1>4. /\ request[p] = Pure!Request(stack[p][1].index)
      /\ Told(stack[p], Len(stack[p]), Element)
      /\ Top(p) = stack[p][Len(stack[p])]
      /\ Element' = Element
  BY TopTold, ElementKept
<1>5. request[p].busy /\ request[p].index = stack[p][1].index
  BY <1>4 DEF Pure!Request
<1>6. CASE e = reply[p]
  <2>1. reply' = reply
    BY <1>1, <1>2, <1>6
  <2>2. Pure!Abandon(p)
    BY <1>1, <1>5, <2>1 DEF Pure!Abandon
  <2> QED BY <1>3, <1>4, <2>2 DEF Pure!Next
<1>7. CASE e = "error" /\ Element[Top(p).index] = "error"
  <2>1. Element[request[p].index] = "error"
    BY <1>4, <1>5, <1>7 DEF Told
  <2>2. Pure!Answer(p)
    BY <1>1, <1>5, <1>7, <2>1 DEF Pure!Answer
  <2> QED BY <1>3, <1>4, <2>2 DEF Pure!Next
<1> QED BY <1>3, <1>6, <1>7

\* The innermost lookup becomes f, of the same element.
LEMMA ChangeTold ==
  ASSUME TypeOK, ReplyInv, NEW p \in Thread, stack[p] # <<>>, NEW f \in Frame,
         stack' = [stack EXCEPT ![p] = WithTop(p, f)],
         f.index = Top(p).index, f.todo = Top(p).todo,
         f.at \in {"insert", "overwrite"} => Element[f.index] = "value",
         \A i \in cache' : i \in cache \/ Element[i] = "value",
         UNCHANGED <<sequence, request, reply>>
  PROVE  ReplyInv' /\ UNCHANGED Answers
<1>1. /\ Len(stack'[p]) = Len(stack[p])
      /\ stack'[p][Len(stack[p])] = f
      /\ \A i \in 1..Len(stack[p]) : i # Len(stack[p]) => stack'[p][i] = stack[p][i]
      /\ \A q \in Thread : q # p => stack'[q] = stack[q]
  BY ChangeTop
<1>2. /\ Len(stack[p]) \in Nat /\ Len(stack[p]) >= 1
      /\ Top(p) = stack[p][Len(stack[p])]
      /\ Told(stack[p], Len(stack[p]), Element)
      /\ request[p] = Pure!Request(stack[p][1].index)
  BY TopTold
<1>3. \A i \in 1..Len(stack[p]) : stack'[p][i].index = stack[p][i].index
  BY <1>1, <1>2
<1>4. stack'[p] # <<>> /\ stack'[p][1].index = stack[p][1].index
  BY <1>1, <1>2, <1>3
<1>5. ASSUME NEW k \in 1..Len(stack'[p]) PROVE Told(stack'[p], k, Element)
  <2>1. CASE k = Len(stack[p])
    BY <1>1, <1>2, <1>4, <2>1 DEF Told
  <2>2. CASE k # Len(stack[p])
    <3>1. k \in 1..Len(stack[p]) /\ k + 1 \in 1..Len(stack[p]) /\ Len(stack'[p]) > k
      BY <1>1, <1>2, <2>2
    <3> QED BY <1>1, <1>3, <1>4, <2>2, <3>1, BelowTold
  <2> QED BY <2>1, <2>2
<1>6. request'[p] = AskedFor(stack'[p])
  BY <1>2, <1>4 DEF AskedFor
<1>7. ReplyInv'
  BY <1>1, <1>5, <1>6, ReplyStep
<1> QED BY <1>7 DEF Answers

LEMMA GotoTold ==
  ASSUME TypeOK, ReplyInv, NEW p \in Thread, stack[p] # <<>>, NEW w \in Places, Goto(p, w),
         w \in {"insert", "overwrite"} => Element[Top(p).index] = "value",
         \A i \in cache' : i \in cache \/ Element[i] = "value",
         UNCHANGED <<sequence, request, reply>>
  PROVE  ReplyInv' /\ UNCHANGED Answers
<1> DEFINE f == [Top(p) EXCEPT !.at = w]
<1>1. f \in Frame /\ f.at = w /\ f.index = Top(p).index /\ f.todo = Top(p).todo
  BY TopTold DEF Frame
<1>2. stack' = [stack EXCEPT ![p] = WithTop(p, f)]
  BY DEF Goto
<1> HIDE DEF f
<1> QED BY <1>1, <1>2, ChangeTold

\* A step keeps the invariant; where no lookup runs the closure that panics, it
\* is one of the pure sequence.
LEMMA Step_ReplyInv ==
  IInv /\ ReplyInv /\ [Next]_vars =>
    ReplyInv' /\ (NoSizePanic => Pure!Next \/ UNCHANGED Answers)
<1> SUFFICES ASSUME IInv, ReplyInv, [Next]_vars
             PROVE  ReplyInv' /\ (NoSizePanic => Pure!Next \/ UNCHANGED Answers)
  OBVIOUS
<1> USE DEF Places
<1>0. TypeOK
  BY DEF IInv
<1>1. ASSUME NEW p \in Thread, NEW i \in Index, Ask(p, i)
      PROVE  ReplyInv' /\ Pure!Next
  <2>1. /\ stack[p] = <<>> /\ stack'[p] = <<Lookup(i)>>
        /\ \A q \in Thread : q # p => stack'[q] = stack[q]
        /\ request' = [request EXCEPT ![p] = Pure!Request(i)]
        /\ reply' = [reply EXCEPT ![p] = "none"]
        /\ UNCHANGED <<sequence, cache>>
    BY <1>0, <1>1 DEF Ask, TypeOK
  <2>2. DOMAIN request = Thread
    BY <1>0 DEF TypeOK
  <2>3. Len(stack'[p]) = 1 /\ stack'[p][1] = Lookup(i) /\ stack'[p] # <<>>
    BY <2>1
  <2>4. \A k \in 1..Len(stack'[p]) : Told(stack'[p], k, Element)
    BY <2>3 DEF Told, Lookup
  <2>5. request'[p] = AskedFor(stack'[p])
    BY <2>1, <2>2, <2>3 DEF AskedFor, Lookup
  <2>6. ReplyInv'
    BY <2>1, <2>2, <2>4, <2>5, ReplyStep
  <2>7. ~request[p].busy
    BY <2>1 DEF ReplyInv, AskedFor, Pure!Nobody
  <2>8. Pure!Ask(p, i) /\ Element' = Element
    BY <2>1, <2>7, ElementKept DEF Pure!Ask
  <2> QED BY <2>6, <2>8 DEF Pure!Next
<1>2. ASSUME NEW p \in Thread, ReadCache(p)
      PROVE  ReplyInv' /\ (Pure!Next \/ UNCHANGED Answers)
  <2>1. stack[p] # <<>> /\ UNCHANGED <<sequence, cache>>
    BY <1>2 DEF ReadCache, At
  <2>2. CASE Top(p).index \in cache /\ Finish(p)
    BY <1>0, <2>1, <2>2, FinishTold DEF ReplyInv
  <2>3. CASE Goto(p, "eval") /\ UNCHANGED <<request, reply>>
    BY <1>0, <2>1, <2>3, GotoTold
  <2> QED BY <1>2, <2>2, <2>3 DEF ReadCache
<1>3. ASSUME NEW p \in Thread, ReadEval(p)
      PROVE  ReplyInv' /\ UNCHANGED Answers
  <2> DEFINE f == [Top(p) EXCEPT !.at = "element", !.closure = eval]
  <2>1. stack[p] # <<>> /\ UNCHANGED <<sequence, cache, request, reply>>
    BY <1>3 DEF ReadEval, At
  <2>2. Top(p) \in Frame /\ eval \in {"element", "panic"}
    BY <1>0, <2>1, TopTold DEF TypeOK
  <2>3. /\ f \in Frame /\ f.at = "element" /\ f.index = Top(p).index
        /\ f.todo = Top(p).todo
    BY <2>2 DEF Frame
  <2>4. stack' = [stack EXCEPT ![p] = WithTop(p, f)]
    BY <1>3 DEF ReadEval
  <2> HIDE DEF f
  <2> QED BY <1>0, <2>1, <2>3, <2>4, ChangeTold
<1>4. ASSUME NEW p \in Thread, Panic(p)
      PROVE  ReplyInv' /\ ~NoSizePanic
  BY <1>0, <1>4, EscapeTold DEF Panic, At, NoSizePanic
<1>5. ASSUME NEW p \in Thread, NEW j \in Index, Need(p, j)
      PROVE  ReplyInv' /\ UNCHANGED Answers
  <2>1. /\ stack[p] # <<>> /\ Top(p).at = "element" /\ j \in Top(p).todo
        /\ UNCHANGED <<sequence, cache, request, reply>>
    BY <1>5 DEF Need, At
  <2>2. /\ Len(stack[p]) \in Nat /\ Len(stack[p]) >= 1
        /\ Top(p) = stack[p][Len(stack[p])]
        /\ Top(p) \in Frame /\ Top(p).index \in Index
        /\ Told(stack[p], Len(stack[p]), Element)
        /\ \A k \in Needs[Top(p).index] \ Top(p).todo : Element[k] = "value"
        /\ request[p] = Pure!Request(stack[p][1].index)
    BY <1>0, <2>1, TopTold
  <2>3. PICK f \in Frame, g \in Frame :
          /\ f.at = "element" /\ f.index = Top(p).index /\ f.todo = Top(p).todo \ {j}
          /\ g.at = "cache" /\ g.index = j /\ g.todo = Needs[j]
          /\ stack' = [stack EXCEPT ![p] = Append(WithTop(p, f), g)]
    <3> DEFINE f == [Top(p) EXCEPT !.todo = @ \ {j}]
               g == Lookup(j)
    <3>1. /\ f \in Frame /\ f.at = "element" /\ f.index = Top(p).index
          /\ f.todo = Top(p).todo \ {j}
          /\ g \in Frame /\ g.at = "cache" /\ g.index = j /\ g.todo = Needs[j]
      BY <2>1, <2>2, LookupType DEF Frame, Lookup
    <3>2. stack' = [stack EXCEPT ![p] = Append(WithTop(p, f), g)]
      BY <1>5 DEF Need
    <3> HIDE DEF f, g
    <3> QED BY <3>1, <3>2
  <2>4. /\ stack' \in [Thread -> Seq(Frame)]
        /\ Len(stack'[p]) = Len(stack[p]) + 1
        /\ stack'[p][Len(stack[p]) + 1] = g
        /\ stack'[p][Len(stack[p])] = f
        /\ \A i \in 1..Len(stack[p]) : i # Len(stack[p]) => stack'[p][i] = stack[p][i]
        /\ \A q \in Thread : q # p => stack'[q] = stack[q]
    BY <1>0, <2>1, <2>3, GoDeeper
  <2>5. \A i \in 1..Len(stack[p]) : stack'[p][i].index = stack[p][i].index
    BY <2>2, <2>3, <2>4
  <2>6. stack'[p] # <<>> /\ stack'[p][1].index = stack[p][1].index
    BY <2>2, <2>4, <2>5
  <2>7. Element[j] = "error" => Element[stack[p][1].index] = "error"
    <3>1. j \in Needs[Top(p).index]
      BY <2>1, <2>2 DEF Told
    <3> QED BY <2>2, <3>1, ElementDef DEF Told
  <2>8. ASSUME NEW k \in 1..Len(stack'[p]) PROVE Told(stack'[p], k, Element)
    <3>1. CASE k = Len(stack[p]) + 1
      BY <2>3, <2>4, <2>6, <2>7, <3>1 DEF Told
    <3>2. CASE k = Len(stack[p])
      BY <2>2, <2>3, <2>4, <2>6, <3>2 DEF Told
    <3>3. CASE k \in 1..Len(stack[p]) /\ k # Len(stack[p])
      <4>1. k + 1 \in 1..Len(stack[p]) /\ Len(stack'[p]) > k
        BY <2>2, <2>4, <3>3
      <4> QED BY <1>0, <2>4, <2>5, <2>6, <3>3, <4>1, BelowTold
    <3> QED BY <2>2, <2>4, <3>1, <3>2, <3>3
  <2>9. request'[p] = AskedFor(stack'[p])
    BY <2>1, <2>2, <2>6 DEF AskedFor
  <2>10. ReplyInv'
    BY <2>1, <2>4, <2>8, <2>9, ReplyStep
  <2> QED BY <2>1, <2>10 DEF Answers
<1>6. ASSUME NEW p \in Thread, Fail(p)
      PROVE  ReplyInv' /\ Pure!Next
  <2>1. stack[p] # <<>> /\ Escape(p, "error") /\ UNCHANGED <<sequence, cache>>
        /\ Top(p).index \in sequence.fails
    BY <1>6 DEF Fail, At
  <2>2. Element[Top(p).index] = "error"
    BY <1>0, <2>1, TopTold, ElementDef
  <2> QED BY <1>0, <2>1, <2>2, EscapeTold
<1>7. ASSUME NEW p \in Thread, Value(p)
      PROVE  ReplyInv' /\ UNCHANGED Answers
  <2>1. /\ stack[p] # <<>> /\ Goto(p, "insert") /\ UNCHANGED <<sequence, cache, request, reply>>
        /\ Top(p).index \notin sequence.fails /\ Top(p).todo = {}
    BY <1>7 DEF Value, At
  <2>2. Element[Top(p).index] = "value"
    BY <1>0, <2>1, TopTold, ElementDef
  <2> QED BY <1>0, <2>1, <2>2, GotoTold
<1>8. ASSUME NEW p \in Thread, Insert(p)
      PROVE  ReplyInv' /\ (Pure!Next \/ UNCHANGED Answers)
  <2>1. /\ stack[p] # <<>> /\ Top(p).at = "insert" /\ sequence' = sequence
        /\ cache' = cache \cup {Top(p).index}
    BY <1>8 DEF Insert, InsertUpTo, At, Filled
  <2>2. Element[Top(p).index] = "value"
    BY <1>0, <2>1, TopTold DEF Told
  <2>3. CASE Finish(p)
    BY <1>0, <2>1, <2>2, <2>3, FinishTold
  <2>4. CASE Goto(p, "overwrite") /\ UNCHANGED <<request, reply>>
    BY <1>0, <2>1, <2>2, <2>4, GotoTold
  <2> QED BY <1>8, <2>3, <2>4 DEF Insert, InsertUpTo
<1>9. ASSUME NEW p \in Thread, Overwrite(p)
      PROVE  ReplyInv' /\ (Pure!Next \/ UNCHANGED Answers)
  <2>1. /\ stack[p] # <<>> /\ Top(p).at = "overwrite" /\ UNCHANGED <<sequence, cache>>
        /\ Finish(p)
    BY <1>9 DEF Overwrite, At
  <2>2. Element[Top(p).index] = "value"
    BY <1>0, <2>1, TopTold DEF Told
  <2> QED BY <1>0, <2>1, <2>2, FinishTold
<1>10. ASSUME NEW p \in Thread, Interrupt(p)
       PROVE  ReplyInv' /\ Pure!Next
  BY <1>0, <1>10, EscapeTold DEF Interrupt
<1>11. CASE UNCHANGED vars
  <2>1. Element' = Element
    BY <1>11, ElementKept DEF vars
  <2> QED BY <1>11, <2>1 DEF vars, ReplyInv, AskedFor, Told, Answers
<1> QED
  BY <1>1, <1>2, <1>3, <1>4, <1>5, <1>6, <1>7, <1>8, <1>9, <1>10, <1>11 DEF Next, Step

\* A lookup answers with the element of the sequence, the same for every thread
\* and every time, wherever threads are interrupted: when they take turns, and
\* when any number of them share an infinite sequence (SeqMap.hs:129-153).
THEOREM PureImplemented == Spec => ImplementsPure
<1>1. IInv /\ ReplyInv /\ NoPanicUnlessShared /\ [Next]_vars =>
        [alone \/ sequence.infinite => Pure!Next]_Answers
  BY Step_ReplyInv DEF NoPanicUnlessShared
<1>2. Init => ReplyInv
  BY DEF Init, Pure!Init, ReplyInv, AskedFor
<1>3. Init => Pure!Init
  BY DEF Init
<1>4. Spec => []ReplyInv
  <2>1. IInv /\ ReplyInv /\ [Next]_vars => ReplyInv'
    BY Step_ReplyInv
  <2> QED BY <1>2, <2>1, Init_IInv, Step_IInv, PTL DEF Spec
<1>5. Spec => []IInv
  BY Init_IInv, Step_IInv, PTL DEF Spec
<1> QED
  BY <1>1, <1>3, <1>4, <1>5, NeverPanicsUnlessShared, PTL
  DEF Spec, ImplementsPure, Answers
=============================================================================
