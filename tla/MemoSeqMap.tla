----------------------------- MODULE MemoSeqMap -----------------------------
(***************************************************************************)
(* The memoised sequence map (MemoSeqMap, lookupSeqMap and memoMap in      *)
(* src/Cryptol/Backend/SeqMap.hs): a memo table and the closure that       *)
(* evaluates an element, in two IORefs that all threads share.  When every *)
(* element is in the table, the closure is overwritten by one that panics, *)
(* to let the garbage collector reap it.                                   *)
(*                                                                         *)
(* Each access to an IORef is a step of its own.  Evaluating an element    *)
(* looks up the elements it is computed from in the same map, as the body  *)
(* of a recursive sequence does.  Operators with a suffix after the name   *)
(* of an action are mistaken versions of it, to try the properties on.     *)
(***************************************************************************)
EXTENDS Naturals, Sequences, FiniteSets

CONSTANTS
  Thread,      \* threads that share the map
  Size,        \* the number of its elements, or of those in use if infinite
  Needs,       \* Needs[i]: the elements that element i is computed from
  Sequences    \* the sequences that the map may hold (see SequencesAssumption)

Index == 0 .. (Size - 1)

SizeAssumption == Size \in Nat

\* Elements are computed from earlier ones.  (Nothing here detects one that is
\* computed from itself; that is left to the thunks.)
NeedsAssumption ==
  Needs \in [Index -> SUBSET Index] /\ \A i \in Index : \A j \in Needs[i] : j < i

\* Whether the length is Inf, and which elements raise an error when they are
\* computed.
SequencesAssumption == Sequences \subseteq [infinite : BOOLEAN, fails : SUBSET Index]

ASSUME SizeAssumption
ASSUME NeedsAssumption
ASSUME SequencesAssumption

VARIABLES
  sequence,  \* the sequence that the map holds; never changes
  cache,     \* the indices in the memo table
  alone,     \* whether threads use the map one after the other; never changes
  eval,      \* the closure: "element", or "panic" after it was overwritten
  stack,     \* stack[p]: the lookups thread p is in, the innermost last
  request,   \* request[p]: the lookup p was asked for
  reply      \* reply[p]: what the last lookup of p came to

vars == <<sequence, cache, alone, eval, stack, request, reply>>

\* What looking up an element comes to, by the definition of the sequence.
Element[i \in Index] ==
  IF i \in sequence.fails \/ (\E j \in Needs[i] : Element[j] = "error")
  THEN "error" ELSE "value"

Pure == INSTANCE PureSeq WITH element <- Element

\* Where a lookup is: about to read the table, about to read the closure,
\* running it, about to insert, about to overwrite the closure.
Places == {"cache", "eval", "element", "insert", "overwrite"}

Frame == [index : Index, at : Places, todo : SUBSET Index, closure : {"element", "panic"}]

Lookup(i) == [index |-> i, at |-> "cache", todo |-> Needs[i], closure |-> "element"]

Top(p) == stack[p][Len(stack[p])]
Below(p) == SubSeq(stack[p], 1, Len(stack[p]) - 1)

\* Thread p is in a lookup, at the place named.
At(p, place) == stack[p] # <<>> /\ Top(p).at = place

\* The lookups of thread p with f for the innermost one.
WithTop(p, f) == [stack[p] EXCEPT ![Len(stack[p])] = f]

Goto(p, place) ==
  stack' = [stack EXCEPT ![p] = WithTop(p, [Top(p) EXCEPT !.at = place])]

\* The innermost lookup of thread p ends with a value: the element below it
\* goes on, or the answer is given.
Finish(p) ==
  /\ stack' = [stack EXCEPT ![p] = Below(p)]
  /\ IF Len(stack[p]) = 1
     THEN /\ request' = [request EXCEPT ![p] = Pure!Nobody]
          /\ reply' = [reply EXCEPT ![p] = "value"]
     ELSE UNCHANGED <<request, reply>>

\* An exception leaves all the lookups of thread p: none of them catches it.
Escape(p, e) ==
  /\ stack' = [stack EXCEPT ![p] = <<>>]
  /\ request' = [request EXCEPT ![p] = Pure!Nobody]
  /\ reply' = [reply EXCEPT ![p] = e]

Init ==
  /\ sequence \in Sequences
  /\ alone \in BOOLEAN
  /\ cache = {}
  /\ eval = "element"
  /\ stack = [p \in Thread |-> <<>>]
  /\ Pure!Init

\* Somebody looks element i up.
Ask(p, i) ==
  /\ \A q \in Thread : p = q \/ alone => stack[q] = <<>>
  /\ stack' = [stack EXCEPT ![p] = <<Lookup(i)>>]
  /\ request' = [request EXCEPT ![p] = Pure!Request(i)]
  /\ reply' = [reply EXCEPT ![p] = "none"]
  /\ UNCHANGED <<sequence, cache, eval, alone>>

\* readIORef cache: return the element if it is there.
ReadCache(p) ==
  /\ At(p, "cache")
  /\ IF Top(p).index \in cache
     THEN Finish(p)
     ELSE Goto(p, "eval") /\ UNCHANGED <<request, reply>>
  /\ UNCHANGED <<sequence, cache, eval, alone>>

\* readIORef eval.
ReadEval(p) ==
  /\ At(p, "eval")
  /\ stack' = [stack EXCEPT ![p] =
                 WithTop(p, [Top(p) EXCEPT !.at = "element", !.closure = eval])]
  /\ UNCHANGED <<sequence, cache, eval, alone, request, reply>>

\* f i, with a closure that was overwritten: "Messed up size accounting".
Panic(p) ==
  /\ At(p, "element")
  /\ Top(p).closure = "panic"
  /\ Escape(p, "panic")
  /\ UNCHANGED <<sequence, cache, eval, alone>>

\* f i looks up an element it needs.
Need(p, j) ==
  /\ At(p, "element")
  /\ Top(p).closure = "element"
  /\ j \in Top(p).todo
  /\ stack' = [stack EXCEPT ![p] =
                 Append(WithTop(p, [Top(p) EXCEPT !.todo = @ \ {j}]), Lookup(j))]
  /\ UNCHANGED <<sequence, cache, eval, alone, request, reply>>

\* f i raises an error.
Fail(p) ==
  /\ At(p, "element")
  /\ Top(p).closure = "element"
  /\ Top(p).todo = {}
  /\ Top(p).index \in sequence.fails
  /\ Escape(p, "error")
  /\ UNCHANGED <<sequence, cache, eval, alone>>

\* f i returns a value.
Value(p) ==
  /\ At(p, "element")
  /\ Top(p).closure = "element"
  /\ Top(p).todo = {}
  /\ Top(p).index \notin sequence.fails
  /\ Goto(p, "insert")
  /\ UNCHANGED <<sequence, cache, eval, alone, request, reply>>

\* The table as it would be with the element of p's innermost lookup.
Filled(p) == cache \cup {Top(p).index}

\* atomicModifyIORef' cache, which also tells whether the table is full at
\* "limit" elements.
InsertUpTo(p, limit) ==
  /\ At(p, "insert")
  /\ cache' = Filled(p)
  /\ IF ~sequence.infinite /\ Cardinality(Filled(p)) >= limit
     THEN Goto(p, "overwrite") /\ UNCHANGED <<request, reply>>
     ELSE Finish(p)
  /\ UNCHANGED <<sequence, eval, alone>>

\* The same with an infinite length taken for zero.
Insert_InfIsZero(p) ==
  /\ At(p, "insert")
  /\ cache' = Filled(p)
  /\ IF sequence.infinite \/ Cardinality(Filled(p)) >= Size
     THEN Goto(p, "overwrite") /\ UNCHANGED <<request, reply>>
     ELSE Finish(p)
  /\ UNCHANGED <<sequence, eval, alone>>

Insert_OneShort(p) == InsertUpTo(p, Size - 1)

Insert(p) == InsertUpTo(p, Size)

\* writeIORef eval.
Overwrite(p) ==
  /\ At(p, "overwrite")
  /\ eval' = "panic"
  /\ Finish(p)
  /\ UNCHANGED <<sequence, cache, alone>>

\* An asynchronous exception.
Interrupt(p) ==
  /\ stack[p] # <<>>
  /\ Escape(p, reply[p])
  /\ UNCHANGED <<sequence, cache, eval, alone>>

Step(p) ==
  \/ ReadCache(p) \/ ReadEval(p) \/ Panic(p)
  \/ \E j \in Index : Need(p, j)
  \/ Fail(p) \/ Value(p) \/ Insert(p) \/ Overwrite(p)

Next ==
  \E p \in Thread : Step(p) \/ Interrupt(p) \/ \E i \in Index : Ask(p, i)

Spec == Init /\ [][Next]_vars

-----------------------------------------------------------------------------
\* Every variable has its type.
TypeOK ==
  /\ sequence \in Sequences
  /\ alone \in BOOLEAN
  /\ cache \in SUBSET Index
  /\ eval \in {"element", "panic"}
  /\ stack \in [Thread -> Seq(Frame)]
  /\ request \in [Thread -> [index : Index \cup {0}, busy : BOOLEAN]]
  /\ reply \in [Thread -> {"none", "value", "error", "panic"}]

\* The assertion in the closure that replaces the evaluator: no lookup ever
\* runs it ("Messed up size accounting").
NoSizePanic == \A p \in Thread : ~(At(p, "element") /\ Top(p).closure = "panic")

\* The same for threads that take turns, and for any threads that share an
\* infinite sequence.
NoPanicUnlessShared == alone \/ sequence.infinite => NoSizePanic

\* The evaluator is given up only when every element is in the table, and never
\* that of an infinite sequence.
ReapedWhenFull == eval = "panic" => ~sequence.infinite /\ cache = Index

\* A lookup answers with the element, wherever it is interrupted: the map
\* implements a pure sequence, for threads that take turns and for any threads
\* if the sequence is infinite.
ImplementsPure ==
  Pure!Init /\ [][alone \/ sequence.infinite => Pure!Next]_<<sequence, request, reply>>

=============================================================================
