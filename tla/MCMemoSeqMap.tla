---------------------------- MODULE MCMemoSeqMap ----------------------------
EXTENDS MemoSeqMap

\* A recursive sequence: every element is computed from the two before it.
Recursive == [i \in Index |-> {j \in Index : j < i /\ i <= j + 2}]

SeqOf(infinite, fails) == [infinite |-> infinite, fails |-> fails]

\* Finite ones, which can be filled unless an element fails, and infinite ones.
MCSequences ==
  {SeqOf(FALSE, {}), SeqOf(FALSE, {2}), SeqOf(TRUE, {}), SeqOf(TRUE, {1})}

FiniteSequence == {SeqOf(FALSE, {})}
=============================================================================
