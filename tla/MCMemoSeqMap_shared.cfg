SPECIFICATION Spec
CONSTANTS
  q = q
  p = p
  Thread = {p, q}
  Size = 3
  Needs <- Recursive
  Sequences <- MCSequences
INVARIANTS NoPanicUnlessShared ReapedWhenFull
PROPERTY ImplementsPure
