SPECIFICATION Spec
CONSTANTS
  q = q
  p = p
  Thread = {p, q}
  Size = 2
  Needs <- Recursive
  Sequences <- FiniteSequence
INVARIANT NoSizePanic
