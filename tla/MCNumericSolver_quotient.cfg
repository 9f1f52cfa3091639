SPECIFICATION SolverSpec
CONSTANTS
  TVar <- MCTVar
  FreeTVar <- MCFreeTVar
  Values <- MCValues
  Ops <- AllOps
  Assumptions <- PositiveDivisor
  Goals <- Quotients
  Rounds = 3
  None = None
INVARIANTS DecisionsSound
CHECK_DEADLOCK FALSE
