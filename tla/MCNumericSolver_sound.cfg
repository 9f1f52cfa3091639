SPECIFICATION FairSolverSpec
CONSTANTS
  TVar <- MCTVar
  FreeTVar <- MCFreeTVar
  Values <- MCValues
  Ops <- SoundOps
  Assumptions <- MCAssumptions
  Goals <- MCGoals
  Rounds = 3
  None = None
INVARIANTS KeepsSolutions DecisionsSound
PROPERTIES StepsAreRight RewritingEnds
CHECK_DEADLOCK FALSE
