SPECIFICATION Spec
CONSTANTS
  Config = {z3, cvc4}
  MaxProcesses = 3
  MaxGoals = 2
  z3 = z3
  cvc4 = cvc4
PROPERTY OnlyOwnCallback
