----------------------------- MODULE MCTCSolver -----------------------------
EXTENDS TCSolver

CONSTANTS z3, cvc4
=============================================================================
