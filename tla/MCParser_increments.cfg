CONSTANTS
  Binary <- MCBinary
  Unary <- MCUnary
  Depth = 2
  Inputs <- MCIncrements
SPECIFICATION Spec
CHECK_DEADLOCK FALSE
INVARIANTS
  IncrementsFollowTheTable
