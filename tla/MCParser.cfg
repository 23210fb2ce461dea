CONSTANTS
  Binary <- MCBinary
  Unary <- MCUnary
  Depth = 2
  Inputs <- MCInputs
SPECIFICATION Spec
CHECK_DEADLOCK FALSE
INVARIANTS
  TypeOK
  StackSorted
  NothingLost
  UndefinedOnlyUnmatched
  FollowsTheTable
