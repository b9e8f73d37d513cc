SPECIFICATION MCSpec
CONSTANTS
  Key <- MCKey
  Copies <- MCCopies
  TNULL = TNULL
  NULL = NULL
  MaxNodes = 6
INVARIANTS Ordered RedBlack
PROPERTIES ClimbsOrEnds OneElement IsCall
CHECK_DEADLOCK FALSE
