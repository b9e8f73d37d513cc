SPECIFICATION Spec
CONSTANTS
  Key <- MCKey
  Copies <- MCCopies
  Ranges <- MCRanges
  TNULL = TNULL
  NULL = NULL
  NoIt = NoIt
  Maps = {m1, m2}
  MaxAlone = 5
  MaxBoth = 1
  MaxCopied = 3
INVARIANTS Linked SizeIsCount GoesDownOnlyIf
PROPERTY Implements
VIEW View
CHECK_DEADLOCK FALSE
