\* MCVector: every sequence of calls on two small vectors.
SPECIFICATION Spec
CONSTANTS
    Vectors = {v1, v2}
    Values = {1, 2}
    NoObject = NoObject
    NoPosition = NoPosition
    Ranges <- MCRanges
    MaxCells = 6
VIEW View
INVARIANT TypeOK
INVARIANT OrderIsTotal
PROPERTY StaysInside
PROPERTY MovesOnlyForRoom
PROPERTY Implements
CHECK_DEADLOCK FALSE
