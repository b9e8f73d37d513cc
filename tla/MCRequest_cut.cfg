SPECIFICATION Spec
CONSTANTS
    Messages <- OneGet
    Alignments = {FALSE}
INVARIANTS
    AnsweredWhenFinished
CHECK_DEADLOCK FALSE
