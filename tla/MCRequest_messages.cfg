SPECIFICATION Spec
CONSTANTS
    Messages <- AllKinds
    Alignments = {TRUE, FALSE}
INVARIANTS
    WholeIsAnswered
    ReceivedIsSent
PROPERTIES
    FlagsFollow
CHECK_DEADLOCK FALSE
