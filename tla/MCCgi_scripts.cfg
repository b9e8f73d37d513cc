SPECIFICATION Spec
CONSTANTS
    Scripts = {"drain", "poll", "stream", "broken", "missing"}
    MaxBody = 7
    Page = 4
    Nuls = {{}, {2}, {1, 6}}
    Capacity = 2
    Block = 3
INVARIANTS
    TypeOK
    WholeExchange
    NeverBothWait
PROPERTIES
    Returns
CHECK_DEADLOCK FALSE
