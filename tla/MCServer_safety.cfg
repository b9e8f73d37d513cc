SPECIFICATION Spec
CONSTANTS
    l1 = l1
    l2 = l2
    f1 = f1
    f2 = f2
    c1 = c1
    c2 = c2
    None = None
    ServerFds <- TwoListeners
    Fds = {f1, f2}
    Conns = {c1, c2}
    MaxTimeout = 2
    MaxText = 1
    Garbage <- BlindWrite
    Faulty = {l2}
    ErrorLog = {l1}
SYMMETRY Symmetry
INVARIANTS
    TypeOK
    Tables
    WriteReady
    OwnTraffic
    ReadableIsRead
PROPERTIES
    Implements
CHECK_DEADLOCK FALSE
