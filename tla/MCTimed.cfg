SPECIFICATION FairSpec
CONSTANTS
    l1 = l1
    l2 = l2
    f1 = f1
    c1 = c1
    c2 = c2
    None = None
    ServerFds <- TwoListeners
    Fds = {f1}
    Conns = {c1, c2}
    MaxTimeout = 2
    MaxText = 2
    Garbage <- AnyGarbage
    Faulty = {l2}
    ErrorLog = {l1}
INVARIANTS
    AgeBound
PROPERTIES
    ClientsLeave
    QueueDrains
CHECK_DEADLOCK FALSE
