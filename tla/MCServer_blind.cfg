SPECIFICATION Spec
CONSTANTS
    l1 = l1
    l2 = l2
    f1 = f1
    f2 = f2
    c1 = c1
    c2 = c2
    None = None
    ServerFds <- OneListener
    Fds = {f1}
    Conns = {c1, c2}
    MaxTimeout = 2
    MaxText = 1
    Garbage <- AnyGarbage
    Faulty = {}
    ErrorLog = {l1}
INVARIANTS
    FinishedBeforeWrite
CHECK_DEADLOCK FALSE
