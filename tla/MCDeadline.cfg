SPECIFICATION WaitingSpec
CONSTANTS
    l1 = l1
    f1 = f1
    c1 = c1
    c2 = c2
    None = None
    ServerFds <- OneListener
    Fds = {f1}
    Conns = {c1, c2}
    MaxTimeout = 5
    MaxText = 1
    Garbage <- NoGarbage
    Faulty = {}
    ErrorLog = {l1}
    Limit = 3
PROPERTIES
    NoEarlyTimeout
CHECK_DEADLOCK FALSE
