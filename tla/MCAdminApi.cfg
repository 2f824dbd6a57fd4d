CONSTANTS
    Users = {"u"}
    Names = {"u"}
    AdminToken = TRUE
    Logins = {l1, l2}
    MaxAttempts = 1
    Window = 2
    Ttl = 1
    Capacity = 1
    Interval = 2
    MaxTime = 3
    MaxTokens = 3
    MaxFailures = 3
    Threads = {t1, t2}
    Texts = {"x"}
    RING_BUFFER_CAPACITY = 2
    BROADCAST_CAPACITY = 2
    MaxEntries = 4
    None = None
    Clients = {c1, c2}
    MaxStreams = 3
CHECK_DEADLOCK FALSE
SPECIFICATION Spec
INVARIANTS LoginsAreBounded LogIsComplete
PROPERTY StreamFollowsClients
