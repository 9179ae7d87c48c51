SPECIFICATION MCFairStation
CONSTANTS
    c1 = c1
    c2 = c2
    t1 = t1
    t2 = t2
    Conns = {c1, c2}
    NoConn = NoConn
    Threads = {t1, t2}
    Fds = {4, 5}
    MaxSegs = 4
    MaxTotal = 4
    BufSegs = 4
    Backlog = 1
    Box = Box
    Foreign = Foreign
    MaxBoots = 2
    MaxRows = 0
    MaxOutages = 0
INVARIANTS
    ExecutedOnceInOrder
    AnswersAreTrue
    WaitIsAccounted
PROPERTY QueuedAreServed
CHECK_DEADLOCK FALSE
