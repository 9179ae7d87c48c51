SPECIFICATION FairSpec
CONSTANTS
    c1 = c1
    c2 = c2
    t1 = t1
    t2 = t2
    Conns = {c1, c2}
    NoConn = NoConn
    Threads = {t1, t2}
    Fds = {4, 5}
    MaxSegs = 4
    BufSegs = 4
    Backlog = 2
PROPERTY Served
CHECK_DEADLOCK FALSE
