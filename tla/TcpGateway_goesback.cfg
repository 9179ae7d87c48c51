SPECIFICATION Spec
CONSTANTS
    c1 = c1
    c2 = c2
    c3 = c3
    t1 = t1
    t2 = t2
    Conns = {c1, c2, c3}
    NoConn = NoConn
    Threads = {t1, t2}
    Fds = {4, 5}
    MaxSegs = 2
    BufSegs = 4
    Backlog = 2
INVARIANT ResponseGoesBack
CHECK_DEADLOCK FALSE
