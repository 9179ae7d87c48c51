SPECIFICATION FairSpec
CONSTANTS
    p1 = p1
    p2 = p2
    Procs = {p1, p2}
    Commanders = {p1}
    Outputs = {1, 5}
    BufSize = 2
    InitAlloc = 2
    ReplyMax = 6
    PipeMax = 3
    MaxFds = 4
    MaxCalls = 3
    CommandLens = {4}
    AnswerLens = {3}
    ReadMax = 5
    MaxSerial = 2
INVARIANTS
    BufferSuffices
    OnlyRootLeaks
    ReplyThenLeftovers
    AnswerIsOwn
PROPERTIES
    OrphansEnd
    CallsReturn
CHECK_DEADLOCK FALSE
