SPECIFICATION Spec
CONSTANTS
    w1 = w1
    w2 = w2
    r1 = r1
    Procs = {w1, w2}
    Readers = {w1}
    Requests = {r1}
    Names <- SetNames
    Values <- SetValues
    InitialFile <- DeliveredFile
    Forms <- SomeForms
    User <- un
    UserPw <- up
    Admin <- an
    AdminPw <- ap
    LineMax = 9
    FileMax = 29
    ExMax = 7
    FormMax = 3
    MaxSets = 2
    MaxCalls = 3
    MaxLost = 1
INVARIANTS
    LastSetWins
    LinesNeverMerge
    LineThenLeftovers
    LoginExact
    GrantedHalvesWereRight
    CrashNeedsPrefix
CHECK_DEADLOCK FALSE
