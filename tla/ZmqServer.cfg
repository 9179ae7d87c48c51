SPECIFICATION FairSpec
CONSTANTS
    Documents <- AllDocuments
    MaxRequests = 2
    MaxCalls = 3
    Faults = {"recv", "i2c_open", "i2c_slave", "i2c_xfer", "popen", "output", "mem_open", "mem_map", "mem_read"}
    MaxAddress = 3
    Devices <- OneDevice
    Buses = {1}
    ByteSpace = 4
    IntHalf = 8
    LongBus = 6
    PtrSpace = 8
    PageSize = 4
    Memory <- Contents
INVARIANTS
    TypeOK
    NothingLeaks
    ReplyMatchesRequest
    SoundRequestsSurvive
PROPERTIES
    StoppedForGood
    Answered
    StopReturnsOnTraffic
CHECK_DEADLOCK FALSE
