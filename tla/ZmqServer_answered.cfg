SPECIFICATION FairSpec
CONSTANTS
    Documents <- ValidJson
    MaxRequests = 2
    MaxCalls = 1
    Faults = {}
    MaxAddress = 3
    Devices <- OneDevice
    Buses = {1}
    ByteSpace = 4
    IntHalf = 8
    LongBus = 6
    PtrSpace = 8
    PageSize = 4
    Memory <- Contents
PROPERTY EveryRequestAnswered
CHECK_DEADLOCK FALSE
