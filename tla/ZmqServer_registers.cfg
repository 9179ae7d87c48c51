SPECIFICATION Spec
CONSTANTS
    Documents <- RegisterDocuments
    MaxRequests = 4
    MaxCalls = 1
    Faults = {"i2c_open", "i2c_xfer"}
    MaxAddress = 3
    Devices <- OneDevice
    Buses = {1}
    ByteSpace = 4
    IntHalf = 8
    LongBus = 6
    PtrSpace = 8
    PageSize = 4
    Memory <- Contents
INVARIANT ReadSeesLastWrite
CHECK_DEADLOCK FALSE
