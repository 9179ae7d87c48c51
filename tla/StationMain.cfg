SPECIFICATION FairSpec
CONSTANTS
    p1 = p1
    p2 = p2
    Procs <- Instances
    Foreign = Foreign
    MaxBoots = 2
    MaxRows = 2
    MaxOutages = 2
INVARIANTS
    OneRowPerBoot
    SecondGetIsFresh
    GarbageOnlyAtFirst
PROPERTY BootSettles
CHECK_DEADLOCK FALSE
