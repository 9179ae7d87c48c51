SPECIFICATION Spec
CONSTANTS
    MaxWords = 13
    Inputs <- LineInputs
    Junk = {0}
    Masks <- LineMasks
    Cuts = {}
    MaxSets = 2
    MaxFrames = 1
INVARIANT CrcTells
CHECK_DEADLOCK FALSE
