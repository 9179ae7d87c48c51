SPECIFICATION Spec
CONSTANTS
    MaxWords = 13
    Inputs <- CodecInputs
    Junk = {0, 255}
    Masks = {}
    Cuts = {9, 32, 33}
    MaxSets = 3
    MaxFrames = 2
INVARIANTS
    FullFrameAgrees
    DataSlips
    OverreadOnlyAtEdge
PROPERTY ShortFrameKeepsFooter
CHECK_DEADLOCK FALSE
