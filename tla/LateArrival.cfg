SPECIFICATION Spec

CONSTANTS
    d1 = d1
    d2 = d2
    p1 = p1
    p2 = p2
    Ids <- MCIds
    Paths <- OnePath
    InitFiles <- OneFile
    None = None
    MaxEdits = 2
    MaxLaunches = 1
    MaxFails = 1
    Rare = {"late_arrival"}

INVARIANTS
    OfferHoldsSavedWork

CHECK_DEADLOCK FALSE
