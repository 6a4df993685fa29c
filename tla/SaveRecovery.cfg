SPECIFICATION Spec

CONSTANTS
    d1 = d1
    d2 = d2
    p1 = p1
    p2 = p2
    Ids <- MCIds
    Paths <- OnePath
    InitFiles <- OneFile
    None = None
    MaxEdits = 2
    MaxLaunches = 1
    MaxFails = 1
    Rare = {}

PROPERTIES
    EventuallyProtected

INVARIANTS
    SaveTypeOK
    CleanMeansSaved
    OfferHoldsSavedWork
    NothingLost

CHECK_DEADLOCK FALSE
