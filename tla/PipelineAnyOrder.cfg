SPECIFICATION Spec

CONSTANTS
    Ops = {"a", "b"}
    Failing = {}
    Suppressed = Suppressed
    NoScratch = NoScratch
    NoRequest = NoRequest
    NoPlan = NoPlan
    NoReply = NoReply
    NoSnap = NoSnap
    NoTicket = NoTicket
    InitDocs <- ShortDocs
    Jobs <- MCJobs
    Steps <- MCSteps
    MaxLen = 2
    MaxRev = 2
    MaxEpoch = 1
    MaxOutbox = 2
    InOrder = FALSE
    EditKinds = {"params", "suppress", "add", "park", "remove", "remove_top", "undo", "rollback", "meta"}
    EditAboveBar = TRUE
    Minting = TRUE

PROPERTIES ImplementsLiveModel

CHECK_DEADLOCK FALSE
