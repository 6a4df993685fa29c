SPECIFICATION FairSpec

CONSTANTS
    Ops = {"a", "b"}
    Failing = {}
    Suppressed = Suppressed
    NoScratch = NoScratch
    NoRequest = NoRequest
    NoPlan = NoPlan
    NoReply = NoReply
    NoSnap = NoSnap
    NoTicket = NoTicket
    InitDocs <- TwoStepDoc
    Jobs <- MCJobs
    Steps <- MCSteps
    MaxLen = 2
    MaxRev = 1
    MaxEpoch = 2
    MaxOutbox = 1
    InOrder = TRUE
    EditKinds = {"params", "rollback"}
    EditAboveBar = FALSE
    Minting = TRUE

PROPERTIES Converges

CHECK_DEADLOCK FALSE
