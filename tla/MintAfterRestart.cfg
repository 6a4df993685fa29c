SPECIFICATION Spec

CONSTANTS
    Ops = {"a"}
    Failing = {}
    Suppressed = Suppressed
    NoScratch = NoScratch
    NoRequest = NoRequest
    NoPlan = NoPlan
    NoReply = NoReply
    NoSnap = NoSnap
    NoTicket = NoTicket
    InitDocs <- TwoStepDoc
    Jobs <- MCJobs
    Steps <- MCSteps
    MaxLen = 2
    MaxRev = 0
    MaxEpoch = 2
    MaxOutbox = 1
    InOrder = TRUE
    EditKinds = {}
    EditAboveBar = FALSE
    Minting = TRUE

INVARIANTS
    NoEmptyCheckpoint

CHECK_DEADLOCK FALSE
