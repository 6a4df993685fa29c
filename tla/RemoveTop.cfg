SPECIFICATION Spec

CONSTANTS
    Ops = {"a", "b"}
    Failing = {}
    Suppressed = Suppressed
    NoScratch = NoScratch
    NoRequest = NoRequest
    NoPlan = NoPlan
    NoReply = NoReply
    NoSnap = NoSnap
    NoTicket = NoTicket
    InitDocs <- TwoStepDoc
    Jobs <- MCJobs
    Steps <- MCSteps
    MaxLen = 2
    MaxRev = 1
    MaxEpoch = 1
    MaxOutbox = 1
    InOrder = TRUE
    EditKinds = {"remove_top"}
    EditAboveBar = FALSE
    Minting = FALSE

INVARIANTS
    IdleShowsDocument

CHECK_DEADLOCK FALSE
