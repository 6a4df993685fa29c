SPECIFICATION Spec

CONSTANTS
    Ops = {"a", "b"}
    Failing = {"b"}
    Suppressed = Suppressed
    NoScratch = NoScratch
    NoRequest = NoRequest
    NoPlan = NoPlan
    NoReply = NoReply
    NoSnap = NoSnap
    NoTicket = NoTicket
    InitDocs <- TwoStepDoc
    Jobs <- MCJobs
    Steps <- MCSteps
    MaxLen = 2
    MaxRev = 3
    MaxEpoch = 1
    MaxOutbox = 1
    InOrder = TRUE
    EditKinds = {"params", "suppress", "rollback", "undo"}
    EditAboveBar = FALSE
    Minting = FALSE

INVARIANTS IdleShowsDocument

CHECK_DEADLOCK FALSE
