SPECIFICATION Spec

CONSTANTS
    Ops = {"a", "b", "f"}
    Failing = {"f"}
    Suppressed = Suppressed
    NoScratch = NoScratch
    NoRequest = NoRequest
    NoPlan = NoPlan
    NoReply = NoReply
    NoSnap = NoSnap
    NoTicket = NoTicket
    InitDocs <- TwoStepDoc
    Jobs <- MCJobs
    Steps <- MCSteps
    MaxLen = 3
    MaxRev = 2
    MaxEpoch = 1
    MaxOutbox = 1
    InOrder = TRUE
    EditKinds = {"params", "add", "rollback", "undo", "remove"}
    EditAboveBar = FALSE
    Minting = TRUE

INVARIANTS TypeOK WorkerHonest NeverRefused IdleShowsDocument

CHECK_DEADLOCK FALSE
