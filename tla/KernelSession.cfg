SPECIFICATION SessionSpec

CONSTANTS
    Ops = {"a", "b", "f"}
    Failing = {"f"}
    Suppressed = Suppressed
    MaxLen = 2
    Jobs = {1, 2}
    Steps <- MCSteps
    MaxEpoch = 2
    NoScratch = NoScratch

INVARIANTS
    SessionTypeOK
    HashNamesGeometry
    HeadIsOneTimeline

CHECK_DEADLOCK FALSE
