SPECIFICATION Spec
CONSTANTS
    Messages <- MCDistinct
    NoKey = "none"
    Progress = {"received"}
    WorkerCheck = "ackIfAlreadySettled"
    TornWrites = TRUE
    MaxSeq = 9
    MaxLines = 4
    MaxEffects = 2
    MaxFaults = 2
CHECK_DEADLOCK FALSE
INVARIANTS Recoverable
