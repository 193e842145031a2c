SPECIFICATION Spec
CONSTANTS
    Messages <- MCRepublished
    NoKey = "none"
    Progress = {"published", "received"}
    WorkerCheck = "ackIfAlreadySettled"
    TornWrites = TRUE
    MaxSeq = 4
    MaxLines = 4
    MaxEffects = 2
    MaxFaults = 2
CHECK_DEADLOCK FALSE
INVARIANTS  SettledRemembered
PROPERTIES NoRepeatAfterSettled
