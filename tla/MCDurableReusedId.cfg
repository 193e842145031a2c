SPECIFICATION Spec
CONSTANTS
    Messages <- MCReusedId
    NoKey = "none"
    Progress = {"received"}
    WorkerCheck = "ackIfAlreadySettled"
    TornWrites = FALSE
    MaxSeq = 9
    MaxLines = 4
    MaxEffects = 2
    MaxFaults = 2
CHECK_DEADLOCK FALSE
INVARIANTS SettledRemembered
