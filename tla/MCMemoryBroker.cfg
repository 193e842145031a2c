SPECIFICATION PartSpec
CONSTANTS
    k1 = k1
    k2 = k2
    k3 = k3
    NoWorker = NoWorker
    NoKey = NoKey
    Workers = {w1, w2}
    Keys = {k1, k2, k3}
    Capacity = 2
    Durations = {1, 2}
    MaxTime = 3
    MaxAttempt = 2
CHECK_DEADLOCK FALSE
INVARIANTS OneLiveLease RecordsInOrder
PROPERTIES ImplementsProtocol 
