SPECIFICATION Spec
CONSTANTS
    w1 = w1
    w2 = w2
    NoWorker = NoWorker
    Workers = {w1, w2}
    Envelopes <- MCEnvelopes
    Durations = {1}
    MaxTime = 2
    MaxWait = 1
    MaxToken = 2
    MaxInFlight = 1
SYMMETRY WorkerSymmetry
CHECK_DEADLOCK FALSE
INVARIANTS OneLiveLease SettledByLastLease OneSettlementPerKey HistoryFaithful
PROPERTIES Fenced ImplementsProtocol
