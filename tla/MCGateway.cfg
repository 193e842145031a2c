SPECIFICATION FairGatewaySpec
CONSTANTS
    e1 = e1
    e2 = e2
    e3 = e3
    t1 = t1
    t2 = t2
    NoTransport = NoTransport
    Events = {e1, e2, e3}
    Transports = {t1, t2}
    Configs <- MCConfigs
    Batch = 2
    MaxFaults = 2
INVARIANTS EgressAccounted DuplicatesNeedFaults
PROPERTIES OutboxDrains
