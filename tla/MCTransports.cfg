SPECIFICATION PartSpec
CONSTANTS
    None = None
    Transports <- MCTransportNames
    Names <- MCNames
    NameOf <- MCNameOf
    CapsOf <- MCCapsOf
    Caps <- MCCaps
    Routes <- MCRoutes
    Calls = {1, 2}
    Kinds = {"quic", "tcp", "grpc", "memory"}
    Events = {"a", "b"}
    Subs = {s1, s2, s3}
    Envelopes = {e1, e2}
    Nil = Nil
    Brokers = {"jetstream", "rabbit", "kafka", "redis", "mqtt"}
    Size = 4
    Garbled = {2}
    OtherEvents = {3}
    Wrapped = {TRUE, FALSE}
    MaxFails = 1
    MaxFaults = 2
    Streams = {"sse"}
    Sockets = {"ws"}
    Publishers = {"p", "q"}
    ChanCapacity = 2
    Rounds = 2
SYMMETRY Symmetric
CHECK_DEADLOCK FALSE
INVARIANTS AcceptedHolds AckedIsStored HubFaithful
PROPERTIES DispatchFaithful
