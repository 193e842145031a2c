SPECIFICATION PartSpec
CONSTANTS
    Workers = {"w1", "w2"}
    Keys = {"k1", "k2"}
    Capacity = 2
    TTL = 2
    Width = 4
    MaxAcquires = 3
    Nodes = {n1, n2}
    Events = {"e"}
    QueueCapacity = 2
    MaxChanges = 4
    MaxItems = 3
    MaxResumes = 2
    Nonces = {"a", "b", "c"}
    WindowCapacity = 2
    TableCapacity = 1
    TTLs = {1, 2}
    Absent = "absent"
    Kinds = {"quic", "http", "nats"}
    Late = FALSE
    MaxPending = 2
    ItemCapacity = 3
    LeaseLength = 1
    MaxAttempts = 2
    MaxHeld = 2
SYMMETRY Symmetric
CHECK_DEADLOCK FALSE
INVARIANTS  LimitsKept GraphDecided PlacementFaithful
PROPERTIES WritesInGrantOrder LostAuthorityVoid 
