SPECIFICATION ClusterSpec
CONSTANTS
    Nodes = {"n1", "n2", "n3"}
    AddressesOf <- TrioAddresses
    Keys = {"k", "l"}
    Rank <- TrioRank
    Replication = 2
    Calls = {1}
    None = None
    MaxChanges = 4
    Replicas = {r1, r2}
    Members = {"n1", "n2"}
    Values = {"up"}
    Absent = "absent"
    MaxLog = 3
    Last = 2
    Limits = {1, 2}
    Coordinators = {c1, c2}
    Drained = TRUE
    Exclusive = TRUE
    Failing = {"call", "write"}
    MaxVersion = 2
    MaxFaults = 1
SYMMETRY Symmetric
CHECK_DEADLOCK FALSE
INVARIANTS ReplicasAgree EpochIdentifiesMap 
PROPERTIES PlacementStable
