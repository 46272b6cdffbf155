SPECIFICATION FairClusterSpec
CONSTANTS
    Tenant = {"a", "b"}
    Node = {1, 2}
    NoNode = NoNode
    Capability = {"CPU", "NUMA"}
    Capabilities <- MCCapabilities
    Capacity <- MCCapacity
    Health <- MCHealth
    Task = {1, 2, 3, 4}
    Info <- MCInfo
    MaxActive = 2
    MaxHistory = 2
INVARIANTS
    ClusterInv
    NobodyWaitsInVain
PROPERTIES
    NoOvertaking
    SettledStays
    MessagesSettle
CHECK_DEADLOCK FALSE
