SPECIFICATION FairSpec
CONSTANTS
    Tenant = {"a", "b"}
    Cubes = 3
    Width = 2
    MaxActive = 2
    MaxGen <- MCMaxGen
INVARIANTS
    AdmissionInv
    SnapshotsAgree
PROPERTIES
    ResultsStay
    RunsEnd
CHECK_DEADLOCK FALSE
