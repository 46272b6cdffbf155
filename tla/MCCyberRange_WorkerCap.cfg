SPECIFICATION Spec
CONSTANTS
    Tenant = {"a", "b"}
    Cubes = 5
    Width = 4
    MaxActive = 4
    MaxGen <- MCOneRun
INVARIANT WorkerCap
CHECK_DEADLOCK FALSE
