SPECIFICATION FairSpec
CONSTANTS
    Instance = {i1, i2}
    NoOne = NoOne
    Orphan = Orphan
    Limit = 1
    Production = TRUE
    MaxQueue = 1
    MaxForecast = 3
    MaxEvents = 1
    MaxFaults = 2
INVARIANTS
    SimulatorInv
PROPERTIES
    ImplementsLedger
    ForecastsResolve
CHECK_DEADLOCK FALSE
