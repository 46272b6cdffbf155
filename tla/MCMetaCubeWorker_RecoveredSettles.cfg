SPECIFICATION FairSpec
CONSTANTS
    Exec = {e1}
    Inst = {i1}
    NoExec = NoExec
    NoMsg = NoMsg
    MaxCopies = 2
    Configured = {TRUE}
    MaxCrashes = 1
    MaxOutages = 0
    MaxOps = 1
    MaxRaises = 0
PROPERTIES
    RecoveredSettles
CHECK_DEADLOCK FALSE
