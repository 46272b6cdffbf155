SPECIFICATION FairSpec
CONSTANTS
    Exec = {e1}
    Inst = {i1, i2}
    NoExec = NoExec
    NoMsg = NoMsg
    MaxCopies = 2
    Configured = {TRUE}
    MaxCrashes = 0
    MaxOutages = 0
    MaxOps = 1
    MaxRaises = 0
INVARIANTS
    NeverDropped
PROPERTIES
    SettledIsLeftAlone
CHECK_DEADLOCK FALSE
