SPECIFICATION FairSpec
CONSTANTS
    Exec = {e1}
    Inst = {i1}
    NoExec = NoExec
    NoMsg = NoMsg
    MaxCopies = 2
    Configured = {TRUE, FALSE}
    MaxCrashes = 1
    MaxOutages = 1
    MaxOps = 1
    MaxRaises = 1
INVARIANTS
    NothingForgotten
PROPERTIES
    ResumableSettles
    StreamDrains
CHECK_DEADLOCK FALSE
