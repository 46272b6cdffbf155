SPECIFICATION FairSpec
CONSTANTS
    Exec = {e1, e2}
    Inst = {i1}
    NoExec = NoExec
    NoMsg = NoMsg
    MaxCopies = 1
    Configured = {FALSE}
    MaxCrashes = 0
    MaxOutages = 0
    MaxOps = 0
    MaxRaises = 1
PROPERTIES
    AcceptedSettles
CHECK_DEADLOCK FALSE
