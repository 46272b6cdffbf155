SPECIFICATION Spec
CONSTANTS
    Exec = {e1, e2}
    Key = {k1}
    Client = {c1, c2}
    NoClaim = NoClaim
    Store = "file"
    Crashes = TRUE
INVARIANTS
    AppliedOnce
