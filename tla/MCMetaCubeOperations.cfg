SPECIFICATION Spec
CONSTANTS
    Exec = {e1, e2}
    Key = {k1, k2}
    Client = {c1, c2}
    NoClaim = NoClaim
    Store = "postgres"
    Crashes = TRUE
INVARIANTS
    OperationsInv
    AppliedOnce
    RepliesAgree
    SomebodyProceeds
PROPERTIES
    ImplementsOperationLog
