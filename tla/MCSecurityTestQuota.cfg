SPECIFICATION FairSpec
CONSTANTS
    Request = {1, 2, 3}
    Key = {"u"}
    Owner <- MCOwner
    NoOne = NoOne
    Limit = 1
INVARIANT QuotaInv
PROPERTY RequestsEnd
CHECK_DEADLOCK FALSE
