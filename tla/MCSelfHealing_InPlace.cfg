SPECIFICATION Spec
CONSTANTS
    Request = {1, 2, 3, 4, 5}
    Kind <- MCKind
    Location = {"a", "b"}
    NoOne = NoOne
    MaxDamaged = 1
PROPERTY RestoredInPlace
CHECK_DEADLOCK FALSE
