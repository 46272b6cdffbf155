SPECIFICATION Spec
CONSTANTS
    Request = {1, 2, 3, 4, 5, 6}
    Kind <- MCKind
    Location = {"a", "b"}
    NoOne = NoOne
    MaxDamaged = 1
INVARIANT HealingInv
PROPERTY ImplementsRegistry
CHECK_DEADLOCK FALSE
