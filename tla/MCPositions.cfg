CONSTANTS
    Slots = {1, 2, 3}
    Days = {1, 2}
    Nil = Nil
    Base = 3
    MaxHead = 0
    MaxLength = 3
    MaxWrites = 5
    MaxBulk = 4
SPECIFICATION Spec
INVARIANTS TypeOK OrderUnambiguous PlacedAfterAnchor EveryGapOpen BulkKeysInside
CHECK_DEADLOCK FALSE
