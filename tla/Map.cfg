SPECIFICATION FairSpec
CHECK_DEADLOCK FALSE
CONSTANTS
    Own = {1, 2}
    Foreign = {3}
    Born = {1, 2}
    Flags = {"LOCKED"}
    KindOf <- MCKindOf
    None = none
    MaxPlace = 2
    MaxMoves = 3
INVARIANTS TypeOK SavedAsShown Driven
PROPERTIES Arrives GesturesAllowed
