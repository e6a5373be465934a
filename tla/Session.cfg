SPECIFICATION FairSpec
CHECK_DEADLOCK FALSE
CONSTANTS
    ObjectId = {o1, o2}
    Prop = {k}
    None = none
    NoRoom = noRoom
    Slot = {s1, s2, s3}
    MaxEdits = 2
    MaxLosses = 2
INVARIANTS TypeOK NothingLost NothingWaits
PROPERTIES Converges NeverBackwards
