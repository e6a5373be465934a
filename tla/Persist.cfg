SPECIFICATION FairSpec
CONSTANTS
    Page = {p1, p2}
    ObjectId = {o1}
    None = none
    Theirs = theirs
    MaxChanges = 3
INVARIANTS TypeOK GoneIsGone RowsKept Covered
PROPERTY Persists
