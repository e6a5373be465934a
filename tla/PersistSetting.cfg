SPECIFICATION Spec
CONSTANTS
    Page = {p1}
    ObjectId = {o1}
    None = none
    Theirs = theirs
    MaxChanges = 3
PROPERTY SettingCleared
