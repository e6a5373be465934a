SPECIFICATION Spec
CHECK_DEADLOCK FALSE
CONSTANTS
    MaxByte = 5
    Own = {1, 2, 3}
    Foreign = {4}
    Groups = {1, 2}
    None = none
    FirstSort <- MCFirstSort
    MaxLen = 2
    MaxMoves = 4
INVARIANTS TypeOK Listed
PROPERTIES DropsLast VanishesWith
