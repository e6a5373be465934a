SPECIFICATION Spec
CHECK_DEADLOCK FALSE
CONSTANTS
    MaxByte = 255
    Own = {1, 2}
    Foreign = {}
    Groups = {1}
    None = none
    FirstSort <- MCFirstSort
    MaxLen = 2
    MaxMoves = 3
PROPERTIES DropsAbove
