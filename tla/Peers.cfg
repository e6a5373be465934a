SPECIFICATION Spec
CHECK_DEADLOCK FALSE
SYMMETRY Symmetry
CONSTANTS
    PeerId = {1, 2}
    PublicKey = {k, l}
    Me = me
    Room = {r}
    Token = {t}
    None = none
    MaxBus = 3
    MaxMoves = 4
INVARIANTS TypeOK KeysPaired   RoomsListed
