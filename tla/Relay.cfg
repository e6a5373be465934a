SPECIFICATION Spec
CONSTANTS
    Key = {k1, k2}
    ZeroKey = zero
    MaxId = 2
    PeerId <- MCPeerId
    Mix <- MCMix
    RoomIds = {r}
    TokenIds = {t}
    Val = {a, b}
    None = none
    ImageIds = {i}
    Names = {n0}
    NoName = n0
    Lobby = lobby
CONSTRAINT ImagesAlone
SYMMETRY KeySymmetry
INVARIANTS TypeOK RoomComplete RosterSound LobbyComplete IdsSound UniqueKeys NoGhostPeers
