SPECIFICATION Spec
CONSTANTS
    Key = {k1, k2}
    ZeroKey = zero
    MaxId = 2
    PeerId <- MCPeerId
    Mix <- MCMix
    RoomIds = {r}
    TokenIds = {t}
    Val = {a}
    None = none
    ImageIds = {}
    Names = {n0}
    NoName = n0
    Lobby = lobby
    MaxBacklog = 0
CONSTRAINT OneHost
INVARIANTS TypeOK
PROPERTY Implements
