SPECIFICATION FairSpec
CONSTANTS
    Key = {k1, k2}
    ZeroKey = zero
    MaxId = 2
    PeerId <- MCPeerId
    Mix <- MCMix
    RoomIds = {}
    TokenIds = {}
    Val = {a}
    None = none
    ImageIds = {i}
    Names = {n0}
    NoName = n0
    Lobby = lobby
    MaxBacklog = 1
INVARIANTS NoStrandedOutput
PROPERTIES Implements Delivered
