SPECIFICATION Spec
CONSTANTS
    Key = {k1, k2}
    ZeroKey = zero
    MaxId = 2
    PeerId <- MCPeerId
    Mix <- MCMix
    RoomIds = {r}
    TokenIds = {}
    Val = {a}
    None = none
    ImageIds = {}
    Names = {n0}
    NoName = n0
    Lobby = lobby
SYMMETRY KeySymmetry
INVARIANTS MembersAreInRoom
