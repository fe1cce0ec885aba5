\* A source DU that receives a setup request while it prepares.
CONSTANTS
    Handler = {h1}
    CuId = {cu1}
    ZeroId = zero
    MaxNeighbours = 1
    MaxSetups = 1
    ChanCap = 1
    Plmn <- OnePlmn
SPECIFICATION Spec
INVARIANT TargetPathInTargetRole
