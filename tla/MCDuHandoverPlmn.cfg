\* A PLMN with an MNC of three digits.
CONSTANTS
    Handler = {h1}
    CuId = {cu1}
    ZeroId = zero
    MaxNeighbours = 0
    MaxSetups = 1
    ChanCap = 1
    Plmn <- ThreeDigits
SPECIFICATION Spec
INVARIANT PlmnAsTested
