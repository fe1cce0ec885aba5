\* Two F1AP messages in flight, reports with up to two neighbours.
CONSTANTS
    Handler = {h1, h2}
    CuId = {cu1}
    ZeroId = zero
    MaxNeighbours = 2
    MaxSetups = 2
    ChanCap = 1
    Plmn <- OnePlmn
SPECIFICATION Spec
INVARIANTS TypeOK OneTrigger CommandKept
PROPERTIES  CommandExecutes SetupAnswered
