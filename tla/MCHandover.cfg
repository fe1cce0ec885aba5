\* Two F1AP messages in flight, channels of one place.
CONSTANTS
    Handler = {h1, h2}
    CuId = {cu1}
    ZeroId = zero
    MaxNeighbours = 1
    MaxSetups = 1
    ChanCap = 1
    UlCap = 1
    Serving <- ServingDbm
    Target <- TargetDbm
    Plmn <- OnePlmn
SPECIFICATION HoSpec
INVARIANTS HoTypeOK ReportTriggers
PROPERTIES CommandTaken ImplementsDuHandover
