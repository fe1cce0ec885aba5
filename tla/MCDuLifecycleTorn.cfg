\* One association, a buffer filled in two steps.
CONSTANTS
    Task = {g1, g2, g3}
    Caller = {c1}
    Free = free
    Chunks = 2
    MaxConns = 1
    MaxMsgs = 4
SPECIFICATION Spec
INVARIANT HandlesWhatCame
CHECK_DEADLOCK FALSE
