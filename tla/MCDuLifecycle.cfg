\* Two associations, three goroutines, one caller of Start and Stop.
CONSTANTS
    Task = {g1, g2, g3}
    Caller = {c1}
    Free = free
    Chunks = 1
    MaxConns = 2
    MaxMsgs = 3
SPECIFICATION Spec
INVARIANTS TypeOK AsReceived OneInitialUl
PROPERTIES LockReleased SetupLeadsToUe
CHECK_DEADLOCK FALSE
