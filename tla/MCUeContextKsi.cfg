\* An arbitrary network, without trigger goroutines.
CONSTANTS
    Ksi = {k0, k1}
    ZeroKsi = k0
    NoKsi = k7
    Rand = {r1, r2}
    MaxSqn = 1
    ChanCap = 1
    Triggers = {t1}
    None = None
SPECIFICATION Spec
PROPERTY SmcMatchesContext
CHECK_DEADLOCK FALSE
