\* An arbitrary network: every downlink message at every moment.
CONSTANTS
    Ksi = {k0, k1}
    ZeroKsi = k0
    NoKsi = k7
    Rand = {r1, r2}
    MaxSqn = 1
    ChanCap = 1
    Triggers = {t1, t2}
    None = None
SPECIFICATION Spec
INVARIANT TypeOK ContextFromLatestChallenge
PROPERTY SqnNeverDecreases TriggerFinishes
CHECK_DEADLOCK FALSE
