\* Every disturbance; a retransmission, a re-authentication, a restart.
CONSTANTS
    Ksi = {k0, k1}
    ZeroKsi = k0
    NoKsi = k7
    Rand = {r1, r2}
    MaxSqn = 3
    ChanCap = 2
    Triggers = {t1}
    None = None
    MayFail = {"overtaking", "mac", "reject"}
    MaxRetx = 1
    MaxReauth = 1
    MaxRestore = 1
SPECIFICATION NetSpec
INVARIANTS NetTypeOK Agreement AlwaysAnswered DiesOnlyOfRejection
PROPERTIES StaysRegistered Completes Implements
CHECK_DEADLOCK FALSE
