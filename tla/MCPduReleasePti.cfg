\* A network that uses a second procedure transaction identity.
CONSTANTS
    Id = {1}
    Session = {1}
    Caller = {c1}
    Pti = {1, 2}
    ChanCap = 1
    None = None
SPECIFICATION Spec
INVARIANT ReleaseCompletePti
CHECK_DEADLOCK FALSE
