\* One session, one caller and the listener.
CONSTANTS
    Id = {1}
    Session = {1}
    Caller = {c1}
    Pti = {1}
    ChanCap = 1
    None = None
SPECIFICATION Spec
PROPERTY ReleasesOnlyActive
CHECK_DEADLOCK FALSE
