\* Two identities, two sessions, two callers and the listener.
CONSTANTS
    Id = {1, 2}
    Session = {1, 2}
    Caller = {c1, c2}
    Pti = {1}
    ChanCap = 1
    None = None
SPECIFICATION Spec
INVARIANTS TypeOK ListenerNotStale NoLeak
PROPERTIES CallsReturn ReleaseUnlinks
CHECK_DEADLOCK FALSE
