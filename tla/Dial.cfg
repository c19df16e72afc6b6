SPECIFICATION FairDialSpec
CONSTANTS
    Empty = Empty
    c1 = c1
    c2 = c2
    t1 = t1
    t2 = t2
    Conns = {c1, c2}
    Callers = {t1, t2}
    Readers = {c1}
    Window = 1
    MaxIds = 4
    Scripts <- MCScripts
    RawFrames <- MCRawFrames
INVARIANT SeenByBroadcasts CloseIsFinal
PROPERTY PingIsBarrier NobodyWaits
CHECK_DEADLOCK FALSE
