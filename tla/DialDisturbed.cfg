SPECIFICATION DialSpec
CONSTANTS
    Empty = Empty
    c1 = c1
    c2 = c2
    t1 = t1
    t2 = t2
    Conns = {c1, c2}
    Callers = {t1, t2}
    Readers = {c1}
    Window = 1
    MaxIds = 4
    Scripts <- MCLoginScripts
    RawFrames <- MCRawFrames
INVARIANT LoginUndisturbed
CHECK_DEADLOCK FALSE
