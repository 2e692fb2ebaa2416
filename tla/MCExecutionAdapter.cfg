SPECIFICATION FairSpec
CONSTANTS
    a1 = a1
    a2 = a2
    t1 = t1
    c1 = c1
    c2 = c2
    c3 = c3
    c4 = c4
    Threads = {a1, a2}
    Timers = {t1}
    Calls = {c1, c2}
    Lanes = {"effect", "store"}
    Closing = {"effect"}
    Cap <- MCCap
    Closer = Closer
    None = None
INVARIANT SlotsAccounted
INVARIANT CloseIsQuiet
CHECK_DEADLOCK FALSE
PROPERTY WaitsEnd
